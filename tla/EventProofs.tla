---------------------------- MODULE EventProofs ----------------------------
(***************************************************************************)
(* Proofs about EventWrite, for any calls, events, guests and bounds.      *)
(***************************************************************************)
EXTENDS EventWrite, TLAPS

-----------------------------------------------------------------------------
(* What the operators of EventPlan return.                                 *)

\* A read of an event is an event, of the same version.
LEMMA ShownType ==
    ASSUME NEW s \in EventState
    PROVE  Shown(s) \in EventState /\ Shown(s).ver = s.ver
           /\ Shown(s).status = s.status
BY DEF Shown, EventState, Answers

\* A request's fields are in their sets.
LEMMA RequestType ==
    ASSUME NEW r \in Requests
    PROVE  /\ r \in RequestSpace
           /\ r.at \in Events /\ Target(r) \in Events
           /\ r.title \in Titles \union {Keep}
           /\ r.add \subseteq Guests /\ r.drop \subseteq Guests
           /\ r.answer \in Answers
BY RequestsAssumption, EventsAssumption DEF RequestSpace, Target, Answers

\* A plan is a plan.
LEMMA PlanType ==
    ASSUME NEW r \in Requests, NEW s \in EventState
    PROVE  PlanOf(r, s) \in Plan
<1>1. Target(r) \in Events BY RequestType
<1>2. On(s) \subseteq Guests BY DEF On
<1>3. GuestsOf(s) \subseteq Guests BY <1>2 DEF GuestsOf
<1>4. Reach(r, s) \intersect Outside \subseteq Guests
    BY PeopleAssumption
<1>5. s.title \in Titles /\ s.answers[Me] \in Answers /\ s.status \in Statuses
    BY PeopleAssumption DEF EventState
<1> QED BY <1>1, <1>2, <1>3, <1>4, <1>5 DEF PlanOf, Plan, Answers, Statuses

\* A write leaves an event, one version on.
LEMMA AppliedType ==
    ASSUME NEW r \in Requests, NEW s \in EventState, NEW cur \in EventState
    PROVE  Applied(r, s, cur) \in EventState
           /\ Applied(r, s, cur).ver = cur.ver + 1
<1> DEFINE a == Applied(r, s, cur)
<1>1. a.ver \in Nat \ {0} /\ a.ver = cur.ver + 1
    BY DEF Applied, EventState
<1>2. a.title \in Titles
    BY RequestType DEF Applied, EventState, Retitles
<1>3. a.answers \in [Guests -> Answers]
    BY RequestType DEF Applied, EventState, Answers
<1>4. a.status \in Statuses
    BY DEF Applied, EventState, Statuses
<1>5. a.here \in BOOLEAN /\ a.omits \in BOOLEAN
    BY DEF Applied, EventState
<1>6. a = [ver |-> a.ver, title |-> a.title, answers |-> a.answers,
           status |-> a.status, here |-> a.here, omits |-> a.omits]
    BY DEF Applied
<1> QED BY <1>1, <1>2, <1>3, <1>4, <1>5, <1>6 DEF EventState

\* An empty call field is still an event.
LEMMA BlankType == Blank \in EventState
BY RequestsAssumption DEF Blank, EventState, Answers, Statuses

-----------------------------------------------------------------------------
(* Type correctness.                                                       *)

\* A call that is to send has an attempt left.
AttemptLeft == \A c \in Calls : call[c].pc = "send" => call[c].sends <= MaxRetries
TypeInv == TypeOK /\ AttemptLeft

\* A pending request is well formed.
LEMMA PendingType ==
    ASSUME TypeOK, NEW c \in Calls
    PROVE  Pending(c) \in Request /\ Pending(c).req \in Requests
           /\ Pending(c).seen \in EventState /\ Pending(c).call = c
BY DEF TypeOK, CallState, Pending, Request, IfMatch, AnyVersion, EventState

\* Carrying a request out leaves well-formed events and history.
LEMMA LandType ==
    ASSUME TypeOK, NEW m \in Request, Land(m)
    PROVE  events' \in [Events -> EventState] /\ landed' \subseteq Landing
<1> DEFINE e == Target(m.req)
<1>1. m.req \in Requests /\ m.seen \in EventState /\ m.call \in Calls
    BY DEF Request
<1>2. e \in Events BY <1>1, RequestType
<1>3. events[e] \in EventState BY <1>2 DEF TypeOK
<1>4. events' = [events EXCEPT ![e] = Applied(m.req, m.seen, events[e])]
    BY DEF Land
<1>5. events' \in [Events -> EventState]
    BY <1>1, <1>2, <1>3, <1>4, AppliedType DEF TypeOK
<1>6. PlanOf(m.req, Shown(events[e])) \in Plan
    BY <1>1, <1>3, ShownType, PlanType
<1>7. [call |-> m.call, event |-> e, basis |-> m.seen.ver,
       on |-> events[e].ver, plan |-> PlanOf(m.req, Shown(events[e]))]
        \in Landing
    BY <1>1, <1>2, <1>3, <1>6 DEF Landing, EventState
<1> QED BY <1>5, <1>7 DEF Land, TypeOK

Outcomes == {"none", "ok", "dry_run", "invalid", "blocked", "conflict",
             "not_read", "stale_etag", "stale_plan", "stale", "gone",
             "refused", "rate_limited", "unavailable", "ambiguous"}

\* Ending a call leaves it well formed.
LEMMA FinishType ==
    ASSUME TypeInv, NEW c \in Calls, NEW o \in Outcomes, Finish(c, o)
    PROVE  /\ call' \in [Calls -> CallState]
           /\ AttemptLeft'
<1>1. call'[c] = [call[c] EXCEPT !.pc = "done", !.outcome = o,
                                 !.addressed = Blank, !.seen = Blank]
    BY DEF Finish, TypeInv, TypeOK
<1>2. \A d \in Calls \ {c} : call'[d] = call[d]
    BY DEF Finish, TypeInv, TypeOK
<1>3. call'[c] \in CallState
    BY <1>1, BlankType DEF TypeInv, TypeOK, CallState, Outcomes
<1>4. call'[c].pc = "done"
    BY <1>1 DEF TypeInv, TypeOK, CallState
<1>5. call' \in [Calls -> CallState]
    BY <1>2, <1>3 DEF Finish, TypeInv, TypeOK
<1> QED BY <1>2, <1>4, <1>5 DEF TypeInv, AttemptLeft

\* A plan that is refused is refused with one of the outcomes.
LEMMA RefusalType ==
    ASSUME NEW k, NEW a, NEW s
    PROVE  Refusal(k, a, s) \in Outcomes
BY DEF Refusal, BodyRefusal, NotifyRefusal, Outcomes

\* Planning leaves the call well formed.
LEMMA PlanFromType ==
    ASSUME TypeInv, NEW c \in Calls, NEW a \in EventState,
           NEW s \in EventState, PlanFrom(c, a, s)
    PROVE  call' \in [Calls -> CallState] /\ AttemptLeft'
<1>1. CASE Refusal(call[c], a, s) # "none"
    BY <1>1, FinishType, RefusalType DEF PlanFrom
<1>2. CASE Refusal(call[c], a, s) = "none"
    <2>1. PlanOf(call[c].req, s) \in Plan
        BY PlanType DEF TypeInv, TypeOK, CallState
    <2> QED BY <1>2, <2>1, BoundsAssumption
        DEF PlanFrom, TypeInv, TypeOK, AttemptLeft, CallState
<1> QED BY <1>1, <1>2

\* Calls, events and history are well formed at the start.
LEMMA TypeInit == Init => TypeInv
<1> SUFFICES ASSUME Init PROVE TypeInv
    OBVIOUS
<1>1. events \in [Events -> EventState]
    BY RequestsAssumption DEF Init
<1>2. \A c \in Calls : call[c] \in CallState /\ call[c].pc = "idle"
    <2> TAKE c \in Calls
    <2>1. call[c] \in [pc: {"idle"}, req: Requests, quoted: {0},
                     second: {FALSE}, addressed: {Blank}, seen: {Blank},
                     first: {{}}, sends: {0}, unsure: {FALSE},
                     outcome: {"none"}]
        BY DEF Init
    <2>2. 0 \in 0 .. MaxRetries + 1
        BY BoundsAssumption
    <2>3. call[c].pc = "idle" /\ call[c].req \in Requests
        BY <2>1
    <2>4. call[c].outcome = "none" /\ call[c].first = {} /\ call[c].sends = 0
          /\ call[c].quoted = 0
        BY <2>1
    <2>5. call[c].addressed = Blank /\ call[c].seen = Blank
        BY <2>1
    <2>6. call[c].second \in BOOLEAN /\ call[c].unsure \in BOOLEAN
        BY <2>1
    <2>7. call[c] = [pc |-> call[c].pc, req |-> call[c].req,
                     quoted |-> call[c].quoted, second |-> call[c].second,
                     addressed |-> call[c].addressed, seen |-> call[c].seen,
                     first |-> call[c].first, sends |-> call[c].sends,
                     unsure |-> call[c].unsure, outcome |-> call[c].outcome]
        BY <2>1
    <2> QED BY <2>2, <2>3, <2>4, <2>5, <2>6, <2>7, BlankType DEF CallState
<1>3. call \in [Calls -> CallState]
    BY <1>2 DEF Init
<1> QED BY <1>1, <1>2, <1>3, BoundsAssumption
        DEF Init, TypeInv, TypeOK, AttemptLeft

\* Starting a call keeps the types.
LEMMA StartType ==
    ASSUME TypeInv, NEW c \in Calls, Start(c)
    PROVE  TypeInv'
<1> DEFINE k == [call[c] EXCEPT !.pc = "read",
                                !.quoted = events[call[c].req.at].ver]
<1>1. call' = [call EXCEPT ![c] = k]
    BY DEF Start, TypeInv, TypeOK
<1>2. events[call[c].req.at].ver \in Nat
    BY RequestType DEF TypeInv, TypeOK, CallState, EventState
<1>3. k \in CallState /\ k.pc = "read"
    BY <1>2 DEF TypeInv, TypeOK, CallState
<1> QED BY <1>1, <1>3 DEF Start, TypeInv, TypeOK, AttemptLeft

\* Reading the addressed event or its series keeps the types.
LEMMA ReadType ==
    ASSUME TypeInv, NEW c \in Calls, Read(c)
    PROVE  TypeInv'
<1>1. CASE ReadAddressed(c)
    <2> DEFINE r == call[c].req
               s == Shown(events[r.at])
    <2>1. r \in Requests /\ s \in EventState
        BY RequestType, ShownType DEF TypeInv, TypeOK, CallState
    <2>2. CASE Finish(c, "conflict") \/ Finish(c, "invalid")
        BY <1>1, <2>2, FinishType DEF ReadAddressed, TypeInv, TypeOK, Outcomes
    <2>3. CASE call' = [call EXCEPT ![c].pc = "aim", ![c].addressed = s]
        <3> DEFINE k == [call[c] EXCEPT !.pc = "aim", !.addressed = s]
        <3>1. call' = [call EXCEPT ![c] = k]
            BY <2>3 DEF TypeInv, TypeOK
        <3>2. k \in CallState /\ k.pc = "aim"
            BY <2>1 DEF TypeInv, TypeOK, CallState
        <3> QED BY <1>1, <3>1, <3>2
                DEF ReadAddressed, TypeInv, TypeOK, AttemptLeft
    <2>4. CASE PlanFrom(c, s, s)
        BY <1>1, <2>1, <2>4, PlanFromType DEF ReadAddressed, TypeInv, TypeOK
    <2> QED BY <1>1, <2>2, <2>3, <2>4 DEF ReadAddressed
<1>2. CASE ReadSeries(c)
    <2> DEFINE s == Shown(events[Target(call[c].req)])
    <2>1. s \in EventState /\ call[c].addressed \in EventState
        BY RequestType, ShownType DEF TypeInv, TypeOK, CallState
    <2> QED BY <1>2, <2>1, PlanFromType DEF ReadSeries, TypeInv, TypeOK
<1>3. CASE ReadFails(c)
    BY <1>3, FinishType DEF ReadFails, TypeInv, TypeOK, Outcomes
<1> QED BY <1>1, <1>2, <1>3 DEF Read

\* Sending a request keeps the types, and counts within MaxRetries + 1.
LEMMA SendType ==
    ASSUME TypeInv, NEW c \in Calls, Send(c)
    PROVE  TypeInv'
<1> DEFINE k == [call[c] EXCEPT !.pc = "wait", !.sends = call[c].sends + 1]
<1>1. call' = [call EXCEPT ![c] = k]
    BY DEF Send, TypeInv, TypeOK
<1>2. call[c].sends + 1 \in 0 .. MaxRetries + 1
    BY BoundsAssumption DEF Send, TypeInv, TypeOK, AttemptLeft, CallState
<1>3. k \in CallState /\ k.pc = "wait"
    BY <1>2 DEF TypeInv, TypeOK, CallState
<1> QED BY <1>1, <1>3 DEF Send, TypeInv, TypeOK, AttemptLeft

\* gapi sends a request again: the call stays well formed.
LEMMA ResendType ==
    ASSUME TypeInv, NEW c \in Calls, MayRetry(c), NEW u \in BOOLEAN,
           \/ call' = [call EXCEPT ![c].pc = "send"]
           \/ call' = [call EXCEPT ![c].pc = "send", ![c].unsure = u]
    PROVE  call' \in [Calls -> CallState] /\ AttemptLeft'
<1>1. PICK v \in BOOLEAN :
        call' = [call EXCEPT ![c] = [call[c] EXCEPT !.pc = "send", !.unsure = v]]
    <2>1. CASE call' = [call EXCEPT ![c].pc = "send"]
        <3>1. call[c].unsure \in BOOLEAN /\
              [call[c] EXCEPT !.pc = "send"]
                = [call[c] EXCEPT !.pc = "send", !.unsure = call[c].unsure]
            BY DEF TypeInv, TypeOK, CallState
        <3> QED BY <2>1, <3>1 DEF TypeInv, TypeOK
    <2>2. CASE call' = [call EXCEPT ![c].pc = "send", ![c].unsure = u]
        BY <2>2 DEF TypeInv, TypeOK
    <2> QED BY <2>1, <2>2
<1> DEFINE k == [call[c] EXCEPT !.pc = "send", !.unsure = v]
<1>2. call[c] \in CallState
    BY DEF TypeInv, TypeOK
<1>3. k \in CallState
    <2>1. CASE v = TRUE
        BY <1>2, <2>1 DEF CallState
    <2>2. CASE v = FALSE
        BY <1>2, <2>2 DEF CallState
    <2> QED BY <2>1, <2>2
<1>4. k.sends = call[c].sends
    BY <1>2 DEF CallState
<1>5. call[c].sends <= MaxRetries
    BY DEF MayRetry
<1> QED BY <1>1, <1>3, <1>4, <1>5 DEF TypeInv, TypeOK, AttemptLeft

\* Every answer to a request, or its absence, keeps the types.
LEMMA AnswerType ==
    ASSUME TypeInv, NEW c \in Calls, Answer(c)
    PROVE  TypeInv'
<1>0. Pending(c) \in Request
    BY PendingType DEF TypeInv
<1>1. CASE Accepted(c)
    BY <1>0, <1>1, LandType, FinishType
        DEF Accepted, TypeInv, TypeOK, Outcomes
<1>2. CASE PreconditionFailed(c)
    <2>1. CASE MayReplan(c)
        <3> DEFINE k == [call[c] EXCEPT !.pc = "read", !.second = TRUE,
                                        !.addressed = Blank, !.seen = Blank]
        <3>1. call' = [call EXCEPT ![c] = k]
            BY <1>2, <2>1 DEF PreconditionFailed, TypeInv, TypeOK
        <3>2. k \in CallState /\ k.pc = "read"
            BY BlankType DEF TypeInv, TypeOK, CallState
        <3> QED BY <1>2, <3>1, <3>2
                DEF PreconditionFailed, TypeInv, TypeOK, AttemptLeft
    <2>2. CASE ~MayReplan(c)
        BY <1>2, <2>2, FinishType
            DEF PreconditionFailed, TypeInv, TypeOK, Outcomes
    <2> QED BY <2>1, <2>2
<1>3. CASE NotThere(c)
    BY <1>3, FinishType DEF NotThere, TypeInv, TypeOK, Outcomes
<1>4. CASE Refused(c)
    BY <1>4, FinishType DEF Refused, TypeInv, TypeOK, Outcomes
<1>5. CASE RateLimited(c)
    <2>1. call' \in [Calls -> CallState] /\ AttemptLeft'
        BY <1>5, FinishType, ResendType DEF RateLimited, Outcomes
    <2> QED BY <1>5, <2>1 DEF RateLimited, TypeInv, TypeOK
<1>6. CASE Unanswered(c)
    <2>1. call' \in [Calls -> CallState] /\ AttemptLeft'
        BY <1>6, FinishType, ResendType DEF Unanswered, Outcomes
    <2> QED BY <1>0, <1>6, <2>1 DEF Unanswered, TypeInv, TypeOK
<1> QED BY <1>1, <1>2, <1>3, <1>4, <1>5, <1>6 DEF Answer

\* A request carried out after the client gave up keeps the types.
LEMMA LandLateType ==
    ASSUME TypeInv, NEW m \in late, LandLate(m)
    PROVE  TypeInv'
<1>1. m \in Request
    BY DEF TypeInv, TypeOK
<1> QED BY <1>1, LandType DEF LandLate, TypeInv, TypeOK, AttemptLeft

\* A change by anybody else keeps the types.
LEMMA EditType ==
    ASSUME TypeInv, NEW e \in Events, Edit(e)
    PROVE  TypeInv' /\ events'[e].ver = events[e].ver + 1
           /\ \A f \in Events \ {e} : events'[f] = events[f]
<1>1. PICK s \in Edited(events[e]) :
        events' = [events EXCEPT ![e] = [s EXCEPT !.ver = s.ver + 1]]
    BY DEF Edit
<1>2. events[e] \in EventState
    BY DEF TypeInv, TypeOK
<1>3. s \in EventState /\ s.ver = events[e].ver
    BY <1>2 DEF Edited, EventState, Statuses
<1>4. [s EXCEPT !.ver = s.ver + 1] \in EventState
    BY <1>3 DEF EventState
<1>5. edits' \in 0 .. MaxEdits
    BY BoundsAssumption DEF Edit, TypeInv, TypeOK
<1> QED BY <1>1, <1>3, <1>4, <1>5
        DEF Edit, TypeInv, TypeOK, AttemptLeft, EventState

\* Every step keeps the types.
LEMMA TypeNext ==
    ASSUME TypeInv, [Next]_vars
    PROVE  TypeInv'
<1>1. CASE UNCHANGED vars
    BY <1>1 DEF vars, TypeInv, TypeOK, AttemptLeft
<1>2. CASE Next
    BY <1>2, StartType, ReadType, SendType, AnswerType, LandLateType, EditType
        DEF Next
<1> QED BY <1>1, <1>2

\* The calls, the events and the history are well formed in every reachable
\* state, and a request is sent at most MaxRetries + 1 times.
THEOREM TypeCorrect == Spec => []TypeOK
<1>1. TypeInv => TypeOK
    BY DEF TypeInv
<1> QED BY <1>1, TypeInit, TypeNext, PTL DEF Spec

-----------------------------------------------------------------------------
(* Why writes land as planned.  A request is sound if it comes from a plan *)
(* that passed every check, and the version it was planned on, as long as  *)
(* it is the event's, stands for what the event shows: the etag identifies *)
(* the content, so If-Match carries the checks over to the landing.        *)

SoundRequest(m) ==
    LET e == Target(m.req)
        k == call[m.call]
    IN  /\ m.req = k.req
        /\ m.match = IfMatch(m.req, m.seen)
        /\ m.seen.ver <= events[e].ver
        /\ m.seen.ver = events[e].ver => m.seen = Shown(events[e])
        /\ BodyRefusal(m.req, m.seen) = "none"
        /\ NotifyRefusal(m.req, m.seen) = "none"
        /\ ~m.req.dryRun
        /\ k.first = {PlanOf(m.req, m.seen)}
        /\ m.req.quotes /\ ~m.req.force /\ e = m.req.at =>
                m.seen.ver = k.quoted
        /\ m.req.op = "cancel" /\ e = m.req.at => m.seen.status = "confirmed"

\* A landed write was unforced only onto the version it was planned on, and
\* its event has moved on since.
SoundLanding(l) ==
    LET k == call[l.call] IN
    /\ l.event = Target(k.req)
    /\ l.on < events[l.event].ver
    /\ ~k.req.force =>
        /\ k.first = {l.plan}
        /\ ~OnlyPersonal(k.req) =>
            /\ k.req.notify = "" =>
                    l.plan.reached = {} /\ k.req.add \subseteq {Me}
            /\ k.req.notify \in {"", "none"} => l.plan.outside = {}
        /\ k.req.quotes /\ l.event = k.req.at => l.on = k.quoted

SoundCalls ==
    \A c \in Calls :
        /\ call[c].pc = "idle" => call[c].first = {}
        /\ call[c].pc = "aim" => Target(call[c].req) # call[c].req.at
        /\ call[c].pc \in {"send", "wait"} => SoundRequest(Pending(c))
SoundLate == \A m \in late : SoundRequest(m)
SoundHistory == \A l \in landed : SoundLanding(l)

IInv == TypeInv /\ SoundCalls /\ SoundLate /\ SoundHistory

\* What a step may do to the rest: an event only moves on to its next
\* version, and a call keeps its request, its first plan and its etag.
Moved == \A f \in Events :
            events'[f] = events[f] \/ events'[f].ver = events[f].ver + 1
Same(c) == /\ call'[c].req = call[c].req /\ call'[c].first = call[c].first
           /\ call'[c].quoted = call[c].quoted

\* A sound request stays sound while events only move on to new versions:
\* once its version is gone, its If-Match can no longer hold.
LEMMA RequestFrame ==
    ASSUME TypeInv, TypeInv', NEW m \in Request, SoundRequest(m), Moved,
           Same(m.call)
    PROVE  SoundRequest(m)'
<1> DEFINE e == Target(m.req)
<1>1. m.req \in Requests /\ m.call \in Calls /\ m.seen \in EventState
    BY DEF Request
<1>2. e \in Events BY <1>1, RequestType
<1>3. events[e].ver \in Nat /\ events'[e].ver \in Nat /\ m.seen.ver \in Nat
    BY <1>1, <1>2 DEF TypeInv, TypeOK, EventState
<1>4. events'[e] = events[e] \/ events'[e].ver = events[e].ver + 1
    BY <1>2 DEF Moved
<1>5. /\ m.seen.ver <= events'[e].ver
      /\ m.seen.ver = events'[e].ver => m.seen = Shown(events'[e])
    BY <1>3, <1>4 DEF SoundRequest
<1> QED BY <1>5 DEF SoundRequest, Same

\* A sound landing stays sound, since its event never returns to an old
\* version.
LEMMA LandingFrame ==
    ASSUME TypeInv, TypeInv', NEW l \in Landing, SoundLanding(l), Moved,
           Same(l.call)
    PROVE  SoundLanding(l)'
<1>1. l.event \in Events /\ l.on \in Nat
    BY DEF Landing
<1>2. events[l.event].ver \in Nat /\ events'[l.event].ver \in Nat
    BY <1>1 DEF TypeInv, TypeOK, EventState
<1>3. l.on < events[l.event].ver
    BY Zenon DEF SoundLanding
<1>4. events'[l.event] = events[l.event]
      \/ events'[l.event].ver = events[l.event].ver + 1
    BY <1>1 DEF Moved
<1>5. l.on < events'[l.event].ver
    BY <1>1, <1>2, <1>3, <1>4
<1> QED BY <1>5 DEF SoundLanding, Same

\* A call's own part of the invariant.
SoundCall(c) ==
    /\ call[c].pc = "idle" => call[c].first = {}
    /\ call[c].pc = "aim" => Target(call[c].req) # call[c].req.at
    /\ call[c].pc \in {"send", "wait"} => SoundRequest(Pending(c))

\* A step of one call leaves what is known of every other call and of the
\* requests given up on.
LEMMA CallFrame ==
    ASSUME IInv, TypeInv', Moved, NEW c \in Calls, call'[c] = call[c]
    PROVE  SoundCall(c)'
<1>1. Pending(c)' = Pending(c) /\ Pending(c) \in Request /\ Pending(c).call = c
    BY PendingType DEF Pending, IInv, TypeInv
<1>2. CASE call[c].pc \in {"send", "wait"}
    <2>1. SoundRequest(Pending(c))
        BY <1>2 DEF IInv, SoundCalls
    <2>2. Same(Pending(c).call)
        BY <1>1 DEF Same
    <2>3. \A m \in Request : m = Pending(c) => SoundRequest(m)'
        BY <1>1, <2>1, <2>2, RequestFrame DEF IInv
    <2>4. (SoundRequest(Pending(c)))'
        BY <1>1, <2>3 DEF SoundRequest
    <2> QED BY <1>2, <2>4 DEF SoundCall
<1>3. CASE call[c].pc \notin {"send", "wait"}
    BY <1>3 DEF SoundCall, IInv, SoundCalls
<1> QED BY <1>2, <1>3

\* A call that has planned nothing has no request out and, unless forced,
\* nothing landed.
LEMMA NothingPlanned ==
    ASSUME IInv, NEW c \in Calls, call[c].first = {}
    PROVE  /\ \A m \in late : m.call # c
           /\ \A l \in landed : l.call = c => call[c].req.force
BY DEF IInv, SoundLate, SoundRequest, SoundHistory, SoundLanding

\* One call moves on without planning and without landing.
LEMMA StepFrame ==
    ASSUME IInv, TypeInv', Moved, NEW c \in Calls, Same(c),
           \A d \in Calls \ {c} : call'[d] = call[d],
           \A m \in late' : m \in late \/ m = Pending(c),
           call[c].pc \in {"send", "wait"} \/ late' = late
    PROVE  /\ \A d \in Calls \ {c} : SoundCall(d)'
           /\ SoundLate'
           /\ \A l \in landed : SoundLanding(l)'
<1>1. \A d \in Calls : Same(d)
    BY DEF Same
<1>2. SoundLate'
    <2> SUFFICES ASSUME NEW m \in late' PROVE SoundRequest(m)'
        BY DEF SoundLate
    <2>1. m \in Request /\ m.call \in Calls
        BY DEF TypeInv, TypeOK, Request
    <2>2. SoundRequest(m)
        BY DEF IInv, SoundLate, SoundCalls
    <2> QED BY <1>1, <2>1, <2>2, RequestFrame DEF IInv
<1>3. \A l \in landed : SoundLanding(l)'
    <2> TAKE l \in landed
    <2>1. l \in Landing /\ l.call \in Calls /\ SoundLanding(l)
        BY DEF IInv, TypeInv, TypeOK, Landing, SoundHistory
    <2> QED BY <1>1, <2>1, LandingFrame DEF IInv
<1> QED BY <1>2, <1>3, CallFrame

\* Planning: a plan that goes ahead is sound, and the first plan stays.
LEMMA PlanFromSound ==
    ASSUME IInv, TypeInv', NEW c \in Calls, NEW a \in EventState,
           call[c].pc \in {"read", "aim"},
           LET r == call[c].req
               s == Shown(events[Target(r)])
           IN  /\ PlanFrom(c, a, s)
               /\ Target(r) = r.at => a = s
               /\ r.op = "cancel" /\ Target(r) = r.at => s.status = "confirmed",
           UNCHANGED <<events, late, landed>>
    PROVE  SoundCalls' /\ SoundLate' /\ SoundHistory'
<1> DEFINE r == call[c].req
           s == Shown(events[Target(r)])
           p == PlanOf(r, s)
<1>1. Moved
    BY DEF Moved
<1>2. r \in Requests /\ Target(r) \in Events /\ s \in EventState
      /\ s.ver = events[Target(r)].ver /\ s.ver \in Nat
    BY RequestType, ShownType DEF IInv, TypeInv, TypeOK, CallState, EventState
<1>3. CASE Refusal(call[c], a, s) # "none"
    <2>1. Finish(c, Refusal(call[c], a, s))
        BY <1>3 DEF PlanFrom
    <2>2. /\ \A d \in Calls \ {c} : call'[d] = call[d]
          /\ call'[c] = [call[c] EXCEPT !.pc = "done",
                !.outcome = Refusal(call[c], a, s),
                !.addressed = Blank, !.seen = Blank]
        BY <2>1 DEF Finish, IInv, TypeInv, TypeOK
    <2>3. Same(c) /\ call'[c].pc = "done"
        BY <2>2 DEF Same, IInv, TypeInv, TypeOK, CallState
    <2>4. SoundCall(c)'
        BY <2>3 DEF SoundCall
    <2> QED BY <1>1, <2>2, <2>3, <2>4, StepFrame
            DEF SoundCalls, SoundCall, SoundHistory
<1>4. CASE Refusal(call[c], a, s) = "none"
    <2>1. /\ \A d \in Calls \ {c} : call'[d] = call[d]
          /\ call'[c] = [call[c] EXCEPT !.pc = "send", !.addressed = a,
                !.seen = s, !.first = {p}, !.sends = 0, !.unsure = FALSE]
        BY <1>4 DEF PlanFrom, IInv, TypeInv, TypeOK
    <2>2. /\ call'[c].pc = "send" /\ call'[c].req = r /\ call'[c].seen = s
          /\ call'[c].first = {p} /\ call'[c].quoted = call[c].quoted
        BY <2>1 DEF IInv, TypeInv, TypeOK, CallState
    <2>3. /\ BodyRefusal(r, s) = "none" /\ NotifyRefusal(r, s) = "none"
          /\ r.quotes /\ ~r.force => call[c].quoted = a.ver
          /\ ~r.dryRun
          /\ call[c].first \in {{}, {p}}
        BY <1>4 DEF Refusal
    <2>4. /\ Pending(c)'.req = r /\ Pending(c)'.seen = s
          /\ Pending(c)'.match = IfMatch(r, s) /\ Pending(c)'.call = c
        BY <2>2 DEF Pending
    <2>5. SoundRequest(Pending(c))'
        BY <1>2, <2>2, <2>3, <2>4 DEF SoundRequest
    <2>6. SoundCall(c)'
        BY <2>2, <2>5 DEF SoundCall
    <2>7. CASE call[c].first = {p}
        <3>1. Same(c)
            BY <2>2, <2>7 DEF Same
        <3> QED BY <1>1, <2>1, <2>6, <3>1, StepFrame
                DEF SoundCalls, SoundCall, SoundHistory
    <2>8. CASE call[c].first = {}
        <3>1. \A d \in Calls \ {c} : SoundCall(d)'
            BY <1>1, <2>1, CallFrame
        <3>2. SoundLate'
            <4> SUFFICES ASSUME NEW m \in late PROVE SoundRequest(m)'
                BY DEF SoundLate
            <4>1. m \in Request /\ m.call \in Calls \ {c} /\ SoundRequest(m)
                BY <2>8, NothingPlanned
                    DEF IInv, TypeInv, TypeOK, Request, SoundLate
            <4>2. Same(m.call)
                BY <2>1, <4>1 DEF Same
            <4> QED BY <1>1, <4>1, <4>2, RequestFrame DEF IInv
        <3>3. SoundHistory'
            <4> SUFFICES ASSUME NEW l \in landed PROVE SoundLanding(l)'
                BY DEF SoundHistory
            <4>1. l \in Landing /\ l.call \in Calls /\ SoundLanding(l)
                BY DEF IInv, TypeInv, TypeOK, Landing, SoundHistory
            <4>2. CASE l.call = c
                BY <2>2, <2>8, <4>1, <4>2, NothingPlanned DEF SoundLanding
            <4>3. CASE l.call # c
                BY <1>1, <2>1, <4>1, <4>3, LandingFrame DEF Same, IInv
            <4> QED BY <4>2, <4>3
        <3> QED BY <2>6, <3>1, <3>2, <3>3 DEF SoundCalls, SoundCall
    <2> QED BY <2>3, <2>7, <2>8
<1> QED BY <1>3, <1>4

\* Landing: an unforced write finds the event it was planned on.
LEMMA LandsOnPlanned ==
    ASSUME TypeInv, NEW m \in Request, SoundRequest(m), Matches(m),
           ~m.req.force
    PROVE  /\ m.seen = Shown(events[Target(m.req)])
           /\ events[Target(m.req)].ver = m.seen.ver
<1>1. m.req \in Requests /\ m.seen \in EventState
    BY DEF Request
<1>2. m.match = m.seen.ver /\ m.seen.ver # AnyVersion
    BY <1>1 DEF SoundRequest, IfMatch, EventState, AnyVersion
<1>3. events[Target(m.req)].ver = m.seen.ver
    BY <1>2 DEF Matches
<1>4. m.seen.ver = events[Target(m.req)].ver
        => m.seen = Shown(events[Target(m.req)])
    BY Zenon DEF SoundRequest
<1> QED BY <1>3, <1>4

\* Carrying out a sound request adds a sound landing.
LEMMA LandSound ==
    ASSUME IInv, TypeInv', NEW m \in Request, SoundRequest(m), Matches(m),
           Land(m), Same(m.call)
    PROVE  /\ Moved
           /\ \A l \in landed' \ landed : SoundLanding(l)'
<1> DEFINE e == Target(m.req)
           r == m.req
           p == PlanOf(r, Shown(events[e]))
<1>1. r \in Requests /\ m.seen \in EventState /\ m.call \in Calls
      /\ e \in Events /\ events[e] \in EventState
    BY RequestType DEF Request, IInv, TypeInv, TypeOK
<1>2. events' = [events EXCEPT ![e] = Applied(r, m.seen, events[e])]
      /\ landed' = landed \union
            {[call |-> m.call, event |-> e, basis |-> m.seen.ver,
              on |-> events[e].ver, plan |-> p]}
    BY DEF Land
<1>3. Applied(r, m.seen, events[e]).ver = events[e].ver + 1
    BY <1>1, AppliedType
<1>4. Moved
    BY <1>1, <1>2, <1>3 DEF Moved, IInv, TypeInv, TypeOK
<1> SUFFICES ASSUME NEW l \in landed' \ landed PROVE SoundLanding(l)'
    BY <1>4
<1>0. l.call = m.call /\ l.event = e /\ l.on = events[e].ver /\ l.plan = p
    BY <1>2
<1>5. l.event = Target(r) /\ l.on < events'[l.event].ver
    BY <1>0, <1>1, <1>2, <1>3 DEF IInv, TypeInv, TypeOK, EventState
<1>6. call'[m.call].req = r /\ call'[m.call].first = {PlanOf(r, m.seen)}
      /\ call'[m.call].quoted = call[m.call].quoted
    BY Zenon DEF SoundRequest, Same
<1>7. ASSUME ~r.force
      PROVE  /\ {PlanOf(r, m.seen)} = {l.plan}
             /\ ~OnlyPersonal(r) =>
                  /\ r.notify = "" => l.plan.reached = {} /\ r.add \subseteq {Me}
                  /\ r.notify \in {"", "none"} => l.plan.outside = {}
             /\ r.quotes /\ l.event = r.at => l.on = call[m.call].quoted
    <2>1. m.seen = Shown(events[e]) /\ events[e].ver = m.seen.ver
        BY <1>7, LandsOnPlanned DEF IInv
    <2>2. ASSUME ~OnlyPersonal(r)
          PROVE  /\ r.notify = "" => l.plan.reached = {} /\ r.add \subseteq {Me}
                 /\ r.notify \in {"", "none"} => l.plan.outside = {}
        <3>1. NotifyRefusal(r, m.seen) = "none"
            BY Zenon DEF SoundRequest
        <3>2. Reach(r, m.seen) = GuestsOf(m.seen) \union (r.add \ {Me})
            BY <2>2 DEF Reach
        <3>3. l.plan.reached = GuestsOf(m.seen)
              /\ l.plan.outside = Reach(r, m.seen) \intersect Outside
            BY <1>0, <2>1 DEF PlanOf
        <3>4. r.notify = "" => Reach(r, m.seen) = {}
            BY <3>1 DEF NotifyRefusal
        <3>5. r.notify = "none" => Reach(r, m.seen) \intersect Outside = {}
            BY <3>1 DEF NotifyRefusal
        <3> QED BY <3>2, <3>3, <3>4, <3>5
    <2>3. r.quotes /\ e = r.at => m.seen.ver = call[m.call].quoted
        BY <1>7, Zenon DEF SoundRequest
    <2> QED BY <1>0, <2>1, <2>2, <2>3
<1> QED BY <1>0, <1>5, <1>6, <1>7, Zenon DEF SoundLanding

-----------------------------------------------------------------------------
(* The invariant holds initially and every step keeps it.                  *)

\* The invariant holds before any call has begun.
LEMMA SoundInit == Init => IInv
<1> SUFFICES ASSUME Init PROVE IInv
    OBVIOUS
<1>1. \A c \in Calls : call[c].pc = "idle" /\ call[c].first = {}
    BY DEF Init
<1> QED BY <1>1, TypeInit
        DEF Init, IInv, SoundCalls, SoundLate, SoundHistory

\* A call's step that ends it, or sends it back to read.
LEMMA Retreat ==
    ASSUME IInv, TypeInv', Moved, NEW c \in Calls,
           \A d \in Calls \ {c} : call'[d] = call[d], Same(c),
           call'[c].pc \in {"done", "read"},
           \A m \in late' : m \in late \/ m = Pending(c),
           call[c].pc \in {"send", "wait"} \/ late' = late,
           \A l \in landed' \ landed : SoundLanding(l)'
    PROVE  IInv'
<1>1. SoundCall(c)'
    BY DEF SoundCall
<1> QED BY <1>1, StepFrame DEF IInv, SoundCalls, SoundCall, SoundHistory

\* What ending a call changes of it.
LEMMA FinishEffect ==
    ASSUME TypeInv, NEW c \in Calls, NEW o, Finish(c, o)
    PROVE  /\ \A d \in Calls \ {c} : call'[d] = call[d]
           /\ Same(c) /\ call'[c].pc = "done"
<1>1. call'[c] = [call[c] EXCEPT !.pc = "done", !.outcome = o,
                                 !.addressed = Blank, !.seen = Blank]
    BY DEF Finish, TypeInv, TypeOK
<1> QED BY <1>1 DEF Finish, Same, TypeInv, TypeOK, CallState

\* The etag a call quotes is recorded before anything is planned.
LEMMA StartSound ==
    ASSUME IInv, TypeInv', NEW c \in Calls, Start(c)
    PROVE  IInv'
<1>1. /\ \A d \in Calls \ {c} : call'[d] = call[d]
      /\ call'[c] = [call[c] EXCEPT !.pc = "read",
                                    !.quoted = events[call[c].req.at].ver]
    BY DEF Start, IInv, TypeInv, TypeOK
<1>2. call'[c].pc = "read" /\ call'[c].req = call[c].req
      /\ call[c].first = {} /\ call'[c].first = {}
    BY <1>1 DEF Start, IInv, TypeInv, TypeOK, CallState, SoundCalls
<1>3. Moved
    BY DEF Start, Moved
<1>4. SoundCalls'
    <2>1. SoundCall(c)'
        BY <1>2 DEF SoundCall
    <2>2. \A d \in Calls \ {c} : SoundCall(d)'
        BY <1>1, <1>3, CallFrame
    <2> QED BY <2>1, <2>2 DEF SoundCalls, SoundCall
<1>5. SoundLate'
    <2> SUFFICES ASSUME NEW m \in late PROVE SoundRequest(m)'
        BY DEF SoundLate, Start
    <2>1. m \in Request /\ m.call \in Calls \ {c} /\ SoundRequest(m)
        BY <1>2, NothingPlanned DEF IInv, TypeInv, TypeOK, Request, SoundLate
    <2> QED BY <1>1, <1>3, <2>1, RequestFrame DEF Same, IInv
<1>6. SoundHistory'
    <2> SUFFICES ASSUME NEW l \in landed PROVE SoundLanding(l)'
        BY DEF SoundHistory, Start
    <2>1. l \in Landing /\ l.call \in Calls /\ SoundLanding(l)
        BY DEF IInv, TypeInv, TypeOK, Landing, SoundHistory
    <2>2. CASE l.call = c
        BY <1>2, <2>1, <2>2, NothingPlanned DEF SoundLanding, Start
    <2>3. CASE l.call # c
        BY <1>1, <1>3, <2>1, <2>3, LandingFrame DEF Same, IInv
    <2> QED BY <2>2, <2>3
<1> QED BY <1>4, <1>5, <1>6 DEF IInv

\* A read plans a sound request or ends the call.
LEMMA ReadSound ==
    ASSUME IInv, TypeInv', NEW c \in Calls, Read(c)
    PROVE  IInv'
<1> DEFINE r == call[c].req
<1>0. r \in Requests /\ r.at \in Events /\ Target(r) \in Events
      /\ UNCHANGED <<events, late, landed>>
    BY RequestType
        DEF IInv, TypeInv, TypeOK, CallState, Read, ReadAddressed,
            ReadSeries, ReadFails
<1>1. Moved
    BY <1>0 DEF Moved
<1>2. ASSUME NEW o, Finish(c, o)
      PROVE  IInv'
    BY <1>0, <1>1, <1>2, FinishEffect, Retreat DEF IInv
<1>3. CASE ReadAddressed(c)
    <2> DEFINE s == Shown(events[r.at])
    <2>1. s \in EventState
        BY <1>0, ShownType DEF IInv, TypeInv, TypeOK
    <2>2. CASE Finish(c, "conflict") \/ Finish(c, "invalid")
        BY <1>2, <2>2
    <2>3. CASE /\ call' = [call EXCEPT ![c].pc = "aim", ![c].addressed = s]
               /\ Target(r) # r.at
        <3>1. /\ \A d \in Calls \ {c} : call'[d] = call[d]
              /\ call'[c] = [call[c] EXCEPT !.pc = "aim", !.addressed = s]
            BY <2>3 DEF IInv, TypeInv, TypeOK
        <3>2. Same(c) /\ call'[c].pc = "aim" /\ call'[c].req = r
            BY <3>1 DEF Same, IInv, TypeInv, TypeOK, CallState
        <3>3. SoundCall(c)'
            BY <2>3, <3>2 DEF SoundCall
        <3> QED BY <1>0, <1>1, <3>1, <3>2, <3>3, StepFrame
                DEF IInv, SoundCalls, SoundCall, SoundHistory
    <2>4. CASE /\ PlanFrom(c, s, s) /\ Target(r) = r.at
               /\ r.op = "cancel" => s.status = "confirmed"
        <3>1. call[c].pc = "read"
            BY <1>3 DEF ReadAddressed
        <3> QED BY <1>0, <2>1, <2>4, <3>1, PlanFromSound DEF IInv
    <2> QED BY <1>3, <2>2, <2>3, <2>4 DEF ReadAddressed
<1>4. CASE ReadSeries(c)
    <2>1. call[c].pc = "aim" /\ Target(r) # r.at
          /\ call[c].addressed \in EventState
          /\ PlanFrom(c, call[c].addressed, Shown(events[Target(r)]))
        BY <1>4 DEF ReadSeries, IInv, SoundCalls, TypeInv, TypeOK, CallState
    <2> QED BY <1>0, <2>1, PlanFromSound DEF IInv
<1>5. CASE ReadFails(c)
    BY <1>2, <1>5 DEF ReadFails
<1> QED BY <1>3, <1>4, <1>5 DEF Read

\* Sending a request, or giving it back to be sent again.
LEMMA Resend ==
    ASSUME IInv, TypeInv', Moved, NEW c \in Calls,
           call[c].pc \in {"send", "wait"}, call'[c].pc \in {"send", "wait"},
           \A d \in Calls \ {c} : call'[d] = call[d], Same(c),
           call'[c].seen = call[c].seen, UNCHANGED landed,
           \A m \in late' : m \in late \/ m = Pending(c)
    PROVE  IInv'
<1>1. SoundRequest(Pending(c))
    BY DEF IInv, SoundCalls
<1>2. Pending(c) \in Request /\ Pending(c).call = c
    BY PendingType DEF IInv, TypeInv
<1>3. \A m \in Request : m = Pending(c) => SoundRequest(m)'
    BY <1>1, <1>2, RequestFrame DEF IInv
<1>4. /\ Pending(c)'.req = Pending(c).req /\ Pending(c)'.seen = Pending(c).seen
      /\ Pending(c)'.match = Pending(c).match
      /\ Pending(c)'.call = Pending(c).call
    BY DEF Pending, Same
<1>5. SoundRequest(Pending(c))'
    BY <1>2, <1>3, <1>4 DEF SoundRequest
<1>6. SoundCall(c)'
    BY <1>5 DEF SoundCall
<1> QED BY <1>6, StepFrame DEF IInv, SoundCalls, SoundCall, SoundHistory

\* Sending leaves the request as it was planned.
LEMMA SendSound ==
    ASSUME IInv, TypeInv', NEW c \in Calls, Send(c)
    PROVE  IInv'
<1>1. Moved
    BY DEF Moved, Send
<1>2. call'[c] = [call[c] EXCEPT !.pc = "wait", !.sends = call[c].sends + 1]
      /\ \A d \in Calls \ {c} : call'[d] = call[d]
    BY DEF Send, IInv, TypeInv, TypeOK
<1>3. Same(c) /\ call'[c].pc = "wait" /\ call'[c].seen = call[c].seen
    BY <1>2 DEF Same, IInv, TypeInv, TypeOK, CallState
<1> QED BY <1>1, <1>2, <1>3, Resend DEF Send

\* Every answer keeps the invariant: a landing is sound, and a request that
\* is repeated or given up on is the one that was planned.
LEMMA AnswerSound ==
    ASSUME IInv, TypeInv', NEW c \in Calls, Answer(c)
    PROVE  IInv'
<1>1. call[c].pc = "wait"
    BY DEF Answer, Accepted, PreconditionFailed, NotThere, Refused,
           RateLimited, Unanswered
<1>2. SoundRequest(Pending(c)) /\ Pending(c) \in Request /\ Pending(c).call = c
    BY <1>1, PendingType DEF IInv, SoundCalls, TypeInv
<1>3. ASSUME NEW o, Finish(c, o), Moved,
             \A l \in landed' \ landed : SoundLanding(l)',
             \A m \in late' : m \in late \/ m = Pending(c)
      PROVE  IInv'
    BY <1>1, <1>3, FinishEffect, Retreat DEF IInv
<1>4. CASE Accepted(c)
    <2>1. Finish(c, "ok") /\ Land(Pending(c)) /\ Matches(Pending(c))
          /\ UNCHANGED late
        BY <1>4 DEF Accepted
    <2>2. Same(Pending(c).call)
        BY <1>2, <2>1, FinishEffect DEF IInv
    <2>3. \A m \in Request : m = Pending(c) =>
                Moved /\ \A l \in landed' \ landed : SoundLanding(l)'
        BY <1>2, <2>1, <2>2, LandSound
    <2> QED BY <1>2, <1>3, <2>1, <2>3
<1>5. CASE UNCHANGED <<events, landed>>
    <2>1. Moved /\ landed' \ landed = {}
        BY <1>5 DEF Moved
    <2>2. CASE \E o : Finish(c, o) /\ \A m \in late' : m \in late \/ m = Pending(c)
        BY <1>3, <2>1, <2>2
    <2>3. CASE /\ UNCHANGED late
               /\ call' = [call EXCEPT ![c].pc = "read", ![c].second = TRUE,
                                       ![c].addressed = Blank, ![c].seen = Blank]
        <3>1. call'[c] = [call[c] EXCEPT !.pc = "read", !.second = TRUE,
                                         !.addressed = Blank, !.seen = Blank]
              /\ \A d \in Calls \ {c} : call'[d] = call[d]
            BY <2>3 DEF IInv, TypeInv, TypeOK
        <3>2. Same(c) /\ call'[c].pc = "read"
            BY <3>1 DEF Same, IInv, TypeInv, TypeOK, CallState
        <3> QED BY <1>1, <2>1, <2>3, <3>1, <3>2, Retreat
    <2>4. CASE /\ \A m \in late' : m \in late \/ m = Pending(c)
               /\ \/ call' = [call EXCEPT ![c].pc = "send"]
                  \/ call' = [call EXCEPT ![c].pc = "send", ![c].unsure = TRUE]
        <3>1. /\ \A d \in Calls \ {c} : call'[d] = call[d]
              /\ \/ call'[c] = [call[c] EXCEPT !.pc = "send"]
                 \/ call'[c] = [call[c] EXCEPT !.pc = "send", !.unsure = TRUE]
            BY <2>4 DEF IInv, TypeInv, TypeOK
        <3>2. Same(c) /\ call'[c].pc = "send" /\ call'[c].seen = call[c].seen
            BY <3>1 DEF Same, IInv, TypeInv, TypeOK, CallState
        <3> QED BY <1>1, <1>5, <2>1, <2>4, <3>1, <3>2, Resend
    <2>5. CASE Accepted(c)
        BY <1>4, <2>5
    <2> QED BY <2>2, <2>3, <2>4, <2>5
            DEF Answer, PreconditionFailed, NotThere, Refused, RateLimited,
                Unanswered
<1> QED BY <1>4, <1>5
        DEF Answer, PreconditionFailed, NotThere, Refused, RateLimited,
            Unanswered

\* A request carried out late lands as soundly as one in time.
LEMMA LandLateSound ==
    ASSUME IInv, TypeInv', NEW m \in late, LandLate(m)
    PROVE  IInv'
<1>1. m \in Request /\ SoundRequest(m) /\ \A d \in Calls : Same(d)
      /\ m.call \in Calls
    BY DEF IInv, TypeInv, TypeOK, SoundLate, LandLate, Same, Request
<1>2. Moved /\ \A l \in landed' \ landed : SoundLanding(l)'
    <2>1. Matches(m) /\ Land(m)
        BY Zenon DEF LandLate
    <2>2. Same(m.call)
        BY DEF LandLate, Same
    <2> QED BY <1>1, <2>1, <2>2, LandSound, Zenon
<1>3. SoundCalls'
    BY <1>2, CallFrame DEF LandLate, SoundCalls, SoundCall
<1>4. SoundLate'
    <2> SUFFICES ASSUME NEW n \in late' PROVE SoundRequest(n)'
        BY DEF SoundLate
    <2>1. n \in Request /\ SoundRequest(n) /\ n.call \in Calls
        BY DEF LandLate, IInv, TypeInv, TypeOK, SoundLate, Request
    <2> QED BY <1>1, <1>2, <2>1, RequestFrame DEF IInv
<1>5. \A l \in landed : SoundLanding(l)'
    <2> TAKE l \in landed
    <2>1. l \in Landing /\ l.call \in Calls /\ SoundLanding(l)
        BY DEF IInv, TypeInv, TypeOK, Landing, SoundHistory
    <2> QED BY <1>1, <1>2, <2>1, LandingFrame DEF IInv
<1> QED BY <1>2, <1>3, <1>4, <1>5 DEF IInv, SoundHistory

\* A step that changes events only, if at all, by moving them on.
LEMMA OnlyMoved ==
    ASSUME IInv, TypeInv', Moved, UNCHANGED <<call, late, landed>>
    PROVE  IInv'
<1>1. SoundCalls'
    BY CallFrame DEF SoundCalls, SoundCall
<1>2. SoundLate'
    <2> SUFFICES ASSUME NEW m \in late PROVE SoundRequest(m)'
        BY DEF SoundLate
    <2>1. m \in Request /\ SoundRequest(m) /\ Same(m.call)
        BY DEF IInv, TypeInv, TypeOK, SoundLate, Same
    <2> QED BY <2>1, RequestFrame DEF IInv
<1>3. SoundHistory'
    <2> SUFFICES ASSUME NEW l \in landed PROVE SoundLanding(l)'
        BY DEF SoundHistory
    <2>1. l \in Landing /\ SoundLanding(l) /\ Same(l.call)
        BY DEF IInv, TypeInv, TypeOK, SoundHistory, Same
    <2> QED BY <2>1, LandingFrame DEF IInv
<1> QED BY <1>1, <1>2, <1>3 DEF IInv

\* Every step keeps the invariant.
LEMMA SoundNext ==
    ASSUME IInv, [Next]_vars
    PROVE  IInv'
<1>1. TypeInv'
    BY TypeNext DEF IInv
<1>2. CASE UNCHANGED vars
    <2>1. Moved /\ UNCHANGED <<call, late, landed>>
        BY <1>2 DEF vars, Moved
    <2> QED BY <1>1, <2>1, OnlyMoved
<1>3. ASSUME NEW e \in Events, Edit(e)
      PROVE  IInv'
    <2>1. Moved /\ UNCHANGED <<call, late, landed>>
        BY <1>3, EditType DEF Moved, Edit, IInv
    <2> QED BY <1>1, <2>1, OnlyMoved
<1>4. CASE Next
    BY <1>1, <1>3, <1>4, StartSound, ReadSound, SendSound, AnswerSound,
       LandLateSound DEF Next
<1> QED BY <1>2, <1>4

\* Requests under way, requests given up on and landed writes are sound in
\* every reachable state.
THEOREM Soundness == Spec => []IInv
BY SoundInit, SoundNext, PTL DEF Spec

\* Whatever lands makes the change, and reaches the guests, that the
\* caller's notify was first judged on.
THEOREM LandedAsPlanned == Spec => []LandsAsFirstPlanned
<1>1. IInv => LandsAsFirstPlanned
    BY DEF IInv, SoundHistory, SoundLanding, LandsAsFirstPlanned, Forced
<1> QED BY <1>1, Soundness, PTL

\* Whatever lands reaches nobody the caller's notify did not allow.
THEOREM NoSurpriseMail == Spec => []NobodyReachedUnasked
<1>1. IInv => NobodyReachedUnasked
    BY DEF IInv, SoundHistory, SoundLanding, NobodyReachedUnasked, Forced
<1> QED BY <1>1, Soundness, PTL

\* A caller who quotes an etag writes that version or none.
THEOREM QuotedEtagDecides == Spec => []CallerEtagDecides
<1>1. IInv => CallerEtagDecides
    BY DEF IInv, SoundHistory, SoundLanding, CallerEtagDecides
<1> QED BY <1>1, Soundness, PTL

-----------------------------------------------------------------------------
(* What becomes of a request nobody waits for any more.  An event that is  *)
(* gone stays as it is, and a version that has passed does not come back:  *)
(* a late request to the one, or under the other, is spent.                *)

Over(s) == ~s.here \/ s.status = "deleted"
Spent(m) ==
    LET s == events[Target(m.req)] IN
    Over(s) \/ (m.match # AnyVersion /\ m.match < s.ver)

LateOf(c) == {m \in late : m.call = c}
LandedOf(c) == {l \in landed : l.call = c}

\* Nothing the call has sent was or can be carried out.
Harmless(c) == LandedOf(c) = {} /\ \A m \in LateOf(c) : Spent(m)

Denials == {"gone", "conflict", "stale", "stale_plan"}

\* A cancel that may have removed the event itself remembers it: it plans
\* afresh and answers that somebody else did only when nothing it has sent
\* can have done so.
OwnDelete(c) ==
    /\ call[c].pc # "done" => call[c].outcome = "none"
    /\ ByDelete(call[c].req) =>
        /\ LandedOf(c) # {} => events[Target(call[c].req)].status = "deleted"
        /\ call[c].pc \in {"idle", "read", "aim"} => Harmless(c)
        /\ call[c].pc \in {"send", "wait"} =>
            /\ \A m \in LateOf(c) : m.seen.ver <= call[c].seen.ver
            /\ ~call[c].unsure => Harmless(c)
        /\ call[c].outcome \in Denials => Harmless(c)

\* A move has sent nothing that counts until it is over, and then one
\* request at most.
OneMove(c) ==
    call[c].req.op = "move" =>
        /\ call[c].pc # "done" => LateOf(c) = {} /\ LandedOf(c) = {}
        /\ LateOf(c) = {} \/ LandedOf(c) = {}
        /\ \A x, y \in LateOf(c) : x = y
        /\ \A x, y \in LandedOf(c) : x = y

Remembered == \A c \in Calls : OwnDelete(c) /\ OneMove(c)

\* What a step may do to the events: one that is gone stays as it is, and
\* any other may move on to its next version.
MovedOn ==
    \A f \in Events :
        \/ events'[f] = events[f]
        \/ ~Over(events[f]) /\ events'[f].ver = events[f].ver + 1

\* A request that is spent stays spent.
LEMMA SpentStays ==
    ASSUME TypeInv, MovedOn, NEW m \in Request, Spent(m)
    PROVE  Spent(m)'
<1> DEFINE t == Target(m.req)
<1>1. t \in Events /\ m.match \in Nat
    BY RequestType DEF Request
<1>2. events[t].ver \in Nat
    BY <1>1 DEF TypeInv, TypeOK, EventState
<1>3. events'[t] = events[t]
      \/ (~Over(events[t]) /\ events'[t].ver = events[t].ver + 1)
    BY <1>1 DEF MovedOn
<1> QED BY <1>1, <1>2, <1>3 DEF Spent

\* So does a call whose requests are all spent, as long as it sends nothing.
LEMMA HarmlessStays ==
    ASSUME TypeInv, MovedOn, NEW c \in Calls, Harmless(c),
           LateOf(c)' \subseteq LateOf(c), LandedOf(c)' \subseteq LandedOf(c)
    PROVE  Harmless(c)'
<1>1. \A m \in LateOf(c) : m \in Request
    BY DEF LateOf, TypeInv, TypeOK
<1> QED BY <1>1, SpentStays DEF Harmless

\* A call that takes no part in a step remembers what it did.
LEMMA Bystander ==
    ASSUME IInv, MovedOn, NEW c \in Calls, OwnDelete(c), OneMove(c),
           call'[c] = call[c],
           LateOf(c)' \subseteq LateOf(c), LandedOf(c)' = LandedOf(c)
    PROVE  OwnDelete(c)' /\ OneMove(c)'
<1> DEFINE t == Target(call[c].req)
<1>1. t \in Events
    BY RequestType DEF IInv, TypeInv, TypeOK, CallState
<1>2. Harmless(c) => Harmless(c)'
    BY HarmlessStays DEF IInv
<1>3. events[t].status = "deleted" => events'[t].status = "deleted"
    BY <1>1 DEF MovedOn, Over
<1>4. OwnDelete(c)'
    BY <1>2, <1>3 DEF OwnDelete
<1>5. OneMove(c)'
    BY DEF OneMove
<1> QED BY <1>4, <1>5

\* A step of a call that touches neither the events nor its own requests.
LEMMA QuietStep ==
    ASSUME IInv, NEW c \in Calls, OwnDelete(c), OneMove(c),
           call[c].pc # "done", UNCHANGED <<events, late, landed>>,
           call'[c].req = call[c].req,
           call'[c].pc # "done" => call'[c].outcome = "none",
           ByDelete(call[c].req) =>
              /\ call'[c].pc \in {"idle", "read", "aim"} => Harmless(c)
              /\ call'[c].pc \in {"send", "wait"} =>
                    /\ \A m \in LateOf(c) : m.seen.ver <= call'[c].seen.ver
                    /\ ~call'[c].unsure => Harmless(c)
              /\ call'[c].outcome \in Denials => Harmless(c)
    PROVE  OwnDelete(c)' /\ OneMove(c)'
<1>1. LateOf(c)' = LateOf(c) /\ LandedOf(c)' = LandedOf(c)
    BY DEF LateOf, LandedOf
<1>2. Harmless(c)' <=> Harmless(c)
    BY <1>1 DEF Harmless, Spent
<1>3. OwnDelete(c)'
    BY <1>1, <1>2 DEF OwnDelete
<1>4. OneMove(c)'
    BY <1>1 DEF OneMove
<1> QED BY <1>3, <1>4

\* What ending a call leaves of it.
LEMMA FinishOutcome ==
    ASSUME TypeInv, NEW c \in Calls, NEW o, Finish(c, o)
    PROVE  /\ call'[c].pc = "done" /\ call'[c].outcome = o
           /\ call'[c].req = call[c].req
<1>1. call'[c] = [call[c] EXCEPT !.pc = "done", !.outcome = o,
                                 !.addressed = Blank, !.seen = Blank]
    BY DEF Finish, TypeInv, TypeOK
<1> QED BY <1>1 DEF TypeInv, TypeOK, CallState

\* A call reads and plans only while nothing it sent counts.
LEMMA ReadRemembers ==
    ASSUME IInv, NEW c \in Calls, OwnDelete(c), OneMove(c),
           Start(c) \/ Read(c) \/ Send(c)
    PROVE  OwnDelete(c)' /\ OneMove(c)'
<1> DEFINE r == call[c].req
<1>0. /\ call[c] \in CallState /\ call \in [Calls -> CallState]
      /\ UNCHANGED <<events, late, landed>> /\ call[c].pc # "done"
      /\ call[c].outcome = "none"
    BY DEF IInv, TypeInv, TypeOK, Start, Send, Read, ReadAddressed, ReadSeries,
           ReadFails, OwnDelete
<1>1. CASE Start(c)
    <2>1. /\ call'[c].pc = "read" /\ call'[c].req = r
          /\ call'[c].outcome = "none" /\ call[c].pc = "idle"
        BY <1>0, <1>1 DEF Start, CallState
    <2> QED BY <1>0, <2>1, QuietStep DEF OwnDelete, Denials
<1>2. CASE Send(c)
    <2>1. /\ call'[c].pc = "wait" /\ call'[c].req = r /\ call[c].pc = "send"
          /\ call'[c].outcome = "none" /\ call'[c].seen = call[c].seen
          /\ call'[c].unsure = call[c].unsure
        BY <1>0, <1>2 DEF Send, CallState
    <2> QED BY <1>0, <2>1, QuietStep DEF OwnDelete, Denials
<1>3. CASE Read(c)
    <2>1. call[c].pc \in {"read", "aim"} /\ (ByDelete(r) => Harmless(c))
        BY <1>3 DEF Read, ReadAddressed, ReadSeries, ReadFails, OwnDelete
    <2>2. ASSUME NEW o, Finish(c, o)
          PROVE  OwnDelete(c)' /\ OneMove(c)'
        <3>1. /\ call'[c].pc = "done" /\ call'[c].req = r
            BY <2>2, FinishOutcome DEF IInv
        <3> QED BY <1>0, <2>1, <3>1, QuietStep
    <2>3. ASSUME NEW a, PlanFrom(c, a, Shown(events[Target(r)]))
          PROVE  OwnDelete(c)' /\ OneMove(c)'
        <3> DEFINE s == Shown(events[Target(r)])
        <3>1. CASE Refusal(call[c], a, s) # "none"
            BY <2>2, <2>3, <3>1 DEF PlanFrom
        <3>2. CASE Refusal(call[c], a, s) = "none"
            <4>1. /\ call'[c].pc = "send" /\ call'[c].req = r
                  /\ call'[c].outcome = "none" /\ call'[c].seen = s
                BY <1>0, <2>3, <3>2 DEF PlanFrom, CallState
            <4>2. s.ver = events[Target(r)].ver
                BY <1>0, RequestType, ShownType DEF IInv, TypeInv, TypeOK, CallState
            <4>3. \A m \in LateOf(c) : m.seen.ver <= s.ver
                BY <4>2 DEF LateOf, IInv, SoundLate, SoundRequest
            <4> QED BY <1>0, <2>1, <4>1, <4>3, QuietStep DEF Denials
        <3> QED BY <3>1, <3>2
    <2>4. CASE call' = [call EXCEPT ![c].pc = "aim",
                                    ![c].addressed = Shown(events[r.at])]
        <3>1. call'[c].pc = "aim" /\ call'[c].req = r /\ call'[c].outcome = "none"
            BY <1>0, <2>4 DEF CallState
        <3> QED BY <1>0, <2>1, <3>1, QuietStep DEF Denials
    <2> QED BY <1>3, <2>2, <2>3, <2>4
            DEF Read, ReadAddressed, ReadSeries, ReadFails
<1> QED BY <1>1, <1>2, <1>3

\* After a 412 nothing the call has sent can be carried out: all of it was
\* planned on this version or an older one.
LEMMA StaleIsHarmless ==
    ASSUME IInv, NEW c \in Calls, OwnDelete(c), call[c].pc = "wait",
           ByDelete(call[c].req), ~Gone(Pending(c)), ~Matches(Pending(c))
    PROVE  Harmless(c)
<1> DEFINE r == call[c].req
           t == Target(r)
           v == events[t].ver
<1>1. /\ Pending(c).req = r /\ Pending(c).seen = call[c].seen
      /\ Pending(c).match = IfMatch(r, call[c].seen)
    BY DEF Pending
<1>2. SoundRequest(Pending(c))
    BY DEF IInv, SoundCalls
<1>3. /\ t \in Events /\ events[t] \in EventState /\ call[c].seen \in EventState
    BY RequestType DEF IInv, TypeInv, TypeOK, CallState
<1>4. ~r.force /\ call[c].seen.ver # v
    BY <1>1 DEF Matches, IfMatch
<1>5. call[c].seen.ver <= v
    BY <1>1, <1>2 DEF SoundRequest
<1>6. call[c].seen.ver < v
    BY <1>3, <1>4, <1>5 DEF EventState
<1>7. LandedOf(c) = {}
    BY <1>1 DEF OwnDelete, Gone
<1>8. ASSUME NEW m \in LateOf(c) PROVE Spent(m)
    <2>1. m \in Request /\ SoundRequest(m) /\ m.call = c
        BY DEF LateOf, IInv, SoundLate, TypeInv, TypeOK
    <2>2. m.req = r /\ m.match = m.seen.ver /\ m.seen \in EventState
        BY <1>4, <2>1 DEF SoundRequest, IfMatch, Request
    <2>3. m.seen.ver <= call[c].seen.ver
        BY DEF OwnDelete
    <2>4. m.seen.ver < v /\ m.seen.ver # AnyVersion
        BY <1>3, <1>6, <2>2, <2>3 DEF EventState, AnyVersion
    <2> QED BY <2>2, <2>4 DEF Spent
<1> QED BY <1>7, <1>8 DEF Harmless

\* What landing a request does to the events and the history.
LEMMA LandEffect ==
    ASSUME TypeInv, NEW m \in Request, ~Gone(m), Land(m)
    PROVE  /\ MovedOn
           /\ ByDelete(m.req) => events'[Target(m.req)].status = "deleted"
           /\ \A d \in Calls \ {m.call} : LandedOf(d)' = LandedOf(d)
           /\ LandedOf(m.call) = {} =>
                \A x, y \in LandedOf(m.call)' : x = y
<1> DEFINE e == Target(m.req)
           n == [call |-> m.call, event |-> e, basis |-> m.seen.ver,
                 on |-> events[e].ver, plan |-> PlanOf(m.req, Shown(events[e]))]
<1>1. m.req \in Requests /\ m.seen \in EventState /\ e \in Events
      /\ events[e] \in EventState
    BY RequestType DEF Request, TypeInv, TypeOK
<1>2. events' = [events EXCEPT ![e] = Applied(m.req, m.seen, events[e])]
      /\ landed' = landed \union {n}
    BY DEF Land
<1>3. Applied(m.req, m.seen, events[e]).ver = events[e].ver + 1
    BY <1>1, AppliedType
<1>4. MovedOn
    BY <1>1, <1>2, <1>3 DEF MovedOn, TypeInv, TypeOK, Gone, Over
<1>5. ByDelete(m.req) => events'[e].status = "deleted"
    BY <1>1, <1>2 DEF ByDelete, Applied, TypeInv, TypeOK
<1>6. n.call = m.call
    OBVIOUS
<1>7. \A d \in Calls \ {m.call} : LandedOf(d)' = LandedOf(d)
    <2> HIDE DEF n
    <2> QED BY <1>2, <1>6 DEF LandedOf
<1>8. LandedOf(m.call) = {} => \A x, y \in LandedOf(m.call)' : x = y
    <2> HIDE DEF n
    <2> QED BY <1>2, <1>6 DEF LandedOf
<1> QED BY <1>4, <1>5, <1>7, <1>8

\* Every answer, or its absence, is remembered.
LEMMA AnswerRemembers ==
    ASSUME IInv, NEW c \in Calls, OwnDelete(c), OneMove(c), Answer(c)
    PROVE  OwnDelete(c)' /\ OneMove(c)'
<1> DEFINE r == call[c].req
<1>0. /\ call[c].pc = "wait" /\ call[c].outcome = "none"
      /\ call[c] \in CallState /\ call \in [Calls -> CallState]
    BY DEF Answer, Accepted, PreconditionFailed, NotThere, Refused,
           RateLimited, Unanswered, OwnDelete, IInv, TypeInv, TypeOK
<1>1. /\ Pending(c) \in Request /\ Pending(c).call = c /\ Pending(c).req = r
      /\ Pending(c).seen = call[c].seen
    BY PendingType DEF IInv, TypeInv, Pending
<1>2. ASSUME NEW o, Finish(c, o), UNCHANGED <<events, late, landed>>,
             ByDelete(r) /\ o \in Denials => Harmless(c)
      PROVE  OwnDelete(c)' /\ OneMove(c)'
    <2>1. call'[c].pc = "done" /\ call'[c].outcome = o /\ call'[c].req = r
        BY <1>2, FinishOutcome DEF IInv
    <2> QED BY <1>0, <1>2, <2>1, QuietStep
<1>3. CASE Accepted(c)
    <2>1. /\ ~Gone(Pending(c)) /\ Land(Pending(c)) /\ Finish(c, "ok")
          /\ UNCHANGED late
        BY <1>3 DEF Accepted
    <2>2. call'[c].pc = "done" /\ call'[c].outcome = "ok" /\ call'[c].req = r
        BY <2>1, FinishOutcome DEF IInv
    <2>3. /\ ByDelete(r) => events'[Target(r)].status = "deleted"
          /\ LandedOf(c) = {} => \A x, y \in LandedOf(c)' : x = y
        <3>1. \A m \in Request : m = Pending(c) =>
                /\ ByDelete(m.req) => events'[Target(m.req)].status = "deleted"
                /\ LandedOf(m.call) = {} =>
                      \A x, y \in LandedOf(m.call)' : x = y
            BY <2>1, LandEffect DEF IInv
        <3> QED BY <1>1, <3>1
    <2>4. LateOf(c)' = LateOf(c)
        BY <2>1 DEF LateOf
    <2>5. OwnDelete(c)'
        BY <2>2, <2>3 DEF OwnDelete, Denials
    <2>6. OneMove(c)'
        BY <1>0, <2>2, <2>3, <2>4 DEF OneMove
    <2> QED BY <2>5, <2>6
<1>4. CASE PreconditionFailed(c)
    <2>1. ByDelete(r) => Harmless(c)
        BY <1>0, <1>4, StaleIsHarmless DEF PreconditionFailed
    <2>2. CASE MayReplan(c)
        <3>1. call'[c].pc = "read" /\ call'[c].req = r /\ call'[c].outcome = "none"
            BY <1>0, <1>4, <2>2 DEF PreconditionFailed, CallState
        <3> QED BY <1>0, <1>4, <2>1, <3>1, QuietStep DEF PreconditionFailed, Denials
    <2>3. CASE ~MayReplan(c)
        BY <1>2, <1>4, <2>1, <2>3 DEF PreconditionFailed
    <2> QED BY <2>2, <2>3
<1>5. CASE NotThere(c)
    <2>1. CASE call[c].unsure /\ ByDelete(r)
        BY <1>2, <1>5, <2>1 DEF NotThere, Denials
    <2>2. CASE ~(call[c].unsure /\ ByDelete(r))
        <3>1. ByDelete(r) => Harmless(c)
            BY <1>0, <2>2 DEF OwnDelete
        <3> QED BY <1>2, <1>5, <2>2, <3>1 DEF NotThere
    <2> QED BY <2>1, <2>2
<1>6. CASE Refused(c)
    BY <1>2, <1>6 DEF Refused, Denials
<1>7. CASE RateLimited(c)
    <2>1. CASE MayRetry(c)
        <3>1. /\ call'[c].pc = "send" /\ call'[c].req = r
              /\ call'[c].outcome = "none" /\ call'[c].seen = call[c].seen
              /\ call'[c].unsure = call[c].unsure
            BY <1>0, <1>7, <2>1 DEF RateLimited, CallState
        <3> QED BY <1>0, <1>7, <3>1, QuietStep DEF RateLimited, OwnDelete, Denials
    <2>2. CASE ~MayRetry(c)
        BY <1>2, <1>7, <2>2 DEF RateLimited, Denials
    <2> QED BY <2>1, <2>2
<1>8. CASE Unanswered(c)
    <2>1. /\ late' \subseteq late \union {Pending(c)}
          /\ UNCHANGED <<events, landed>>
        BY <1>8 DEF Unanswered
    <2>2. LandedOf(c)' = LandedOf(c) /\ LateOf(c)' \subseteq LateOf(c) \union {Pending(c)}
        BY <2>1 DEF LandedOf, LateOf
    <2>3. /\ call'[c].req = r
          /\ \/ /\ call'[c].pc = "send" /\ call'[c].outcome = "none"
                /\ call'[c].unsure /\ call'[c].seen = call[c].seen
                /\ Idempotent(r)
             \/ call'[c].pc = "done" /\ call'[c].outcome \in {"unavailable", "ambiguous"}
        <3>1. CASE MayRetry(c)
            BY <1>0, <1>8, <3>1 DEF Unanswered, CallState, MayRetry
        <3>2. CASE ~MayRetry(c)
            BY <1>8, <3>2, FinishOutcome DEF Unanswered, IInv
        <3> QED BY <3>1, <3>2
    <2>4. \A m \in LateOf(c)' : ByDelete(r) => m.seen.ver <= call[c].seen.ver
        <3>1. Pending(c).seen.ver \in Nat
            BY <1>1 DEF Request, EventState
        <3> QED BY <1>0, <1>1, <2>2, <3>1 DEF OwnDelete
    <2>5. OwnDelete(c)'
        BY <2>1, <2>2, <2>3, <2>4 DEF OwnDelete, Denials
    <2>6. OneMove(c)'
        <3> SUFFICES ASSUME r.op = "move" PROVE OneMove(c)'
            BY <2>3 DEF OneMove
        <3>1. LateOf(c) = {} /\ LandedOf(c) = {} /\ call'[c].pc = "done"
            BY <1>0, <2>3 DEF OneMove, Idempotent
        <3> QED BY <2>2, <3>1 DEF OneMove
    <2> QED BY <2>5, <2>6
<1> QED BY <1>3, <1>4, <1>5, <1>6, <1>7, <1>8 DEF Answer

\* A request carried out late is one its call has not counted out.
LEMMA LateRemembers ==
    ASSUME IInv, NEW m \in late, LandLate(m),
           OwnDelete(m.call), OneMove(m.call)
    PROVE  OwnDelete(m.call)' /\ OneMove(m.call)'
<1> DEFINE c == m.call
           r == call[c].req
<1>1. m \in Request /\ m.req = r /\ c \in Calls /\ m \in LateOf(c)
    BY DEF IInv, TypeInv, TypeOK, SoundLate, SoundRequest, Request, LateOf
<1>2. /\ ~Gone(m) /\ Matches(m) /\ Land(m) /\ late' = late \ {m}
      /\ call' = call
    BY Zenon DEF LandLate
<1>3. m.match \in Nat /\ events[Target(m.req)].ver \in Nat
    BY <1>1, RequestType DEF Request, IInv, TypeInv, TypeOK, EventState
<1>4. ~Spent(m)
    BY <1>2, <1>3 DEF Spent, Gone, Over, Matches
<1>5. ~Harmless(c)
    BY <1>1, <1>4 DEF Harmless
<1>6. ByDelete(r) => events'[Target(r)].status = "deleted"
    BY <1>1, <1>2, LandEffect DEF IInv
<1>7. LateOf(c)' = LateOf(c) \ {m}
    BY <1>2 DEF LateOf
<1>8. OwnDelete(c)'
    <2>1. \A n \in LateOf(c)' : n \in LateOf(c)
        BY <1>7
    <2> QED BY <1>2, <1>5, <1>6, <2>1 DEF OwnDelete
<1>9. OneMove(c)'
    <2> SUFFICES ASSUME r.op = "move" PROVE OneMove(c)'
        BY <1>2 DEF OneMove
    <2>1. call[c].pc = "done" /\ LandedOf(c) = {} /\ LateOf(c)' = {}
        BY <1>1, <1>7 DEF OneMove
    <2>2. \A x, y \in LandedOf(c)' : x = y
        BY <1>1, <1>2, <2>1, LandEffect DEF IInv
    <2> QED BY <1>2, <2>1, <2>2 DEF OneMove
<1> QED BY <1>8, <1>9

\* Nothing has been sent at the start.
LEMMA RememberedInit == Init => Remembered
<1> SUFFICES ASSUME Init, NEW c \in Calls PROVE OwnDelete(c) /\ OneMove(c)
    BY DEF Remembered
<1>1. call[c].pc = "idle" /\ call[c].outcome = "none"
    BY DEF Init
<1>2. LateOf(c) = {} /\ LandedOf(c) = {}
    BY DEF Init, LateOf, LandedOf
<1> QED BY <1>1, <1>2 DEF OwnDelete, OneMove, Harmless, Denials

\* Every step remembers.
LEMMA RememberedNext ==
    ASSUME IInv, Remembered, [Next]_vars
    PROVE  Remembered'
<1>1. CASE UNCHANGED vars
    <2> SUFFICES ASSUME NEW d \in Calls PROVE OwnDelete(d)' /\ OneMove(d)'
        BY DEF Remembered
    <2>1. /\ LateOf(d)' = LateOf(d) /\ LandedOf(d)' = LandedOf(d) /\ MovedOn
          /\ call'[d] = call[d] /\ OwnDelete(d) /\ OneMove(d)
        BY <1>1 DEF vars, LateOf, LandedOf, MovedOn, Remembered
    <2> QED BY <2>1, Bystander
<1>2. ASSUME NEW c \in Calls, Start(c) \/ Read(c) \/ Send(c) \/ Answer(c)
      PROVE  Remembered'
    <2>1. OwnDelete(c)' /\ OneMove(c)'
        BY <1>2, ReadRemembers, AnswerRemembers DEF Remembered
    <2>2. Pending(c) \in Request /\ Pending(c).call = c
        BY PendingType DEF IInv, TypeInv
    <2>3. /\ MovedOn
          /\ \A d \in Calls \ {c} :
                LateOf(d)' \subseteq LateOf(d) /\ LandedOf(d)' = LandedOf(d)
        <3>1. CASE Accepted(c)
            <4>1. \A m \in Request : m = Pending(c) =>
                    /\ MovedOn
                    /\ \A d \in Calls \ {m.call} : LandedOf(d)' = LandedOf(d)
                BY <3>1, LandEffect DEF Accepted, IInv
            <4> QED BY <2>2, <3>1, <4>1 DEF Accepted, LateOf
        <3>2. CASE UNCHANGED <<events, landed>>
                    /\ late' \subseteq late \union {Pending(c)}
            BY <2>2, <3>2 DEF MovedOn, LateOf, LandedOf
        <3> QED BY <1>2, <3>1, <3>2
                DEF Start, Read, ReadAddressed, ReadSeries, ReadFails, Send,
                    Answer, PreconditionFailed, NotThere, Refused, RateLimited,
                    Unanswered
    <2>4. \A d \in Calls \ {c} : call'[d] = call[d]
        BY <1>2 DEF IInv, TypeInv, TypeOK, Start, Read, ReadAddressed,
            ReadSeries, ReadFails, Send, Answer, Accepted, PreconditionFailed,
            NotThere, Refused, RateLimited, Unanswered, Finish, PlanFrom
    <2>5. \A d \in Calls \ {c} : OwnDelete(d)' /\ OneMove(d)'
        BY <2>3, <2>4, Bystander DEF Remembered
    <2> QED BY <2>1, <2>5 DEF Remembered
<1>3. ASSUME NEW m \in late, LandLate(m)
      PROVE  Remembered'
    <2>1. m \in Request /\ m.call \in Calls
        BY DEF IInv, TypeInv, TypeOK, Request
    <2>2. OwnDelete(m.call)' /\ OneMove(m.call)'
        BY <1>3, <2>1, LateRemembers DEF Remembered
    <2>3. ~Gone(m) /\ Land(m) /\ late' = late \ {m} /\ call' = call
        BY <1>3, Zenon DEF LandLate
    <2>4. MovedOn /\ \A d \in Calls \ {m.call} : LandedOf(d)' = LandedOf(d)
        BY <2>1, <2>3, LandEffect DEF IInv
    <2>5. \A d \in Calls : LateOf(d)' \subseteq LateOf(d)
        BY <2>3 DEF LateOf
    <2>6. \A d \in Calls \ {m.call} : OwnDelete(d)' /\ OneMove(d)'
        BY <2>3, <2>4, <2>5, Bystander DEF Remembered
    <2> QED BY <2>2, <2>6 DEF Remembered
<1>4. ASSUME NEW e \in Events, Edit(e)
      PROVE  Remembered'
    <2>1. MovedOn
        <3>1. /\ events'[e].ver = events[e].ver + 1
              /\ \A f \in Events \ {e} : events'[f] = events[f]
            BY <1>4, EditType DEF IInv
        <3> QED BY <1>4, <3>1 DEF MovedOn, Over, Edit
    <2>2. \A d \in Calls : /\ LateOf(d)' = LateOf(d)
                           /\ LandedOf(d)' = LandedOf(d)
                           /\ call'[d] = call[d]
        BY <1>4 DEF Edit, LateOf, LandedOf
    <2> QED BY <2>1, <2>2, Bystander DEF Remembered
<1> QED BY <1>1, <1>2, <1>3, <1>4 DEF Next

\* What a call has sent is remembered in every reachable state.
THEOREM NothingForgotten == Spec => []Remembered
<1>1. Init => IInv /\ Remembered
    BY SoundInit, RememberedInit
<1>2. IInv /\ Remembered /\ [Next]_vars => IInv' /\ Remembered'
    BY SoundNext, RememberedNext
<1> QED BY <1>1, <1>2, PTL DEF Spec

\* Of all the requests a move makes, at most one was or can be carried out.
THEOREM MovesOnce == Spec => []MoveMayLandOnce
<1>1. Remembered => MoveMayLandOnce
    BY DEF Remembered, OneMove, MoveMayLandOnce, LateOf, LandedOf
<1> QED BY <1>1, NothingForgotten, PTL

\* A cancel that removed the event never denies it.
THEOREM DeleteOwnedUp == Spec => []OwnDeleteNotDenied
<1>1. TypeOK /\ Remembered => OwnDeleteNotDenied
    BY DEF Remembered, OwnDelete, OwnDeleteNotDenied, LandedOf, Harmless,
           Denials, TypeOK, Landing
<1> QED BY <1>1, TypeCorrect, NothingForgotten, PTL

-----------------------------------------------------------------------------
(* What a landing write leaves alone.                                      *)

\* A write planned from the event as it is keeps what another guest said:
\* a list is rewritten only when the read showed all of it.
LEMMA AppliedKeeps ==
    ASSUME NEW r \in Requests, NEW cur \in EventState,
           BodyRefusal(r, Shown(cur)) = "none",
           r.op = "respond" => ~cur.omits,
           NEW g \in Guests \ ({Me} \union r.drop), cur.answers[g] # "absent"
    PROVE  Applied(r, Shown(cur), cur).answers[g] = cur.answers[g]
<1> DEFINE s == Shown(cur)
<1>1. r \in RequestSpace
    BY RequestType
<1>2. s.omits = cur.omits
      /\ s.answers = [h \in Guests |-> IF cur.omits /\ h \in Hidden
                                       THEN "absent" ELSE cur.answers[h]]
    BY DEF Shown, EventState
<1>3. CASE Relists(r, s)
    <2>1. r.add \union r.drop # {}
        BY <1>3 DEF Relists, Invited
    <2>2. ~s.omits
        BY <2>1 DEF BodyRefusal
    <2>3. s.answers[g] = cur.answers[g]
        BY <1>2, <2>2
    <2>4. g \in Stay(r, s) /\ g \notin Invited(r, s)
        BY <2>3 DEF Stay, Invited, On
    <2> QED BY <1>3, <2>3, <2>4 DEF Applied
<1>4. CASE ~Relists(r, s) /\ r.op = "respond"
    BY <1>2, <1>4 DEF Applied
<1>5. CASE ~Relists(r, s) /\ r.op # "respond"
    BY <1>5 DEF Applied
<1> QED BY <1>3, <1>4, <1>5

\* So does landing it.
LEMMA LandKeeps ==
    ASSUME IInv, NEW m \in Request, SoundRequest(m), Matches(m), Land(m),
           NEW l \in landed' \ landed, ~Forced(l),
           call[l.call].req.op = "respond" => ~events[l.event].omits
    PROVE  KeepsOthers(l)
<1> DEFINE e == Target(m.req)
           n == [call |-> m.call, event |-> e, basis |-> m.seen.ver,
                 on |-> events[e].ver, plan |-> PlanOf(m.req, Shown(events[e]))]
<1>1. m.req \in Requests /\ m.call \in Calls /\ e \in Events
      /\ events[e] \in EventState
    BY RequestType DEF Request, IInv, TypeInv, TypeOK
<1>2. events' = [events EXCEPT ![e] = Applied(m.req, m.seen, events[e])]
      /\ landed' = landed \union {n}
    BY DEF Land
<1>3. l.call = m.call /\ l.event = e
    BY <1>2
<1>4. m.req = call[l.call].req /\ BodyRefusal(m.req, m.seen) = "none"
    BY <1>3, Zenon DEF SoundRequest
<1>5. ~m.req.force
    BY <1>4 DEF Forced
<1>6. m.seen = Shown(events[e])
    BY <1>5, LandsOnPlanned DEF IInv
<1>7. events'[e] = Applied(m.req, Shown(events[e]), events[e])
    BY <1>1, <1>2, <1>6 DEF IInv, TypeInv, TypeOK
<1> SUFFICES ASSUME NEW g \in Guests \ ({Me} \union m.req.drop),
                    events[e].answers[g] # "absent"
             PROVE  events'[e].answers[g] = events[e].answers[g]
    BY <1>3, <1>4 DEF KeepsOthers
<1> QED BY <1>1, <1>3, <1>4, <1>6, <1>7, AppliedKeeps

\* No unforced write loses what another guest answered.
THEOREM AnswersKept == Spec => OthersKept
<1> DEFINE A == \A l \in landed' \ landed :
                    ~Forced(l) /\ (call[l.call].req.op = "respond" =>
                                       ~events[l.event].omits) => KeepsOthers(l)
<1>1. IInv /\ [Next]_vars => [A]_vars
    <2> SUFFICES ASSUME IInv, Next PROVE A
        OBVIOUS
    <2>1. ASSUME NEW c \in Calls, Accepted(c)
          PROVE  A
        <3>1. Pending(c) \in Request /\ SoundRequest(Pending(c))
            BY <2>1, PendingType DEF Accepted, IInv, SoundCalls, TypeInv
        <3>2. \A m \in Request : m = Pending(c) /\ SoundRequest(m) => A
            BY <2>1, LandKeeps DEF Accepted
        <3> QED BY <3>1, <3>2
    <2>2. ASSUME NEW m \in late, LandLate(m)
          PROVE  A
        <3>1. m \in Request /\ SoundRequest(m) /\ Matches(m) /\ Land(m)
            BY <2>2 DEF LandLate, IInv, SoundLate, TypeInv, TypeOK
        <3> QED BY <3>1, LandKeeps
    <2>3. CASE UNCHANGED landed
        BY <2>3
    <2> QED BY <2>1, <2>2, <2>3
            DEF Next, Start, Read, ReadAddressed, ReadSeries, ReadFails, Send,
                Answer, PreconditionFailed, NotThere, Refused, RateLimited,
                Unanswered, Edit
<1> QED BY <1>1, Soundness, PTL DEF Spec, OthersKept

-----------------------------------------------------------------------------
(* The tool calls implement AtomicWrite.  The instance has its own copy of *)
(* EventPlan, with the same constants: the copies agree.                   *)

\* The plans of the instance are the plans of the model.
LEMMA SamePlans ==
    /\ Atomic!EventState = EventState
    /\ \A r : Atomic!Target(r) = Target(r)
    /\ \A s : Atomic!Shown(s) = Shown(s)
    /\ \A r, s : Atomic!BodyRefusal(r, s) = BodyRefusal(r, s)
    /\ \A r, s : Atomic!NotifyRefusal(r, s) = NotifyRefusal(r, s)
    /\ \A r, s, cur : Atomic!Applied(r, s, cur) = Applied(r, s, cur)
<1>1. /\ Atomic!EventState = EventState
      /\ \A r : Atomic!Target(r) = Target(r)
      /\ \A s : Atomic!Shown(s) = Shown(s)
    BY DEF Atomic!EventState, EventState, Atomic!Answers, Answers,
           Atomic!Statuses, Statuses, Atomic!Target, Target, Atomic!Shown, Shown
<1>2. \A s : Atomic!On(s) = On(s) /\ Atomic!GuestsOf(s) = GuestsOf(s)
    BY DEF Atomic!On, On, Atomic!GuestsOf, GuestsOf
<1>3. \A r, s : /\ Atomic!Retitles(r, s) = Retitles(r, s)
                /\ Atomic!Stay(r, s) = Stay(r, s)
                /\ Atomic!Invited(r, s) = Invited(r, s)
                /\ Atomic!Relists(r, s) = Relists(r, s)
    BY <1>2 DEF Atomic!Retitles, Retitles, Atomic!Stay, Stay, Atomic!Invited,
                Invited, Atomic!Relists, Relists
<1>4. \A r, s : Atomic!Reach(r, s) = Reach(r, s)
    BY <1>2 DEF Atomic!Reach, Reach, Atomic!OnlyPersonal, OnlyPersonal
<1>5. \A r : Atomic!ByDelete(r) = ByDelete(r)
    BY DEF Atomic!ByDelete, ByDelete, Atomic!IsOccurrence, IsOccurrence
<1>6. \A r, s : Atomic!BodyRefusal(r, s) = BodyRefusal(r, s)
    BY <1>2, <1>3 DEF Atomic!BodyRefusal, BodyRefusal
<1>7. \A r, s : Atomic!NotifyRefusal(r, s) = NotifyRefusal(r, s)
    BY <1>2, <1>4 DEF Atomic!NotifyRefusal, NotifyRefusal
<1>8. \A r, s, cur : Atomic!Applied(r, s, cur) = Applied(r, s, cur)
    BY <1>3, <1>5 DEF Atomic!Applied, Applied
<1> QED BY <1>1, <1>6, <1>7, <1>8

\* What is judged and written depends only on these parts of what was read.
LEMMA SameLook ==
    ASSUME NEW r, NEW cur, NEW s, NEW u,
           s.title = u.title, s.answers = u.answers, s.omits = u.omits
    PROVE  /\ BodyRefusal(r, s) = BodyRefusal(r, u)
           /\ NotifyRefusal(r, s) = NotifyRefusal(r, u)
           /\ Applied(r, s, cur) = Applied(r, u, cur)
<1>1. On(s) = On(u)
    BY DEF On
<1>2. /\ Retitles(r, s) = Retitles(r, u) /\ Relists(r, s) = Relists(r, u)
      /\ Invited(r, s) = Invited(r, u) /\ Stay(r, s) = Stay(r, u)
      /\ Reach(r, s) = Reach(r, u)
    BY <1>1 DEF Retitles, Relists, Invited, Stay, Reach, GuestsOf
<1> QED BY <1>1, <1>2 DEF BodyRefusal, NotifyRefusal, Applied

\* What AtomicWrite records of a landing.
Short(l) == [call |-> l.call, event |-> l.event, on |-> l.on]

\* One landing more is one record more.
LEMMA HistoryGrows ==
    ASSUME NEW L, NEW x
    PROVE  {Short(l) : l \in L \union {x}} = {Short(l) : l \in L} \union {Short(x)}
OBVIOUS

\* A landing is one step of AtomicWrite.
LEMMA LandIsAtomic ==
    ASSUME IInv, NEW m \in Request, SoundRequest(m), ~Gone(m), Matches(m),
           Land(m), \A d \in Calls : call'[d].req = call[d].req
    PROVE  Atomic!Write(m.call) \/ Atomic!Force(m.call)
<1> DEFINE e == Target(m.req)
           r == m.req
           asks == [c \in Calls |-> call[c].req]
           writes == {[call |-> l.call, event |-> l.event, on |-> l.on] : l \in landed}
<1>1. /\ m.req \in Requests /\ m.seen \in EventState /\ m.call \in Calls
      /\ e \in Events /\ events[e] \in EventState
    BY RequestType DEF Request, IInv, TypeInv, TypeOK
<1>2. asks[m.call] = r
    BY <1>1, Zenon DEF SoundRequest
<1>3. /\ BodyRefusal(r, m.seen) = "none" /\ NotifyRefusal(r, m.seen) = "none"
      /\ ~r.dryRun
      /\ r.op = "cancel" /\ e = r.at => m.seen.status = "confirmed"
    BY Zenon DEF SoundRequest
<1>4. events[e].here /\ events[e].status # "deleted"
    BY DEF Gone
<1>5. events' = [events EXCEPT ![e] = Applied(r, m.seen, events[e])]
    BY DEF Land
<1>6. /\ writes' = writes \union
            {[call |-> m.call, event |-> e, on |-> events[e].ver]}
      /\ UNCHANGED asks
    <2> DEFINE x == [call |-> m.call, event |-> e, basis |-> m.seen.ver,
                     on |-> events[e].ver, plan |-> PlanOf(r, Shown(events[e]))]
    <2>1. landed' = landed \union {x}
        BY DEF Land
    <2>2. Short(x) = [call |-> m.call, event |-> e, on |-> events[e].ver]
        BY DEF Short
    <2>3. {Short(l) : l \in landed'} = {Short(l) : l \in landed} \union {Short(x)}
        <3> HIDE DEF x
        <3> QED BY <2>1, HistoryGrows
    <2>4. UNCHANGED asks
        OBVIOUS
    <2> QED BY <2>2, <2>3, <2>4 DEF Short
<1>7. CASE ~r.force
    <2>1. m.seen = Shown(events[e])
        BY <1>7, LandsOnPlanned DEF IInv
    <2>2. Atomic!Target(r) = e /\ Atomic!Shown(events[e]) = m.seen
        BY <2>1, SamePlans
    <2>3. /\ Atomic!BodyRefusal(r, m.seen) = "none"
          /\ Atomic!NotifyRefusal(r, m.seen) = "none"
          /\ Atomic!Applied(r, m.seen, events[e]) = Applied(r, m.seen, events[e])
        BY <1>3, SamePlans
    <2>4. Atomic!Write(m.call)
        BY <1>2, <1>3, <1>4, <1>5, <1>6, <1>7, <2>2, <2>3
            DEF Atomic!Write, Atomic!Wrote
    <2> QED BY <2>4
<1>8. CASE r.force
    <2> DEFINE u == [events[e] EXCEPT !.title = m.seen.title,
                        !.answers = m.seen.answers, !.omits = m.seen.omits]
    <2>1. u.title = m.seen.title /\ u.answers = m.seen.answers
          /\ u.omits = m.seen.omits
        BY <1>1 DEF EventState
    <2>2. /\ BodyRefusal(r, u) = "none" /\ NotifyRefusal(r, u) = "none"
          /\ Applied(r, u, events[e]) = Applied(r, m.seen, events[e])
        <3> HIDE DEF u, e, r
        <3> QED BY <1>3, <2>1, SameLook
    <2>3. m.seen.title \in Titles /\ m.seen.omits \in BOOLEAN
          /\ m.seen.answers \in [Guests -> Atomic!Answers]
        BY <1>1 DEF EventState, Answers, Atomic!Answers
    <2>4. /\ Atomic!Target(r) = e
          /\ Atomic!BodyRefusal(r, u) = "none"
          /\ Atomic!NotifyRefusal(r, u) = "none"
          /\ events' = [events EXCEPT ![e] = Atomic!Applied(r, u, events[e])]
        <3> HIDE DEF u
        <3> QED BY <1>5, <2>2, SamePlans
    <2>5. Atomic!Force(m.call)
        <3>1. asks[m.call] = r /\ Atomic!Target(asks[m.call]) = e
            BY <1>2, <2>4
        <3> DEFINE q == asks[m.call]
                   s == [events[Atomic!Target(q)] EXCEPT
                            !.title = m.seen.title,
                            !.answers = m.seen.answers, !.omits = m.seen.omits]
        <3>2. q = r /\ s = u
            BY <3>1
        <3>3. /\ Atomic!BodyRefusal(q, s) = "none"
              /\ Atomic!NotifyRefusal(q, s) = "none"
              /\ events' = [events EXCEPT ![Atomic!Target(q)] =
                              Atomic!Applied(q, s, events[Atomic!Target(q)])]
            <4> HIDE DEF q, s, u, r, e
            <4> QED BY <2>4, <3>1, <3>2
        <3> QED BY <1>3, <1>4, <1>6, <1>8, <2>3, <3>1, <3>3
                DEF Atomic!Force, Atomic!Wrote
    <2> QED BY <2>5
<1> QED BY <1>7, <1>8

\* The calls begin where AtomicWrite begins.
LEMMA AtomicInit == Init => Atomic!Init
<1> SUFFICES ASSUME Init PROVE Atomic!Init
    OBVIOUS
<1>1. \A c \in Calls : call[c].req \in Requests
    BY DEF Init
<1> QED BY <1>1 DEF Init, Atomic!Init

\* Every step is a step of AtomicWrite, or changes nothing it sees.
LEMMA AtomicNext ==
    ASSUME IInv, [Next]_vars
    PROVE  [Atomic!Next]_Atomic!atomicVars
<1> DEFINE asks == [c \in Calls |-> call[c].req]
<1>1. TypeInv'
    BY TypeNext DEF IInv
<1>2. ASSUME UNCHANGED <<events, landed>>, \A d \in Calls : call'[d].req = call[d].req
      PROVE  UNCHANGED Atomic!atomicVars
    BY <1>2 DEF Atomic!atomicVars
<1>3. ASSUME NEW c \in Calls,
             \A d \in Calls \ {c} : call'[d] = call[d], Same(c)
      PROVE  \A d \in Calls : call'[d].req = call[d].req
    BY <1>3 DEF Same
<1>4. CASE UNCHANGED vars
    BY <1>2, <1>4 DEF vars
<1>5. ASSUME NEW c \in Calls, Start(c) \/ Read(c) \/ Send(c) \/ Answer(c)
      PROVE  \A d \in Calls : call'[d].req = call[d].req
    <2>1. call[c] \in CallState /\ call \in [Calls -> CallState]
        BY DEF IInv, TypeInv, TypeOK
    <2>2. ASSUME NEW o, Finish(c, o) PROVE \A d \in Calls : call'[d].req = call[d].req
        BY <2>2, FinishEffect DEF Same, IInv
    <2>3. ASSUME NEW a, NEW s, PlanFrom(c, a, s)
          PROVE  \A d \in Calls : call'[d].req = call[d].req
        BY <2>1, <2>2, <2>3 DEF PlanFrom, CallState
    <2>4. CASE Start(c) \/ Send(c)
        BY <2>1, <2>4 DEF Start, Send, CallState
    <2>5. CASE Read(c)
        <3>1. CASE call' = [call EXCEPT ![c].pc = "aim",
                        ![c].addressed = Shown(events[call[c].req.at])]
            BY <2>1, <3>1 DEF CallState
        <3> QED BY <2>2, <2>3, <2>5, <3>1
                DEF Read, ReadAddressed, ReadSeries, ReadFails
    <2>6. CASE Answer(c)
        <3>1. CASE \/ call' = [call EXCEPT ![c].pc = "send"]
                   \/ call' = [call EXCEPT ![c].pc = "send", ![c].unsure = TRUE]
                   \/ call' = [call EXCEPT ![c].pc = "read", ![c].second = TRUE,
                              ![c].addressed = Blank, ![c].seen = Blank]
            BY <2>1, <3>1 DEF CallState
        <3> QED BY <2>2, <2>6, <3>1
                DEF Answer, Accepted, PreconditionFailed, NotThere, Refused,
                    RateLimited, Unanswered
    <2> QED BY <1>5, <2>4, <2>5, <2>6
<1>6. ASSUME NEW c \in Calls, Start(c) \/ Read(c) \/ Send(c) \/ Answer(c)
      PROVE  [Atomic!Next]_Atomic!atomicVars
    <2>1. CASE Accepted(c)
        <3>1. Pending(c) \in Request /\ SoundRequest(Pending(c))
              /\ Pending(c).call = c
            BY <2>1, PendingType DEF Accepted, IInv, SoundCalls, TypeInv
        <3>2. \A m \in Request : m = Pending(c)
                => Atomic!Write(m.call) \/ Atomic!Force(m.call)
            BY <1>5, <1>6, <2>1, <3>1, LandIsAtomic DEF Accepted
        <3> QED BY <3>1, <3>2 DEF Atomic!Next
    <2>2. CASE ~Accepted(c)
        <3>1. UNCHANGED <<events, landed>>
            BY <1>6, <2>2 DEF Start, Read, ReadAddressed, ReadSeries,
                ReadFails, Send, Answer, PreconditionFailed, NotThere,
                Refused, RateLimited, Unanswered
        <3> QED BY <1>2, <1>5, <1>6, <3>1
    <2> QED BY <2>1, <2>2
<1>7. ASSUME NEW m \in late, LandLate(m)
      PROVE  Atomic!Next
    <2>1. m \in Request /\ SoundRequest(m) /\ m.call \in Calls
        BY DEF IInv, TypeInv, TypeOK, SoundLate, Request
    <2>2. ~Gone(m) /\ Matches(m) /\ Land(m)
        BY <1>7, Zenon DEF LandLate
    <2>3. \A d \in Calls : call'[d].req = call[d].req
        BY <1>7 DEF LandLate
    <2> QED BY <2>1, <2>2, <2>3, LandIsAtomic DEF Atomic!Next
<1>8. ASSUME NEW e \in Events, Edit(e)
      PROVE  Atomic!Next
    <2>1. /\ events'[e].ver = events[e].ver + 1
          /\ \A f \in Events \ {e} : events'[f] = events[f]
        BY <1>8, EditType DEF IInv
    <2>2. UNCHANGED asks
        BY <1>8 DEF Edit
    <2>3. events' \in [Events -> EventState]
        BY <1>1 DEF TypeInv, TypeOK
    <2>4. Atomic!Others(e)
        BY <1>8, <2>1, <2>2, <2>3, SamePlans DEF Atomic!Others, Edit
    <2> QED BY <2>4 DEF Atomic!Next
<1> QED BY <1>4, <1>6, <1>7, <1>8 DEF Next

\* Every behavior of the tool calls is one of AtomicWrite.
THEOREM Refinement == Spec => ImplementsAtomic
<1>1. IInv /\ [Next]_vars => [Atomic!Next]_Atomic!atomicVars
    BY AtomicNext
<1> QED BY <1>1, AtomicInit, Soundness, PTL DEF Spec, ImplementsAtomic, Atomic!Spec

=============================================================================
