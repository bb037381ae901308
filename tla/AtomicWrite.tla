---------------------------- MODULE AtomicWrite -----------------------------
(***************************************************************************)
(* What the event writes promise, without their requests, retries and      *)
(* second tries: a tool call that does not force behaves as if it read the *)
(* event, was judged on it and wrote it in one step.  It may also do       *)
(* nothing.  Anybody else may change an event at any moment.               *)
(***************************************************************************)
EXTENDS EventPlan

VARIABLES
    store,    \* each event
    asks,     \* what each tool call asks for
    writes    \* history: which call wrote which version of which event

atomicVars == <<store, asks, writes>>

Init ==
    /\ store \in [Events -> Stored]
    /\ asks \in [Calls -> Requests]
    /\ writes = {}

\* A call's write lands on version on of e.
Wrote(c, e) ==
    /\ writes' = writes \union {[call |-> c, event |-> e, on |-> store[e].ver]}
    /\ UNCHANGED asks

\* The event as it is at this moment passes every check and is what the
\* write was built from.
Write(c) ==
    LET r == asks[c]
        e == Target(r)
        s == Shown(store[e])
    IN  /\ ~r.force /\ ~r.dryRun
        /\ store[e].here /\ store[e].status # "deleted"
        /\ r.op = "cancel" /\ e = r.at => s.status = "confirmed"
        /\ BodyRefusal(r, s) = "none" /\ NotifyRefusal(r, s) = "none"
        /\ store' = [store EXCEPT ![e] = Applied(r, s, @)]
        /\ Wrote(c, e)

\* Force is "write whatever it says now": the plan is from an older state s
\* of the event, and it was that state which passed the checks.
Force(c) ==
    LET r == asks[c]
        e == Target(r)
    IN  /\ r.force /\ ~r.dryRun
        /\ store[e].here /\ store[e].status # "deleted"
        /\ \E t \in Titles, a \in [Guests -> Answers], o \in BOOLEAN :
            LET s == [store[e] EXCEPT !.title = t, !.answers = a, !.omits = o]
            IN  /\ BodyRefusal(r, s) = "none" /\ NotifyRefusal(r, s) = "none"
                /\ store' = [store EXCEPT ![e] = Applied(r, s, @)]
        /\ Wrote(c, e)

Others(e) ==
    /\ store' \in [Events -> EventState]
    /\ store'[e].ver = store[e].ver + 1
    /\ \A f \in Events \ {e} : store'[f] = store[f]
    /\ UNCHANGED <<asks, writes>>

Next ==
    \/ \E c \in Calls : Write(c) \/ Force(c)
    \/ \E e \in Events : Others(e)

Spec == Init /\ [][Next]_atomicVars
=============================================================================
