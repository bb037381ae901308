------------------------------ MODULE Changes -------------------------------
(***************************************************************************)
(* list_changes, of internal/service/changes.go: a baseline and its sync   *)
(* token, reads from a sync token, reads since a moment, and the page      *)
(* token that continues each of them.  The server keeps nothing between    *)
(* the calls: what the caller has seen is in the tokens it passes back.    *)
(*                                                                         *)
(* Google counts the changes of a calendar.  A change is a row written,    *)
(* canceled or deleted; a read from a token returns the events that        *)
(* changed after it, page by page, and hands out a sync token with its     *)
(* last page: the count when the read began.  A read since a moment goes   *)
(* by the events' "updated", which a change of reminders does not move.    *)
(***************************************************************************)
EXTENDS Naturals, FiniteSets

CONSTANTS
    Last,              \* bound: events on the calendar
    Budgets,           \* max_events of a call
    BaselineRequests,  \* pages one baseline call walks (25 in the code)
    MaxSeq,            \* bound: changes
    Reminded,          \* bound: the events whose reminders may change
    MaxStrays,         \* bound: calls that do not follow the tool's advice
    MaxFails           \* bound: reads that fail

Events == 1 .. Last
NoSyncToken == 0

\* A read as its page token binds it: from is the sync token, or what came
\* before the moment.  A baseline has neither.
Read == [kind: {"baseline", "sync", "since"}, from: Nat]
Baseline == [kind |-> "baseline", from |-> 0]
Sync(n) == [kind |-> "sync", from |-> n]
Since(n) == [kind |-> "since", from |-> n]

ASSUME ChangesAssumption ==
    /\ Last \in Nat /\ Reminded \subseteq Events /\ MaxSeq \in Nat \ {0}
    /\ MaxStrays \in Nat /\ MaxFails \in Nat
    /\ BaselineRequests \in Nat \ {0}
    /\ Budgets \subseteq Nat \ {0}

VARIABLES
    seq,        \* Google: changes so far
    changed,    \* Google: the last change of each event, 0 before its first
    updated,    \* Google: the last one that moved its "updated"
    forgotten,  \* Google: it cannot say what changed after less than this
    held,       \* the caller's sync token
    page,       \* the caller's page token
    call,       \* the call under way
    known,      \* history: the last change of each event reported
    base,       \* history: changes after this are the caller's to see
    legacy,     \* history: of those up to this, the ones "updated" tells of
    strays, fails

changesVars == <<seq, changed, updated, forgotten, held, page, call, known, base,
                 legacy, strays, fails>>

NoPage == [open |-> FALSE, read |-> Baseline, at |-> 0, asof |-> 0]
NoCall == [pc |-> "idle", read |-> Baseline, began |-> Baseline, budget |-> 1,
           at |-> 0, asof |-> 0, requests |-> 0, got |-> [e \in Events |-> 0],
           complete |-> FALSE]

ChangesInit ==
    /\ seq = 1
    /\ changed \in [Events -> {0, 1}] /\ updated = changed
    /\ forgotten = 0
    /\ held = NoSyncToken
    /\ page = NoPage
    /\ call = NoCall
    /\ known = [e \in Events |-> 0]
    /\ base = 0 /\ legacy = 0
    /\ strays = 0 /\ fails = 0

-----------------------------------------------------------------------------
(* A call: a first page, or the next one of a read that stopped.           *)

Ask(r, b) ==
    call' = [NoCall EXCEPT !.pc = "reading", !.read = r, !.began = r,
                           !.budget = b]

AcceptsAny(r) == page.open   \* mutant: a page token that binds nothing

\* decodeChanges: the token continues only the read that issued it.
Accepts(r) == page.open /\ r = page.read

ResumesFirst(r, b) ==   \* mutant: Google's page token is not passed on
    call' = [NoCall EXCEPT !.pc = "reading", !.read = r, !.began = page.read,
                           !.budget = b, !.asof = page.asof]

Resumes(r, b) ==
    call' = [NoCall EXCEPT !.pc = "reading", !.read = r, !.began = page.read,
                           !.budget = b, !.at = page.at, !.asof = page.asof]

\* What a caller can ask for: never a token it was not given.
Askable ==
    {Baseline} \union {Since(n) : n \in 0 .. seq - 1}
               \union (IF held = NoSyncToken THEN {} ELSE {Sync(held)})

\* Anything the tool accepts, in any order.
Stray(r, b) ==
    /\ call.pc = "idle" /\ strays < MaxStrays
    /\ Ask(r, b) \/ (Accepts(r) /\ Resumes(r, b))
    /\ strays' = strays + 1
    /\ UNCHANGED <<seq, changed, updated, forgotten, held, page, known, base, legacy, fails>>

Answerable(r) == r.kind = "baseline" \/ forgotten <= r.from

\* What the tool's description says to do next: continue with the page
\* token and the same arguments, else pass the sync token, else begin.
Follow(b) ==
    /\ call.pc = "idle"
    /\ \/ page.open /\ Answerable(page.read)
          /\ Accepts(page.read) /\ Resumes(page.read, b)
       \/ /\ ~(page.open /\ Answerable(page.read))
          /\ IF held # NoSyncToken /\ Answerable(Sync(held))
             THEN Ask(Sync(held), b) ELSE Ask(Baseline, b)
    /\ UNCHANGED <<seq, changed, updated, forgotten, held, page, known, base, legacy,
                   strays, fails>>

-----------------------------------------------------------------------------
(* The pages of one call.                                                  *)

\* What a read goes by.
GoesBy(r) == IF r.kind = "since" THEN updated ELSE changed
Between(r, from, to) == {e \in Events : from < e /\ e <= to /\ GoesBy(r)[e] > r.from}
Carried(got) == Cardinality({e \in Events : got[e] > 0})

\* A baseline counts the rows past its budget and does not report them.
Carries(got) == call.read.kind # "baseline" \/ Carried(got) < call.budget

\* A baseline pages to its token, up to a cap; the others stop at the budget.
StopsHere(got, requests) ==
    IF call.read.kind = "baseline" THEN requests >= BaselineRequests
    ELSE Carried(got) >= call.budget

ReadPage ==
    /\ call.pc = "reading" /\ Answerable(call.read)
    /\ \E to \in call.at .. Last, more \in BOOLEAN :
        LET sent == Between(call.read, call.at, to)
            got == [e \in Events |->
                IF e \in sent /\ Carries(call.got) THEN changed[e]
                ELSE call.got[e]]
        IN /\ Cardinality(sent) <= call.budget
           /\ Between(call.read, to, Last) # {} => more
           /\ more => to > call.at
           /\ call' = [call EXCEPT
                !.pc = IF ~more \/ StopsHere(got, call.requests + 1)
                       THEN "answer" ELSE "reading",
                !.at = IF more THEN to ELSE Last,
                !.asof = IF @ = 0 THEN seq ELSE @,
                !.requests = @ + 1,
                !.got = got,
                !.complete = ~more]
    /\ UNCHANGED <<seq, changed, updated, forgotten, held, page, known, base, legacy,
                   strays, fails>>

\* The rows, and a sync token only if the last page was reached.
Answer ==
    /\ call.pc = "answer"
    /\ known' = [e \in Events |->
            IF call.got[e] > 0 THEN call.got[e] ELSE known[e]]
    /\ IF call.complete
       THEN /\ held' = call.asof
            /\ page' = NoPage
            /\ base' = CASE call.began.kind = "baseline" -> call.asof
                         [] call.began.kind = "since" -> call.began.from
                         [] OTHER -> base
            /\ legacy' = IF call.began.kind = "sync" THEN legacy ELSE call.asof
       ELSE /\ page' = [open |-> TRUE, read |-> call.read,
                        at |-> call.at, asof |-> call.asof]
            /\ UNCHANGED <<held, base, legacy>>
    /\ call' = NoCall
    /\ UNCHANGED <<seq, changed, updated, forgotten, strays, fails>>

\* changesError: 410, the token or the moment is too old.
Stale ==
    /\ call.pc = "reading" /\ ~Answerable(call.read)
    /\ call' = NoCall
    /\ UNCHANGED <<seq, changed, updated, forgotten, held, page, known, base, legacy,
                   strays, fails>>

\* Any other failure of a page: what was read before it is not reported.
ReadFails ==
    /\ call.pc = "reading" /\ fails < MaxFails
    /\ call' = NoCall
    /\ fails' = fails + 1
    /\ UNCHANGED <<seq, changed, updated, forgotten, held, page, known, base, legacy, strays>>

-----------------------------------------------------------------------------
(* Google and everybody else.                                              *)

\* A change of an event's reminders alone does not move its "updated".
Change(e) ==
    /\ seq < MaxSeq
    /\ seq' = seq + 1
    /\ changed' = [changed EXCEPT ![e] = seq + 1]
    /\ \/ updated' = [updated EXCEPT ![e] = seq + 1]
       \/ e \in Reminded /\ changed[e] > 0 /\ updated' = updated
    /\ UNCHANGED <<forgotten, held, page, call, known, base, legacy, strays, fails>>

\* Google discards old sync tokens, and keeps no changes from before.
Expire(n) ==
    /\ forgotten < n /\ n <= seq
    /\ forgotten' = n
    /\ UNCHANGED <<seq, changed, updated, held, page, call, known, base, legacy, strays, fails>>

ChangesNext ==
    \/ \E r \in Askable \union {page.read}, b \in Budgets : Stray(r, b)
    \/ \E b \in Budgets : Follow(b)
    \/ ReadPage \/ Answer \/ Stale \/ ReadFails
    \/ \E e \in Events : Change(e)
    \/ \E n \in 1 .. MaxSeq : Expire(n)

ChangesSpec == ChangesInit /\ [][ChangesNext]_changesVars

\* A call runs to its end, and the caller goes on following.
ChangesFairness ==
    /\ WF_changesVars(ReadPage) /\ WF_changesVars(Answer) /\ WF_changesVars(Stale)
    /\ WF_changesVars(\E b \in Budgets : Follow(b))
ChangesFairSpec == ChangesSpec /\ ChangesFairness

-----------------------------------------------------------------------------
(* Properties.                                                             *)

\* Every variable has its type.
ChangesTypeOK ==
    /\ seq \in 1 .. MaxSeq /\ forgotten \in 0 .. MaxSeq
    /\ changed \in [Events -> 0 .. seq] /\ updated \in [Events -> 0 .. seq]
    /\ known \in [Events -> 0 .. seq]
    /\ held \in 0 .. seq /\ base \in 0 .. seq /\ legacy \in 0 .. seq
    /\ page \in [open: BOOLEAN, read: Read, at: 0 .. Last, asof: 0 .. seq]
    /\ call \in [pc: {"idle", "reading", "answer"}, read: Read, began: Read,
                 budget: Nat \ {0}, at: 0 .. Last, asof: 0 .. seq,
                 requests: Nat, got: [Events -> 0 .. seq], complete: BOOLEAN]
    /\ strays \in 0 .. MaxStrays /\ fails \in 0 .. MaxFails

\* The read since a moment that began the caller's reads could not tell of
\* the event: no change of it since then moved its "updated".
Untold(e) == updated[e] <= base /\ changed[e] <= legacy

\* A sync token covers only what was reported: once the caller holds one,
\* every change since its baseline (or since the moment it asked from) that
\* the token counts as seen was in some result, whatever mixture of calls,
\* budgets, failures and concurrent changes led to it.  It is what the
\* withheld token, the bound page token and the budget of an incremental
\* read are for (ListChanges).  Left out is what list_changes warns of: an
\* event of which only the reminders changed, between the moment of a read
\* since it and the token that read handed out.
TokenCoversReported ==
    held # NoSyncToken =>
        \A e \in Events : base < changed[e] /\ changed[e] <= held
                          => known[e] = changed[e] \/ Untold(e)

\* A caller that does what the tool's description says catches up, again
\* and again: every change was reported to it, or came before the baseline it
\* had to begin with, the first or the one after its token expired, or was
\* lost to a read since a moment it began with against the advice.
CatchesUp ==
    []<>(/\ held # NoSyncToken
         /\ \A e \in Events :
                changed[e] <= base \/ known[e] = changed[e] \/ Untold(e))
=============================================================================
