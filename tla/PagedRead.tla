----------------------------- MODULE PagedRead ------------------------------
(***************************************************************************)
(* list_events over several calendars and list_instances over one series,  *)
(* of internal/service/service.go: one walk, from a first read along its   *)
(* next_page_token to the end.  A call reads its calendars concurrently, a *)
(* goroutine each, every one draining Google's pages up to its share of    *)
(* the event budget; the cursor it returns holds one Google token per      *)
(* calendar that has more.  The server keeps nothing between the calls.    *)
(*                                                                         *)
(* Google's rows of one calendar stand at positions 1 .. LastRow, in the   *)
(* order it returns them; its page token says how far a read has come.     *)
(***************************************************************************)
EXTENDS Naturals, FiniteSets

CONSTANTS
    Cals,       \* calendars, or the calendar the series is on
    LastRow,    \* bound: positions on a calendar
    Queries,    \* what the walks may ask
    Budgets,    \* max_events of a call, below the 250 drain starts from
    Stored,     \* what a calendar may hold at first
    MaxEdits,   \* bound: changes made while the caller reads
    MaxFails    \* bound: reads that fail

Rows == 1 .. LastRow
Statuses == {"none", "live", "canceled"}
Ops == {"events", "instances"}
QuerySpace == [op: Ops, canceled: BOOLEAN, expand: BOOLEAN]

ASSUME PagedReadAssumption ==
    /\ LastRow \in Nat /\ MaxEdits \in Nat /\ MaxFails \in Nat
    /\ IsFiniteSet(Cals)
    /\ Queries \subseteq QuerySpace
    /\ Budgets \subseteq Nat \ {0}
    /\ Stored \subseteq [Rows -> Statuses]

VARIABLES
    stock,      \* Google: the row at each position
    origin,     \* the walk: what its first read asked for
    cursor,     \* next_page_token, as the caller holds it
    call,       \* the read under way
    reader,     \* its goroutine for each calendar
    seen,       \* history: the rows the caller was handed
    twice,      \* history: one of them again
    stood,      \* history: rows that were there all along
    narrowed,   \* history: a continuation left a waiting calendar out
    edits, fails

vars == <<stock, origin, cursor, call, reader,
          seen, twice, stood, narrowed, edits, fails>>

-----------------------------------------------------------------------------
(* What Google sends, and what drain keeps of it.                          *)

Wanted(q, s) == s = "live" \/ (q.canceled /\ s = "canceled")

\* Without singleEvents, canceled occurrences come whether asked or not.
Sent(q, s) ==
    \/ Wanted(q, s)
    \/ q.op = "events" /\ ~q.expand /\ s = "canceled"

WantedOn(q, rows) == {r \in Rows : Wanted(q, rows[r])}
SentBetween(q, rows, from, to) ==
    {r \in Rows : from < r /\ r <= to /\ Sent(q, rows[r])}

\* The rows that fit into the budget, in Google's order.
First(rows, n) == {r \in rows : Cardinality({x \in rows : x <= r}) <= n}

Idle == [pc |-> "idle", at |-> 0, drained |-> 0, kept |-> {}, more |-> FALSE]
NoCall == [pc |-> "idle", cals |-> {}, budget |-> 1,
           query |-> [op |-> "events", canceled |-> FALSE, expand |-> FALSE]]

Init ==
    /\ stock \in [Cals -> Stored]
    /\ origin \in [query: Queries, cals: (SUBSET Cals) \ {{}}]
    /\ origin.query.op = "instances" => Cardinality(origin.cals) = 1
    /\ cursor = [first |-> TRUE, query |-> origin.query,
                 cals |-> {}, at |-> [c \in Cals |-> 0]]
    /\ call = NoCall
    /\ reader = [c \in Cals |-> Idle]
    /\ seen = [c \in Cals |-> {}]
    /\ twice = FALSE
    /\ stood = [c \in Cals |-> WantedOn(origin.query, stock[c])]
    /\ narrowed = FALSE
    /\ edits = 0 /\ fails = 0

-----------------------------------------------------------------------------
(* A call: the first, or one with the page_token of the last.              *)

AcceptsAny(q, cs) ==   \* mutant: a cursor that does not bind its query
    \/ cursor.first /\ q = origin.query /\ cs = origin.cals
    \/ ~cursor.first /\ cs \intersect cursor.cals # {}

\* instancesCursor.resume: a token of list_instances binds its series.
SameSeries(q, cs) == q.op = "instances" => cs = origin.cals

\* decodeCursor and resume refuse another query, and a read of calendars
\* none of which has a page waiting.
Accepts(q, cs) ==
    \/ cursor.first /\ q = origin.query /\ cs = origin.cals
    \/ /\ ~cursor.first
       /\ q = cursor.query
       /\ cs \intersect cursor.cals # {}
       /\ SameSeries(q, cs)

StillAll(cs) == cs   \* mutant: finished calendars are read again

Still(cs) == IF cursor.first THEN cs ELSE cs \intersect cursor.cals

From(c) == IF cursor.first THEN 0 ELSE cursor.at[c]

Ask(q, cs, b) ==
    /\ call.pc = "idle"
    /\ Accepts(q, cs)
    /\ call' = [pc |-> "reading", cals |-> Still(cs), budget |-> b, query |-> q]
    /\ reader' = [c \in Cals |-> IF c \in Still(cs)
            THEN [Idle EXCEPT !.pc = "reading", !.at = From(c)] ELSE Idle]
    /\ narrowed' =
            (narrowed \/ (~cursor.first /\ ~(cursor.cals \subseteq cs)))
    /\ UNCHANGED <<stock, origin, cursor, seen, twice, stood, edits, fails>>

\* The budget is divided among the calendars still to be read.
Share ==
    LET part == call.budget \div Cardinality(call.cals)
    IN IF part < 1 THEN 1 ELSE part

StopsByKept(more, drained, kept) ==   \* mutant: dropped rows cost nothing
    ~more \/ Cardinality(kept) >= Share

\* drain stops when the pages run out or it has drained its budget.
Stops(more, drained, kept) ==
    ~more \/ drained >= Share \/ Cardinality(kept) >= Share

\* One page, of at most the budget.  Google may send fewer rows than it
\* could, and a token with nothing behind it.
ReadPage(c) ==
    /\ call.pc = "reading" /\ reader[c].pc = "reading"
    /\ \E to \in reader[c].at .. LastRow, more \in BOOLEAN :
        LET sent == SentBetween(call.query, stock[c], reader[c].at, to)
            kept == reader[c].kept \union
                        {r \in sent : Wanted(call.query, stock[c][r])}
            drained == reader[c].drained + Cardinality(sent)
        IN /\ Cardinality(sent) <= Share
           /\ SentBetween(call.query, stock[c], to, LastRow) # {} => more
           /\ more => to > reader[c].at
           /\ reader' = [reader EXCEPT ![c] =
                [pc |-> IF Stops(more, drained, kept) THEN "done" ELSE "reading",
                 at |-> IF more THEN to ELSE LastRow,
                 drained |-> drained, kept |-> kept, more |-> more]]
    /\ UNCHANGED <<stock, origin, cursor, call, seen, twice, stood, narrowed,
                   edits, fails>>

\* One calendar's error is the call's: nothing is returned.
ReadFails(c) ==
    /\ call.pc = "reading" /\ reader[c].pc = "reading" /\ fails < MaxFails
    /\ call' = NoCall
    /\ reader' = [d \in Cals |-> Idle]
    /\ fails' = fails + 1
    /\ UNCHANGED <<stock, origin, cursor, seen, twice, stood, narrowed, edits>>

HandedCut(c) == First(reader[c].kept, Share)   \* mutant: cut to the budget

\* list_instances cuts what it drained to the budget; list_events does not.
Handed(c) ==
    IF call.query.op = "instances" THEN First(reader[c].kept, call.budget)
    ELSE reader[c].kept

Return ==
    /\ call.pc = "reading"
    /\ \A c \in call.cals : reader[c].pc = "done"
    /\ seen' = [c \in Cals |-> IF c \in call.cals
                    THEN seen[c] \union Handed(c) ELSE seen[c]]
    /\ twice' = (twice \/
                 \E c \in call.cals : seen[c] \intersect Handed(c) # {})
    /\ LET more == {c \in call.cals : reader[c].more} IN
       cursor' = [first |-> FALSE, query |-> call.query, cals |-> more,
                  at |-> [c \in Cals |-> IF c \in more THEN reader[c].at ELSE 0]]
    /\ call' = NoCall
    /\ reader' = [c \in Cals |-> Idle]
    /\ UNCHANGED <<stock, origin, stood, narrowed, edits, fails>>

\* Somebody adds, cancels, restores or removes an event of a calendar.
Edit(c, r, s) ==
    /\ edits < MaxEdits /\ s # stock[c][r]
    /\ stock' = [stock EXCEPT ![c][r] = s]
    /\ stood' = [stood EXCEPT ![c] =
                    IF Wanted(origin.query, s) THEN @ ELSE @ \ {r}]
    /\ edits' = edits + 1
    /\ UNCHANGED <<origin, cursor, call, reader, seen, twice, narrowed, fails>>

Next ==
    \/ \E q \in Queries, cs \in SUBSET Cals, b \in Budgets : Ask(q, cs, b)
    \/ \E c \in Cals : ReadPage(c) \/ ReadFails(c)
    \/ Return
    \/ \E c \in Cals, r \in Rows, s \in Statuses : Edit(c, r, s)

Spec == Init /\ [][Next]_vars

\* A call runs to its end, and the caller goes on with the same arguments.
Fairness ==
    /\ \A c \in Cals : WF_vars(ReadPage(c))
    /\ WF_vars(Return)
    /\ WF_vars(\E b \in Budgets : Ask(origin.query, origin.cals, b))
FairSpec == Spec /\ Fairness

-----------------------------------------------------------------------------
(* Properties.                                                             *)

Readers == [pc: {"idle", "reading", "done"}, at: 0 .. LastRow, drained: Nat,
            kept: SUBSET Rows, more: BOOLEAN]

\* Every variable has its type, and a goroutine at work is one the call
\* under way started.
TypeOK ==
    /\ stock \in [Cals -> [Rows -> Statuses]]
    /\ origin \in [query: QuerySpace, cals: SUBSET Cals]
    /\ cursor \in [first: BOOLEAN, query: QuerySpace, cals: SUBSET Cals,
                   at: [Cals -> 0 .. LastRow]]
    /\ call \in [pc: {"idle", "reading"}, cals: SUBSET Cals,
                 budget: Nat \ {0}, query: QuerySpace]
    /\ reader \in [Cals -> Readers]
    /\ seen \in [Cals -> SUBSET Rows] /\ stood \in [Cals -> SUBSET Rows]
    /\ twice \in BOOLEAN /\ narrowed \in BOOLEAN
    /\ edits \in 0 .. MaxEdits /\ fails \in 0 .. MaxFails
    /\ \A c \in Cals : reader[c].pc # "idle" <=> c \in call.cals

Ended == ~cursor.first /\ cursor.cals = {}

\* A caller who follows next_page_token of list_events to its end, asking
\* for the same calendars each time, has been handed every row that stood
\* there throughout: no budget, page boundary, failed call or calendar that
\* finishes early loses one (ListEvents and drain).
WalkComplete ==
    Ended /\ ~narrowed /\ origin.query.op = "events" =>
        \A c \in origin.cals : stood[c] \subseteq seen[c]

\* No walk hands the same row over twice: a calendar that finished is not
\* read again, and a call that failed is repeated from the same place
\* (the narrowing to the cursor's calendars in ListEvents).
NoRowTwice == ~twice

\* A call drains less than twice a calendar's share of the budget, however
\* many of the rows it drains are canceled ones it drops (the count in
\* drain, which is why it is not a count of what was kept).
DrainBounded ==
    \A c \in call.cals : reader[c].drained < 2 * Share

\* Following the token ends (the cursor names only calendars with more).
WalkEnds == <>Ended
=============================================================================
