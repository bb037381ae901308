----------------------------- MODULE RecurSplit -----------------------------
(***************************************************************************)
(* Where a recurring series is cut in two: Split and SplitDates of         *)
(* internal/recur/scope.go, over the dates a rule generates                *)
(* (internal/recur/expand.go).  Dates are numbered days; a rule repeats    *)
(* every so many of them, with a COUNT, an UNTIL or no end (0).  The parts *)
(* ParseRule keeps as Unknown (BYSETPOS and the like) are the dates on     *)
(* which they overrule the rest: Google obeys them, expand.go does not.    *)
(***************************************************************************)
EXTENDS Naturals, FiniteSets

CONSTANTS
    Days,             \* bound: the last day anything is looked at
    MaxOccurrences    \* the longest walk expand.go makes

ASSUME DaysAssumption == Days \in Nat \ {0} /\ MaxOccurrences \in Nat \ {0}

Dates == 1 .. Days

Rules ==
    {r \in [every: 1 .. Days, count: 0 .. Days, until: 0 .. Days,
            unknown: SUBSET Dates] :
        r.count = 0 \/ r.until = 0}

\* A series: what its rule starts from, and the dates taken off it (EXDATE)
\* and added to it (RDATE).  ver is its etag.
Series ==
    [ver: Nat, start: Dates, rule: Rules, excluded: SUBSET Dates,
     added: SUBSET Dates]

\* The dates this server expands a rule to.
Expanded(start, r) ==
    {d \in Dates :
        /\ d >= start /\ (d - start) % r.every = 0
        /\ r.count > 0 => (d - start) \div r.every < r.count
        /\ r.until > 0 => d <= r.until}

\* The dates Google generates from it, by all its parts, and the ones the
\* series has.
Chosen(start, r) ==
    {d \in Dates : d >= start /\ ((d - start) % r.every = 0 <=> d \notin r.unknown)}
Generated(start, r) ==
    {d \in Chosen(start, r) :
        /\ r.count > 0 => Cardinality({x \in Chosen(start, r) : x < d}) < r.count
        /\ r.until > 0 => d <= r.until}

Occurrences(s) == (Generated(s.start, s.rule) \union s.added) \ s.excluded

\* splitAt: how many dates before the target this server expands the rule
\* alone to.
HeadVisible(s, d) ==     \* mutant: the occurrences a caller sees
    Cardinality({x \in Occurrences(s) : x < d})
Head(s, d) == Cardinality({x \in Expanded(s.start, s.rule) : x < d})

Unsplittable(s, d) ==
    \/ d <= s.start
    \/ Head(s, d) = 0 \/ Head(s, d) > MaxOccurrences
    \/ s.rule.count > 0 /\ s.rule.count <= Head(s, d)

\* The rule the original keeps, and the one the new series carries.
BeforeRule(s, d) == [s.rule EXCEPT !.count = Head(s, d), !.until = 0]

AfterRuleWhole(s, d) == s.rule   \* mutant: the COUNT is not divided
AfterRule(s, d) ==
    IF s.rule.count > 0
    THEN [s.rule EXCEPT !.count = @ - Head(s, d), !.until = 0]
    ELSE s.rule

\* The truncate sends the rule's line alone, and so does the new series.
Truncated(s, d) ==
    [s EXCEPT !.rule = BeforeRule(s, d), !.excluded = {}, !.added = {}]
Rest(s, d) ==
    [ver |-> 1, start |-> d, rule |-> AfterRule(s, d), excluded |-> {},
     added |-> {}]
=============================================================================
