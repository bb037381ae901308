------------------------------ MODULE FreeTime ------------------------------
(***************************************************************************)
(* The free time of a window: Merge and FreeGaps of                        *)
(* internal/model/model.go, and the working hours of                       *)
(* internal/when/hours.go.  An interval is [from, to), in instants.        *)
(***************************************************************************)
EXTENDS WallClock, FiniteSets, Sequences, SequencesExt

Interval == [from : Int, to : Int]

\* Sorted by start, as Merge and Intersect do first.
Before(a, b) == a.from < b.from \/ (a.from = b.from /\ a.to < b.to)
ByStart(s) ==
    [i \in 1 .. Cardinality(s) |->
        CHOOSE x \in s : Cardinality({y \in s : Before(y, x)}) = i - 1]

\* Merge: one ordered set of busy time; what touches is one interval.
Join(out, b) ==
    IF out # <<>> /\ b.from <= Last(out).to
    THEN IF b.to > Last(out).to
         THEN Append(Front(out), [Last(out) EXCEPT !.to = b.to])
         ELSE out
    ELSE Append(out, b)
Merge(busy) ==
    LET s == ByStart(busy)
        merged[n \in 0 .. Len(s)] == IF n = 0 THEN <<>> ELSE Join(merged[n - 1], s[n])
    IN  merged[Len(s)]

\* FreeGaps, its first step: the window less the busy time.
Between(out, from, to) == IF to > from THEN out \union {[from |-> from, to |-> to]} ELSE out
CutAt(w, acc, b) ==
    IF b.to <= w.from \/ b.from >= w.to
    THEN acc
    ELSE [out |-> Between(acc.out, acc.cursor, b.from),
          cursor |-> IF b.to > acc.cursor THEN b.to ELSE acc.cursor]
Cut(w, busy) ==
    LET s == Merge(busy)
        cut[n \in 0 .. Len(s)] ==
            IF n = 0 THEN [out |-> {}, cursor |-> w.from] ELSE CutAt(w, cut[n - 1], s[n])
        last == cut[Len(s)]
    IN  Between(last.out, last.cursor, w.to)

-----------------------------------------------------------------------------
(* Working hours.                                                          *)

NoHours == [from |-> 0, to |-> 0, days |-> {}]

\* ParseHours: the mask a caller's three strings ask for; -1 is a string
\* that was not given, and a day outside Weekdays a name that is none.
Weekdays == 0 .. 6
HoursRefused(from, to, days) ==
    \/ days \ Weekdays # {}
    \/ ~(from = -1 /\ to = -1) /\ (from = -1 \/ to = -1 \/ to <= from)
ParseHours(from, to, days) ==
    CASE from = -1 /\ to = -1 /\ days = {} -> NoHours
      [] from = -1 /\ to = -1 /\ days # {} -> [from |-> 0, to |-> Day, days |-> days]
      [] OTHER -> [from |-> from, to |-> to, days |-> days]

Keeps(h, d) == h.days = {} \/ d % 7 \in h.days

\* Windows: the mask as intervals inside the window, one per local day.
MaskEdges(z, h, d) ==
    [from |-> IF h.from = 0 THEN StartIn(z, d) ELSE Wall(z, d * Day + h.from),
     to |-> IF h.to = Day THEN StartIn(z, d + 1) ELSE Wall(z, d * Day + h.to)]
Clip(w, i) ==
    [from |-> IF i.from < w.from THEN w.from ELSE i.from,
     to |-> IF i.to > w.to THEN w.to ELSE i.to]
Windows(z, h, w) ==
    {i \in {Clip(w, MaskEdges(z, h, d)) :
                d \in {x \in DateIn(z, w.from) .. DateIn(z, w.to) : Keeps(h, x)}} :
        i.to > i.from}

\* Intersect: two ordered sets swept together, whichever ends first moving on.
Both(l, r) == Clip(l, r)
Advance(l, r, at) ==
    IF at.i > Len(l) \/ at.j > Len(r)
    THEN at
    ELSE LET first == l[at.i].to < r[at.j].to
         IN  [i |-> IF first THEN at.i + 1 ELSE at.i,
              j |-> IF first THEN at.j ELSE at.j + 1,
              out |-> at.out \union {x \in {Both(l[at.i], r[at.j])} : x.to > x.from}]
Intersect(a, b) ==
    LET l == ByStart(a)
        r == ByStart(b)
        swept[n \in 0 .. Len(l) + Len(r)] ==
            IF n = 0 THEN [i |-> 1, j |-> 1, out |-> {}] ELSE Advance(l, r, swept[n - 1])
    IN  swept[Len(l) + Len(r)].out

\* FreeGaps: cut the busy time out, apply the mask, drop what is too short.
LongEnough(gaps, least) == {g \in gaps : g.to - g.from >= least}
FreeGapsShortFirst(z, w, busy, least, h) ==   \* mutant: filtered before the mask
    IF h = NoHours
    THEN LongEnough(Cut(w, busy), least)
    ELSE Intersect(LongEnough(Cut(w, busy), least), Windows(z, h, w))
FreeGaps(z, w, busy, least, h) ==
    LongEnough(IF h = NoHours THEN Cut(w, busy) ELSE Intersect(Cut(w, busy), Windows(z, h, w)),
               least)
=============================================================================
