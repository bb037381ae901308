------------------------- MODULE SplitSeriesProofs -------------------------
(***************************************************************************)
(* Proofs about SplitSeries, for any number of days and calls, any series, *)
(* requests and bounds.                                                    *)
(***************************************************************************)
EXTENDS SplitSeries, FiniteSetTheorems, TLAPS

-----------------------------------------------------------------------------
(* Arithmetic.                                                             *)

\* A number is its quotient and its remainder.
LEMMA Division ==
    ASSUME NEW a \in Nat, NEW e \in Nat \ {0}
    PROVE  a \div e \in Nat /\ a % e \in 0 .. e - 1
           /\ a = e * (a \div e) + (a % e)
OBVIOUS

\* A multiple has no remainder, and its quotient is the factor.
LEMMA Multiple ==
    ASSUME NEW i \in Nat, NEW e \in Nat \ {0}
    PROVE  (e * i) % e = 0 /\ (e * i) \div e = i /\ e * i \in Nat
OBVIOUS

\* Multiplication keeps the order, and distributes.
LEMMA Ordered ==
    ASSUME NEW a \in Int, NEW b \in Int, NEW e \in Nat \ {0}
    PROVE  (a <= b) <=> (e * a <= e * b)
OBVIOUS
LEMMA Distributes ==
    ASSUME NEW a \in Int, NEW b \in Int, NEW e \in Int
    PROVE  e * (a + b) = e * a + e * b /\ e * (a - b) = e * a - e * b
           /\ e * (a - 1) = e * a - e /\ e * a \in Int
OBVIOUS

-----------------------------------------------------------------------------
(* Dates.                                                                  *)

\* The parts of a rule and of a series.
LEMMA RuleParts ==
    ASSUME NEW r \in Rules
    PROVE  /\ r.every \in Nat \ {0} /\ r.every <= Days
           /\ r.count \in 0 .. Days /\ r.until \in 0 .. Days
           /\ r.count = 0 \/ r.until = 0
           /\ r.unknown \subseteq Dates
BY DaysAssumption DEF Rules
LEMMA SeriesParts ==
    ASSUME NEW s \in Series
    PROVE  s.ver \in Nat /\ s.start \in Dates /\ s.rule \in Rules
           /\ s.excluded \subseteq Dates /\ s.added \subseteq Dates
BY DEF Series
LEMMA DatesAreNumbers == Dates \subseteq Nat \ {0} /\ Days \in Nat \ {0}
BY DaysAssumption DEF Dates
LEMMA SeriesNumbers ==
    ASSUME NEW s \in Series
    PROVE  /\ s.start \in Dates /\ s.start \in Nat /\ s.ver \in Nat
           /\ s.rule \in Rules /\ s.rule.every \in Nat \ {0}
           /\ s.rule.count \in Nat /\ s.rule.until \in Nat
<1>1. s.rule \in Rules /\ s.start \in Dates /\ s.ver \in Nat
  BY SeriesParts
<1>2. /\ s.rule.every \in Nat \ {0}
      /\ s.rule.count \in 0 .. Days /\ s.rule.until \in 0 .. Days
  BY <1>1, RuleParts
<1>3. s.start \in Nat
  BY <1>1, DatesAreNumbers
<1>4. s.rule.count \in Nat /\ s.rule.until \in Nat
  BY <1>2
<1> QED BY <1>1, <1>2, <1>3, <1>4

\* The i-th date a rule expands to, counting from 0.
Nth(start, r, i) == start + r.every * i

\* i is the number of a date the rule expands to.
Counts(start, r, i) ==
    /\ i \in Nat /\ Nth(start, r, i) \in Dates
    /\ r.count > 0 => i < r.count
    /\ r.until > 0 => Nth(start, r, i) <= r.until

\* What a rule expands to are its numbered dates.
LEMMA ExpandedByNumber ==
    ASSUME NEW start \in Dates, NEW r \in Rules
    PROVE  /\ \A i : Counts(start, r, i) => Nth(start, r, i) \in Expanded(start, r)
           /\ \A x \in Expanded(start, r) :
                x \in Dates /\ \E i : Counts(start, r, i) /\ x = Nth(start, r, i)
<1>e. r.every \in Nat \ {0} /\ r.count \in Nat /\ r.until \in Nat
  BY RuleParts
<1>1. ASSUME NEW i, Counts(start, r, i) PROVE Nth(start, r, i) \in Expanded(start, r)
  <2> DEFINE x == start + r.every * i
  <2>1. i \in Nat /\ x \in Dates /\ start \in Nat /\ x \in Nat
    BY <1>1, DatesAreNumbers DEF Counts, Nth
  <2>2. (r.every * i) % r.every = 0 /\ (r.every * i) \div r.every = i /\ r.every * i \in Nat
    BY <1>e, <2>1, Multiple
  <2>3. x - start = r.every * i /\ x >= start
    BY <2>1, <2>2
  <2>4. (x - start) % r.every = 0 /\ (x - start) \div r.every = i
    BY <2>2, <2>3
  <2>5. /\ r.count > 0 => i < r.count
        /\ r.until > 0 => x <= r.until
    BY <1>1 DEF Counts, Nth
  <2> HIDE DEF x
  <2>6. x \in Expanded(start, r)
    BY <2>1, <2>3, <2>4, <2>5 DEF Expanded
  <2> QED BY <2>6 DEF x, Nth
<1>2. ASSUME NEW x \in Expanded(start, r)
      PROVE  x \in Dates /\ \E i : Counts(start, r, i) /\ x = Nth(start, r, i)
  <2> DEFINE i == (x - start) \div r.every
  <2>1. /\ x \in Dates /\ x >= start /\ (x - start) % r.every = 0
        /\ r.count > 0 => i < r.count
        /\ r.until > 0 => x <= r.until
    BY DEF Expanded
  <2>2. x \in Nat /\ start \in Nat /\ x - start \in Nat
    BY <2>1, DatesAreNumbers
  <2>3. i \in Nat /\ x - start = r.every * i + ((x - start) % r.every)
    BY <1>e, <2>2, Division
  <2> HIDE DEF i
  <2>4. r.every * i \in Nat
    BY <1>e, <2>3
  <2>5. x = Nth(start, r, i)
    BY <2>1, <2>2, <2>3, <2>4 DEF Nth
  <2>6. Counts(start, r, i)
    BY <2>1, <2>3, <2>5 DEF Counts
  <2> QED BY <2>1, <2>5, <2>6
<1> QED BY <1>1, <1>2

\* Later dates have later numbers.
LEMMA NthOrdered ==
    ASSUME NEW start \in Nat, NEW r \in Rules, NEW i \in Int, NEW j \in Int
    PROVE  /\ Nth(start, r, i) \in Int
           /\ (i <= j) <=> (Nth(start, r, i) <= Nth(start, r, j))
           /\ (i < j) <=> (Nth(start, r, i) < Nth(start, r, j))
           /\ (i = j) <=> (Nth(start, r, i) = Nth(start, r, j))
<1>e. r.every \in Nat \ {0}
  BY RuleParts
<1>1. r.every * i \in Int /\ r.every * j \in Int
  BY <1>e
<1>2. /\ (i <= j) <=> (r.every * i <= r.every * j)
      /\ (j <= i) <=> (r.every * j <= r.every * i)
  BY <1>e, Ordered
<1> QED BY <1>1, <1>2 DEF Nth

\* There are n numbers below n.
LEMMA Below ==
    ASSUME NEW n \in Nat
    PROVE  IsFiniteSet(0 .. n - 1) /\ Cardinality(0 .. n - 1) = n
<1> DEFINE top == n - 1
<1>1. top \in Int /\ (0 > top <=> n = 0) /\ top - 0 + 1 = n
  OBVIOUS
<1> HIDE DEF top
<1>2. IsFiniteSet(0 .. top) /\ Cardinality(0 .. top) = n
  BY <1>1, FS_Interval
<1> QED BY <1>2 DEF top

\* The dates a rule expands to before d.
Before(s, d) == {x \in Expanded(s.start, s.rule) : x < d}

\* How many there are is a number of days.
LEMMA HeadType ==
    ASSUME NEW s, NEW d
    PROVE  /\ IsFiniteSet(Before(s, d)) /\ Head(s, d) \in 0 .. Days
           /\ Head(s, d) = Cardinality(Before(s, d))
<1>1. Before(s, d) \in SUBSET (1 .. Days)
  BY DEF Before, Expanded, Dates
<1>2. IsFiniteSet(1 .. Days) /\ Cardinality(1 .. Days) = Days
  BY DatesAreNumbers, FS_Interval
<1>3. IsFiniteSet(Before(s, d)) /\ Cardinality(Before(s, d)) <= Days
  BY <1>1, <1>2, FS_Subset
<1>4. Cardinality(Before(s, d)) \in Nat
  BY <1>3, FS_CardinalityType
<1> QED BY <1>3, <1>4, DatesAreNumbers DEF Head, Before

\* There are no more of them than the numbers below n, when all are the
\* dates of such numbers.
LEMMA HeadAtMost ==
    ASSUME NEW s \in Series, NEW d \in Dates, NEW n \in Nat,
           d <= Nth(s.start, s.rule, n)
    PROVE  Head(s, d) <= n
<1>t. s.start \in Dates /\ s.start \in Nat /\ s.rule \in Rules /\ d \in Nat
  BY SeriesParts, DatesAreNumbers
<1> DEFINE G == Before(s, d)
           num == [x \in G |-> CHOOSE i : Counts(s.start, s.rule, i)
                                            /\ x = Nth(s.start, s.rule, i)]
<1>1. ASSUME NEW x \in G
      PROVE  num[x] \in 0 .. n - 1 /\ x = Nth(s.start, s.rule, num[x])
  <2>1. x \in Expanded(s.start, s.rule) /\ x < d /\ x \in Dates
    BY <1>t, ExpandedByNumber DEF Before
  <2>2. \E i : Counts(s.start, s.rule, i) /\ x = Nth(s.start, s.rule, i)
    BY <1>t, <2>1, ExpandedByNumber
  <2>3. Counts(s.start, s.rule, num[x]) /\ x = Nth(s.start, s.rule, num[x])
    BY <2>2
  <2> HIDE DEF num
  <2>4. num[x] \in Nat
    BY <2>3 DEF Counts
  <2>5. Nth(s.start, s.rule, num[x]) < Nth(s.start, s.rule, n)
    <3>1. Nth(s.start, s.rule, n) \in Int /\ x \in Nat
      BY <1>t, <2>1, NthOrdered, DatesAreNumbers
    <3> QED BY <1>t, <2>1, <2>3, <3>1
  <2>6. num[x] < n
    BY <1>t, <2>4, <2>5, NthOrdered
  <2> QED BY <2>3, <2>4, <2>6
<1>2. num \in [G -> 0 .. n - 1]
  BY <1>1
<1>3. \A x, y \in G : num[x] = num[y] => x = y
  BY <1>1
<1>4. IsFiniteSet(G) /\ Head(s, d) = Cardinality(G) /\ Head(s, d) \in Nat
  BY HeadType
<1>5. IsFiniteSet(0 .. n - 1) /\ Cardinality(0 .. n - 1) = n
  BY Below
<1> HIDE DEF G, num
<1>6. ~(Cardinality(0 .. n - 1) < Cardinality(G))
  BY <1>2, <1>3, <1>4, <1>5, FS_PigeonHole
<1> QED BY <1>4, <1>5, <1>6

\* There are as many as the numbers below n, when the rule expands to the
\* dates of all of those before d.
LEMMA HeadAtLeast ==
    ASSUME NEW s \in Series, NEW d \in Dates, NEW n \in Nat,
           \A i \in 0 .. n - 1 :
                Counts(s.start, s.rule, i) /\ Nth(s.start, s.rule, i) < d
    PROVE  n <= Head(s, d)
<1>t. s.start \in Dates /\ s.start \in Nat /\ s.rule \in Rules /\ d \in Nat
  BY SeriesParts, DatesAreNumbers
<1> DEFINE G == Before(s, d)
           date == [i \in 0 .. n - 1 |-> Nth(s.start, s.rule, i)]
<1>1. \A i \in 0 .. n - 1 : Nth(s.start, s.rule, i) \in G
  BY <1>t, ExpandedByNumber DEF Before
<1>2. date \in [0 .. n - 1 -> G]
  BY <1>1
<1>3. \A i, j \in 0 .. n - 1 : date[i] = date[j] => i = j
  BY <1>t, NthOrdered
<1>4. IsFiniteSet(G) /\ Head(s, d) = Cardinality(G) /\ Head(s, d) \in Nat
  BY HeadType
<1>5. IsFiniteSet(0 .. n - 1) /\ Cardinality(0 .. n - 1) = n
  BY Below
<1> HIDE DEF G, date
<1>6. ~(Cardinality(G) < Cardinality(0 .. n - 1))
  BY <1>2, <1>3, <1>4, <1>5, FS_PigeonHole
<1> QED BY <1>4, <1>5, <1>6

\* A rule that is read whole generates what it expands to.
LEMMA WholeIsExpanded ==
    ASSUME NEW start \in Dates, NEW r \in Rules, ReadWhole(r)
    PROVE  Generated(start, r) = Expanded(start, r)
<1> DEFINE plain == [r EXCEPT !.count = 0, !.until = 0]
           s == [ver |-> 0, start |-> start, rule |-> plain, excluded |-> {},
                 added |-> {}]
<1>t. r.every \in Nat \ {0} /\ start \in Nat /\ r.count \in Nat /\ r.until \in Nat
  BY RuleParts, DatesAreNumbers
<1>p. /\ plain \in Rules /\ plain.every = r.every
      /\ plain.count = 0 /\ plain.until = 0
  BY DatesAreNumbers DEF Rules
<1>s. s \in Series /\ s.start = start /\ s.rule = plain
  BY <1>p DEF Series
<1> HIDE DEF plain, s
<1>1. Chosen(start, r) = {d \in Dates : d >= start /\ (d - start) % r.every = 0}
  BY DEF Chosen, ReadWhole
<1>2. Expanded(start, plain) = Chosen(start, r)
  BY <1>p, <1>1 DEF Expanded
<1>3. ASSUME NEW d \in Chosen(start, r)
      PROVE  Cardinality({x \in Chosen(start, r) : x < d}) = (d - start) \div r.every
  <2> DEFINE n == (d - start) \div r.every
  <2>1. d \in Dates /\ d >= start /\ (d - start) % r.every = 0
    BY <1>1
  <2>2. d \in Nat /\ d - start \in Nat
    BY <1>t, <2>1, DatesAreNumbers
  <2>3. n \in Nat /\ d - start = r.every * n + ((d - start) % r.every)
    BY <1>t, <2>2, Division
  <2> HIDE DEF n
  <2>4. r.every * n \in Nat
    BY <1>t, <2>3
  <2>5. d = Nth(start, plain, n)
    BY <1>t, <1>p, <2>1, <2>2, <2>3, <2>4 DEF Nth
  <2>6. Head(s, d) <= n
    BY <1>s, <2>1, <2>2, <2>3, <2>5, HeadAtMost
  <2>7. ASSUME NEW i \in 0 .. n - 1
        PROVE  Counts(start, plain, i) /\ Nth(start, plain, i) < d
    <3>1. i \in Nat /\ i < n
      BY <2>3
    <3>2. Nth(start, plain, i) < d /\ Nth(start, plain, i) \in Int
          /\ Nth(start, plain, 0) <= Nth(start, plain, i)
      BY <1>t, <1>p, <2>3, <2>5, <3>1, NthOrdered
    <3>3. Nth(start, plain, 0) = start
      BY <1>t, <1>p DEF Nth
    <3>4. Nth(start, plain, i) \in Dates
      BY <1>t, <2>1, <2>2, <3>2, <3>3, DatesAreNumbers DEF Dates
    <3> QED BY <1>p, <3>1, <3>2, <3>4 DEF Counts
  <2>8. n <= Head(s, d)
    BY <1>s, <2>1, <2>3, <2>7, HeadAtLeast
  <2>9. Head(s, d) = n
    BY <2>3, <2>6, <2>8, HeadType, DatesAreNumbers
  <2> QED BY <1>2, <1>s, <2>9 DEF Head, n
<1> QED BY <1>1, <1>3 DEF Generated, Expanded

\* Where the target of a split stands among the dates of the rule.
LEMMA HeadPlaces ==
    ASSUME NEW s \in Series, NEW d \in Dates, ~Unsplittable(s, d)
    PROVE  /\ Head(s, d) \in 1 .. Days
           /\ s.rule.count > 0 => Head(s, d) < s.rule.count
           /\ Nth(s.start, s.rule, Head(s, d) - 1) < d
           /\ s.rule.until = 0 => d <= Nth(s.start, s.rule, Head(s, d))
           /\ d \in Expanded(s.start, s.rule) =>
                d = Nth(s.start, s.rule, Head(s, d))
<1> DEFINE h == Head(s, d)
           at(i) == Nth(s.start, s.rule, i)
<1>t. /\ s.start \in Dates /\ s.start \in Nat \ {0} /\ s.rule \in Rules
      /\ d \in Nat /\ d <= Days
      /\ s.rule.count \in Nat /\ s.rule.until \in Nat
  BY SeriesParts, RuleParts, DatesAreNumbers DEF Dates
<1>1. h \in 1 .. Days /\ h \in Nat /\ (s.rule.count > 0 => h < s.rule.count)
  BY <1>t, HeadType DEF Unsplittable
<1> HIDE DEF h
<1>2. at(0) = s.start /\ \A i \in Int : at(i) \in Int
  <2>1. s.rule.every \in Nat
    BY <1>t, RuleParts
  <2> QED BY <1>t, <2>1, NthOrdered DEF Nth
<1>3. at(h - 1) < d
  <2>1. h - 1 \in Nat /\ h - 1 \in Int
    BY <1>1
  <2>2. at(h - 1) \in Int
    BY <1>2, <2>1
  <2>3. SUFFICES ASSUME d <= at(h - 1) PROVE FALSE
    BY <1>t, <2>2
  <2>4. Head(s, d) <= h - 1
    BY <2>1, <2>3, HeadAtMost
  <2> QED BY <1>1, <2>4 DEF h
<1>4. ASSUME NEW n \in Nat,
             \A i \in 0 .. n - 1 :
                /\ at(i) < d
                /\ s.rule.count > 0 => i < s.rule.count
                /\ s.rule.until > 0 => at(i) <= s.rule.until
      PROVE  n <= h
  <2>1. ASSUME NEW i \in 0 .. n - 1
        PROVE  Counts(s.start, s.rule, i) /\ at(i) < d
    <3>1. at(0) <= at(i) /\ at(i) \in Int /\ i \in Nat
      BY <1>t, <1>2, NthOrdered
    <3>2. at(i) \in Dates
      BY <1>t, <1>2, <1>4, <3>1, DatesAreNumbers DEF Dates
    <3> QED BY <1>4, <3>1, <3>2 DEF Counts
  <2> QED BY <2>1, HeadAtLeast DEF h
<1>5. s.rule.until = 0 => d <= at(h)
  <2>1. SUFFICES ASSUME s.rule.until = 0, at(h) < d PROVE FALSE
    BY <1>t, <1>1, <1>2
  <2>2. ASSUME NEW i \in 0 .. (h + 1) - 1
        PROVE  /\ at(i) < d
               /\ s.rule.count > 0 => i < s.rule.count
               /\ s.rule.until > 0 => at(i) <= s.rule.until
    <3>1. i \in Int /\ i <= h
      BY <1>1
    <3>2. at(i) <= at(h) /\ at(i) \in Int /\ at(h) \in Int
      BY <1>t, <1>1, <3>1, NthOrdered
    <3> QED BY <1>t, <1>1, <2>1, <3>1, <3>2
  <2>3. h + 1 \in Nat
    BY <1>1
  <2>4. h + 1 <= h
    BY <1>4, <2>2, <2>3
  <2> QED BY <1>1, <2>4
<1>6. d \in Expanded(s.start, s.rule) => d = at(h)
  <2>1. SUFFICES ASSUME d \in Expanded(s.start, s.rule) PROVE d = at(h)
    OBVIOUS
  <2>2. PICK i : Counts(s.start, s.rule, i) /\ d = at(i)
    BY <1>t, <2>1, ExpandedByNumber
  <2>3. i \in Nat
    BY <2>2 DEF Counts
  <2>4. h <= i
    BY <2>2, <2>3, <1>t, HeadAtMost DEF h
  <2>5. ASSUME NEW j \in 0 .. i - 1
        PROVE  /\ at(j) < d
               /\ s.rule.count > 0 => j < s.rule.count
               /\ s.rule.until > 0 => at(j) <= s.rule.until
    <3>1. at(j) < at(i) /\ at(j) \in Int /\ at(i) \in Int
      BY <1>t, <2>3, NthOrdered
    <3> QED BY <1>t, <2>2, <2>3, <3>1 DEF Counts
  <2>6. i <= h
    BY <1>4, <2>3, <2>5
  <2> QED BY <1>1, <2>2, <2>3, <2>4, <2>6
<1> QED BY <1>1, <1>3, <1>5, <1>6 DEF h

\* The two rules of a split.
LEMMA SplitRules ==
    ASSUME NEW s \in Series, NEW d \in Dates
    PROVE  /\ BeforeRule(s, d) \in Rules
           /\ BeforeRule(s, d).every = s.rule.every
           /\ BeforeRule(s, d).count = Head(s, d) /\ BeforeRule(s, d).until = 0
           /\ BeforeRule(s, d).unknown = s.rule.unknown
           /\ ~Unsplittable(s, d) =>
                /\ AfterRule(s, d) \in Rules
                /\ AfterRule(s, d).every = s.rule.every
                /\ AfterRule(s, d).count =
                    IF s.rule.count > 0 THEN s.rule.count - Head(s, d) ELSE 0
                /\ AfterRule(s, d).until = s.rule.until
                /\ AfterRule(s, d).unknown = s.rule.unknown
<1>1. s.rule \in Rules
  BY SeriesParts
<1>2. /\ s.rule.count \in 0 .. Days /\ (s.rule.count = 0 \/ s.rule.until = 0)
      /\ s.rule.until \in 0 .. Days
  BY <1>1, RuleParts
<1>3. Head(s, d) \in 0 .. Days
  BY HeadType
<1>4. /\ BeforeRule(s, d) \in Rules
      /\ BeforeRule(s, d).every = s.rule.every
      /\ BeforeRule(s, d).count = Head(s, d) /\ BeforeRule(s, d).until = 0
      /\ BeforeRule(s, d).unknown = s.rule.unknown
  BY <1>1, <1>3, DatesAreNumbers DEF BeforeRule, Rules
<1>5. ASSUME ~Unsplittable(s, d), s.rule.count > 0
      PROVE  /\ AfterRule(s, d) \in Rules
             /\ AfterRule(s, d).every = s.rule.every
             /\ AfterRule(s, d).count = s.rule.count - Head(s, d)
             /\ AfterRule(s, d).until = s.rule.until
             /\ AfterRule(s, d).unknown = s.rule.unknown
  <2>1. Head(s, d) < s.rule.count
    BY <1>5, HeadPlaces
  <2>2. s.rule.count - Head(s, d) \in 0 .. Days /\ 0 \in 0 .. Days
    BY <1>2, <1>3, <2>1, DatesAreNumbers
  <2>3. AfterRule(s, d) =
            [s.rule EXCEPT !.count = s.rule.count - Head(s, d), !.until = 0]
    BY <1>5, <1>1 DEF AfterRule, Rules
  <2>4. s.rule.until = 0
    BY <1>2, <1>5
  <2> HIDE DEF AfterRule
  <2> QED BY <1>1, <2>2, <2>3, <2>4 DEF Rules
<1>6. ASSUME ~(s.rule.count > 0)
      PROVE  AfterRule(s, d) = s.rule /\ s.rule.count = 0
  BY <1>2, <1>6 DEF AfterRule
<1> QED BY <1>1, <1>4, <1>5, <1>6

\* The dates of the truncated series, and of the rest.
LEMMA SplitDates ==
    ASSUME NEW s \in Series, NEW d \in Dates
    PROVE  /\ Occurrences(Truncated(s, d)) = Generated(s.start, BeforeRule(s, d))
           /\ Occurrences(Rest(s, d)) = Generated(d, AfterRule(s, d))
<1>1. Truncated(s, d).start = s.start /\ Truncated(s, d).rule = BeforeRule(s, d)
      /\ Truncated(s, d).excluded = {} /\ Truncated(s, d).added = {}
  BY DEF Truncated, Series
<1>2. Rest(s, d).start = d /\ Rest(s, d).rule = AfterRule(s, d)
      /\ Rest(s, d).excluded = {} /\ Rest(s, d).added = {}
  BY DEF Rest
<1> QED BY <1>1, <1>2 DEF Occurrences

\* Cutting a series at a date its rule generates divides what it generates,
\* when the rule is read whole.
LEMMA RuleDivided ==
    ASSUME NEW s \in Series, NEW d \in Dates, ~Unsplittable(s, d),
           ReadWhole(s.rule), d \in Generated(s.start, s.rule)
    PROVE  Occurrences(Truncated(s, d)) \union Occurrences(Rest(s, d))
               = Generated(s.start, s.rule)
<1> DEFINE h == Head(s, d)
           r == s.rule
           b == BeforeRule(s, d)
           a == AfterRule(s, d)
<1>t. /\ s.start \in Dates /\ s.start \in Nat /\ d \in Nat /\ d <= Days
      /\ r \in Rules /\ r.every \in Nat \ {0} /\ r.count \in Nat /\ r.until \in Nat
  BY SeriesParts, RuleParts, DatesAreNumbers DEF Dates
<1>w. /\ Generated(s.start, r) = Expanded(s.start, r)
      /\ d \in Expanded(s.start, r)
  BY <1>t, WholeIsExpanded
<1>h. /\ h \in Nat /\ h > 0 /\ (r.count > 0 => h < r.count)
      /\ d = Nth(s.start, r, h)
  BY <1>w, HeadPlaces
<1>u. r.until > 0 => d <= r.until
  BY <1>w DEF Expanded
<1>b. b \in Rules /\ b.every = r.every /\ b.count = h /\ b.until = 0
      /\ ReadWhole(b)
  BY SplitRules DEF ReadWhole
<1>a. /\ a \in Rules /\ a.every = r.every /\ a.until = r.until
      /\ a.count = IF r.count > 0 THEN r.count - h ELSE 0
      /\ ReadWhole(a)
  BY SplitRules DEF ReadWhole
<1>n. ASSUME NEW i \in Int
      PROVE  /\ Nth(s.start, b, i) = Nth(s.start, r, i)
             /\ Nth(d, a, i) = Nth(s.start, r, h + i)
             /\ Nth(s.start, r, i) \in Int
  <2>1. r.every * (h + i) = r.every * h + r.every * i
        /\ r.every * h \in Int /\ r.every * i \in Int
    BY <1>t, <1>h, Distributes
  <2>2. d = s.start + r.every * h
    BY <1>h DEF Nth
  <2>3. Nth(d, a, i) = d + r.every * i
    BY <1>a DEF Nth
  <2>4. Nth(s.start, b, i) = s.start + r.every * i
    BY <1>b DEF Nth
  <2>5. Nth(s.start, r, h + i) = s.start + r.every * (h + i)
        /\ Nth(s.start, r, i) = s.start + r.every * i
    BY DEF Nth
  <2> HIDE DEF b, a, h, r
  <2> QED BY <1>t, <2>1, <2>2, <2>3, <2>4, <2>5
<1> HIDE DEF b, a, h, r
<1>1. ASSUME NEW x \in Expanded(s.start, b) PROVE x \in Expanded(s.start, r)
  <2>1. PICK i : Counts(s.start, b, i) /\ x = Nth(s.start, b, i)
    BY <1>t, <1>b, ExpandedByNumber
  <2>2. i \in Nat /\ i < h /\ x = Nth(s.start, r, i) /\ x \in Dates
    BY <2>1, <1>b, <1>h, <1>n DEF Counts
  <2>3. x < d
    BY <1>t, <1>h, <2>2, NthOrdered
  <2>4. Counts(s.start, r, i)
    BY <1>t, <1>h, <1>u, <2>2, <2>3, DatesAreNumbers DEF Counts
  <2> QED BY <1>t, <2>2, <2>4, ExpandedByNumber
<1>2. ASSUME NEW x \in Expanded(d, a) PROVE x \in Expanded(s.start, r)
  <2>1. PICK i : Counts(d, a, i) /\ x = Nth(d, a, i)
    BY <1>a, ExpandedByNumber
  <2>2. i \in Nat /\ h + i \in Nat /\ x = Nth(s.start, r, h + i) /\ x \in Dates
    BY <2>1, <1>h, <1>n DEF Counts
  <2>3. Counts(s.start, r, h + i)
    BY <1>t, <1>h, <1>a, <2>1, <2>2 DEF Counts
  <2> QED BY <1>t, <2>2, <2>3, ExpandedByNumber
<1>3. ASSUME NEW x \in Expanded(s.start, r)
      PROVE  x \in Expanded(s.start, b) \/ x \in Expanded(d, a)
  <2>1. PICK i : Counts(s.start, r, i) /\ x = Nth(s.start, r, i)
    BY <1>t, ExpandedByNumber
  <2>2. i \in Nat /\ x \in Dates
    BY <2>1 DEF Counts
  <2>3. CASE i < h
    <3>1. Counts(s.start, b, i) /\ x = Nth(s.start, b, i)
      BY <1>b, <1>n, <2>1, <2>2, <2>3 DEF Counts
    <3> QED BY <1>t, <1>b, <3>1, ExpandedByNumber
  <2>4. CASE i >= h
    <3>1. i - h \in Nat /\ h + (i - h) = i
      BY <1>h, <2>2, <2>4
    <3>2. x = Nth(d, a, i - h)
      BY <1>n, <2>1, <3>1
    <3>3. Counts(d, a, i - h)
      BY <1>t, <1>h, <1>a, <2>1, <2>2, <3>1, <3>2 DEF Counts
    <3> QED BY <1>a, <3>2, <3>3, ExpandedByNumber
  <2> QED BY <1>h, <2>2, <2>3, <2>4
<1>4. Occurrences(Truncated(s, d)) = Expanded(s.start, b)
      /\ Occurrences(Rest(s, d)) = Expanded(d, a)
  <2>1. Occurrences(Truncated(s, d)) = Generated(s.start, b)
        /\ Occurrences(Rest(s, d)) = Generated(d, a)
    BY SplitDates DEF a, b
  <2> QED BY <1>t, <1>a, <1>b, <2>1, WholeIsExpanded
<1> QED BY <1>w, <1>1, <1>2, <1>3, <1>4 DEF r

\* The last date of the series is before d.
EndsBefore(s, d) ==
    /\ s.rule.count > 0 /\ s.rule.until = 0 /\ s.added = {}
    /\ Nth(s.start, s.rule, s.rule.count - 1) < d

\* Then so is every date of it, when its rule is read whole.
LEMMA SeriesBefore ==
    ASSUME NEW s \in Series, NEW d \in Dates, EndsBefore(s, d),
           ReadWhole(s.rule)
    PROVE  \A x \in Occurrences(s) : x \in Nat /\ x < d
<1>t. /\ s.start \in Dates /\ s.start \in Nat /\ d \in Nat
      /\ s.rule \in Rules /\ s.rule.count \in Nat
  BY SeriesNumbers, DatesAreNumbers
<1>w. Generated(s.start, s.rule) = Expanded(s.start, s.rule)
  BY <1>t, WholeIsExpanded
<1> SUFFICES ASSUME NEW x \in Expanded(s.start, s.rule) PROVE x \in Nat /\ x < d
  BY <1>w DEF Occurrences, EndsBefore
<1>1. x \in Nat
  BY <1>t, ExpandedByNumber, DatesAreNumbers
<1>2. PICK i : Counts(s.start, s.rule, i) /\ x = Nth(s.start, s.rule, i)
  BY <1>t, ExpandedByNumber
<1>3. i \in Nat /\ s.rule.count - 1 \in Int /\ i <= s.rule.count - 1
  BY <1>t, <1>2 DEF Counts, EndsBefore
<1>4. /\ Nth(s.start, s.rule, i) <= Nth(s.start, s.rule, s.rule.count - 1)
      /\ Nth(s.start, s.rule, s.rule.count - 1) \in Int
  BY <1>t, <1>3, NthOrdered
<1> QED BY <1>t, <1>1, <1>2, <1>4 DEF EndsBefore

\* And so is every date of what a split of it leaves to the new series.
LEMMA RestBefore ==
    ASSUME NEW s \in Series, NEW d \in Dates, NEW b \in Dates,
           ~Unsplittable(s, d), EndsBefore(s, b), ReadWhole(s.rule)
    PROVE  \A x \in Occurrences(Rest(s, d)) : x \in Nat /\ x < b
<1> DEFINE h == Head(s, d)
           r == s.rule
           a == AfterRule(s, d)
<1>t. /\ s.start \in Dates /\ s.start \in Nat /\ d \in Nat /\ b \in Nat
      /\ r \in Rules /\ r.every \in Nat \ {0} /\ r.count \in Nat
  BY SeriesNumbers, DatesAreNumbers
<1>r. r.count > 0 /\ r.until = 0 /\ Nth(s.start, r, r.count - 1) < b
  BY DEF EndsBefore
<1>h. h \in Nat /\ h < r.count /\ d <= Nth(s.start, r, h)
  BY <1>r, HeadPlaces
<1>a. a \in Rules /\ a.every = r.every /\ a.count = r.count - h
      /\ ReadWhole(a)
  BY <1>r, SplitRules DEF ReadWhole
<1>o. Occurrences(Rest(s, d)) = Expanded(d, a)
  <2>1. Occurrences(Rest(s, d)) = Generated(d, a)
    BY SplitDates
  <2> QED BY <1>a, <2>1, WholeIsExpanded
<1> HIDE DEF a, h, r
<1> SUFFICES ASSUME NEW x \in Expanded(d, a) PROVE x \in Nat /\ x < b
  BY <1>o
<1>1. x \in Nat
  BY <1>a, ExpandedByNumber, DatesAreNumbers
<1>2. PICK i : Counts(d, a, i) /\ x = Nth(d, a, i)
  BY <1>a, ExpandedByNumber
<1>3. /\ i \in Nat /\ h + i \in Int /\ r.count - 1 \in Int
      /\ h + i <= r.count - 1
  BY <1>t, <1>h, <1>r, <1>a, <1>2 DEF Counts
<1>4. /\ Nth(s.start, r, h + i) <= Nth(s.start, r, r.count - 1)
      /\ Nth(s.start, r, r.count - 1) \in Int /\ Nth(s.start, r, h + i) \in Int
  BY <1>t, <1>3, NthOrdered
<1>5. r.every * (h + i) = r.every * h + r.every * i
      /\ r.every * h \in Int /\ r.every * i \in Int
  BY <1>t, <1>h, <1>3, Distributes
<1>6. /\ x = d + r.every * i
      /\ Nth(s.start, r, h) = s.start + r.every * h
      /\ Nth(s.start, r, h + i) = s.start + r.every * (h + i)
  BY <1>2, <1>a DEF Nth
<1>7. x <= Nth(s.start, r, h + i)
  BY <1>t, <1>1, <1>h, <1>5, <1>6
<1> QED BY <1>t, <1>r, <1>1, <1>4, <1>7

\* The rest of a split starts at its target.
LEMMA RestFrom ==
    ASSUME NEW s, NEW d \in Dates
    PROVE  \A x \in Occurrences(Rest(s, d)) : x \in Nat /\ x >= d
BY DatesAreNumbers DEF Rest, Occurrences, Generated, Chosen

-----------------------------------------------------------------------------
(* What becomes of the series.                                             *)

\* The series has a new etag, and its rule the unknown parts it had.
Renewed(s, t) ==
    t \in Series /\ t.ver = s.ver + 1 /\ t.rule.unknown = s.rule.unknown

\* The series only ever ends sooner, but for a forced truncate.
Shrinks(s, t) ==
    /\ Renewed(s, t)
    /\ t.start = s.start /\ t.rule.every = s.rule.every
    /\ t.added \subseteq s.added
    /\ s.rule.count > 0 =>
        t.rule.count > 0 /\ t.rule.count <= s.rule.count /\ t.rule.until = 0

\* A cut, which leaves fewer dates than there were, all before the target.
Cuts(s, t, d) ==
    /\ Shrinks(s, t)
    /\ t.rule.count > 0 /\ (s.rule.count > 0 => t.rule.count < s.rule.count)
    /\ EndsBefore(t, d)

\* A change gives the series a new etag.
LEMMA Touched ==
    ASSUME NEW e \in Series
    PROVE  LET t == [e EXCEPT !.ver = @ + 1] IN
           /\ t \in Series /\ t.ver = e.ver + 1 /\ t.start = e.start
           /\ t.rule = e.rule /\ t.added = e.added
BY DEF Series

\* Somebody else's change shrinks the series.
LEMMA EditShrinks ==
    ASSUME NEW s \in Series, NEW e \in Edited(s)
    PROVE  Shrinks(s, [e EXCEPT !.ver = @ + 1])
<1> DEFINE t == [e EXCEPT !.ver = @ + 1]
<1>s. /\ s.ver \in Nat /\ s.start \in Dates /\ s.rule \in Rules
      /\ s.excluded \subseteq Dates /\ s.added \subseteq Dates
      /\ s.rule.count \in Nat /\ (s.rule.count > 0 => s.rule.until = 0)
  BY SeriesParts, SeriesNumbers, RuleParts
<1>1. /\ e \in Series /\ e.ver = s.ver /\ e.start = s.start /\ e.added = s.added
      /\ e.rule.every = s.rule.every /\ e.rule.count = s.rule.count
      /\ e.rule.unknown = s.rule.unknown
      /\ s.rule.count > 0 => e.rule.until = 0
  <2>1. CASE e = s
    BY <1>s, <2>1
  <2>2. ASSUME NEW x \in Occurrences(s), e = [s EXCEPT !.excluded = @ \union {x}]
        PROVE  e \in Series /\ e.ver = s.ver /\ e.start = s.start
               /\ e.added = s.added /\ e.rule = s.rule
    <3>1. x \in Dates
      BY <1>s DEF Occurrences, Generated, Chosen
    <3> QED BY <1>s, <2>2, <3>1 DEF Series
  <2>3. ASSUME NEW x \in Dates, s.rule.count = 0, e = [s EXCEPT !.rule.until = x]
        PROVE  /\ e \in Series /\ e.ver = s.ver /\ e.start = s.start
               /\ e.added = s.added /\ e.rule.every = s.rule.every
               /\ e.rule.count = s.rule.count
               /\ e.rule.unknown = s.rule.unknown
    <3> DEFINE r == [s.rule EXCEPT !.until = x]
    <3>1. e = [s EXCEPT !.rule = r]
      BY <2>3 DEF Series
    <3>2. r \in Rules /\ r.every = s.rule.every /\ r.count = s.rule.count
          /\ r.unknown = s.rule.unknown
      BY <1>s, <2>3 DEF Rules, Dates
    <3> HIDE DEF r
    <3>3. e \in Series /\ e.ver = s.ver /\ e.start = s.start
          /\ e.added = s.added /\ e.rule = r
      BY <1>s, <3>1, <3>2 DEF Series
    <3> QED BY <3>2, <3>3
  <2> QED BY <1>s, <2>1, <2>2, <2>3 DEF Edited
<1>2. /\ t \in Series /\ t.ver = e.ver + 1 /\ t.start = e.start
      /\ t.rule = e.rule /\ t.added = e.added
  BY <1>1, Touched
<1> HIDE DEF t
<1>3. Shrinks(s, t)
  BY <1>s, <1>1, <1>2 DEF Shrinks, Renewed
<1> QED BY <1>3 DEF t

\* What a truncate leaves.
LEMMA TruncateLeaves ==
    ASSUME NEW s \in Series, NEW d \in Dates, NEW v \in Nat
    PROVE  LET t == [Truncated(s, d) EXCEPT !.ver = v] IN
           /\ t \in Series /\ t.ver = v /\ t.start = s.start
           /\ t.rule = BeforeRule(s, d) /\ t.added = {}
<1> DEFINE t == [Truncated(s, d) EXCEPT !.ver = v]
           b == BeforeRule(s, d)
<1>s. s.ver \in Nat /\ s.start \in Dates /\ s.rule \in Rules
  BY SeriesNumbers
<1>b. b \in Rules
  BY SplitRules
<1>t. t = [ver |-> v, start |-> s.start, rule |-> b, excluded |-> {}, added |-> {}]
  <2>1. s = [ver |-> s.ver, start |-> s.start, rule |-> s.rule,
             excluded |-> s.excluded, added |-> s.added]
    BY DEF Series
  <2>2. Truncated(s, d) = [ver |-> s.ver, start |-> s.start, rule |-> b,
                           excluded |-> {}, added |-> {}]
    <3> HIDE DEF b
    <3>1. Truncated(s, d) = [s EXCEPT !.rule = b, !.excluded = {}, !.added = {}]
      BY DEF Truncated, b
    <3> QED BY <2>1, <3>1
  <2> HIDE DEF b
  <2> QED BY <2>2
<1> HIDE DEF t, b
<1>1. /\ t \in Series /\ t.ver = v /\ t.start = s.start
      /\ t.rule = b /\ t.added = {}
  BY <1>s, <1>b, <1>t DEF Series
<1> QED BY <1>1 DEF t, b

\* The truncate of a series that can be split is a cut.
LEMMA TruncateCuts ==
    ASSUME NEW s \in Series, NEW d \in Dates, ~Unsplittable(s, d)
    PROVE  Cuts(s, [Truncated(s, d) EXCEPT !.ver = s.ver + 1], d)
<1> DEFINE v == s.ver + 1
           t == [Truncated(s, d) EXCEPT !.ver = v]
           b == BeforeRule(s, d)
           h == Head(s, d)
<1>s. /\ s.ver \in Nat /\ s.start \in Dates /\ s.rule \in Rules
      /\ s.rule.count \in Nat /\ v \in Nat
  BY SeriesNumbers, DatesAreNumbers
<1>b. /\ b \in Rules /\ b.every = s.rule.every /\ b.count = h /\ b.until = 0
      /\ b.unknown = s.rule.unknown
  BY SplitRules
<1>h. /\ h \in Nat /\ h > 0 /\ (s.rule.count > 0 => h < s.rule.count)
      /\ Nth(s.start, s.rule, h - 1) < d
  BY HeadPlaces
<1>1. /\ t \in Series /\ t.ver = v /\ t.start = s.start
      /\ t.rule = b /\ t.added = {}
  BY <1>s, TruncateLeaves
<1> HIDE DEF t, b, h
<1>2. Nth(t.start, t.rule, t.rule.count - 1) = Nth(s.start, s.rule, h - 1)
  BY <1>1, <1>b DEF Nth
<1>3. Shrinks(s, t)
  BY <1>1, <1>b, <1>h, <1>s DEF Shrinks, Renewed
<1>4. EndsBefore(t, d)
  BY <1>1, <1>2, <1>b, <1>h DEF EndsBefore
<1>5. Cuts(s, t, d)
  BY <1>1, <1>3, <1>4, <1>b, <1>h DEF Cuts
<1> QED BY <1>5 DEF t

\* A series that ends before d still does when it ends sooner.
LEMMA StillEndsBefore ==
    ASSUME NEW s \in Series, NEW t, NEW d \in Dates, Shrinks(s, t), EndsBefore(s, d)
    PROVE  EndsBefore(t, d)
<1>t. /\ s.start \in Nat /\ d \in Nat /\ s.rule \in Rules /\ s.rule.count \in Nat
      /\ t \in Series /\ t.rule \in Rules /\ t.rule.count \in Nat
  BY SeriesNumbers, DatesAreNumbers DEF Shrinks, Renewed
<1>1. /\ t.rule.count > 0 /\ t.rule.until = 0 /\ t.added = {}
      /\ t.rule.count <= s.rule.count
      /\ Nth(s.start, s.rule, s.rule.count - 1) < d
  BY DEF Shrinks, EndsBefore
<1>2. Nth(t.start, t.rule, t.rule.count - 1) = Nth(s.start, s.rule, t.rule.count - 1)
  BY DEF Shrinks, Nth
<1>3. t.rule.count - 1 \in Int /\ s.rule.count - 1 \in Int
      /\ t.rule.count - 1 <= s.rule.count - 1
  BY <1>t, <1>1
<1>4. /\ Nth(s.start, s.rule, t.rule.count - 1) <= Nth(s.start, s.rule, s.rule.count - 1)
      /\ Nth(s.start, s.rule, t.rule.count - 1) \in Int
      /\ Nth(s.start, s.rule, s.rule.count - 1) \in Int
  BY <1>t, <1>3, NthOrdered
<1>5. Nth(t.start, t.rule, t.rule.count - 1) < d
  BY <1>t, <1>1, <1>2, <1>4
<1> QED BY <1>1, <1>5 DEF EndsBefore

-----------------------------------------------------------------------------
(* The inductive invariant.                                                *)

Outcomes == {"none", "ok", "given_up", "invalid", "conflict", "stale_plan",
             "stale", "refused", "unavailable", "ambiguous"}

CallState ==
    [pc: {"idle", "target", "parent", "cut", "insert", "done"},
     req: Requests, seen: Series, second: BOOLEAN, first: SUBSET Plans,
     sends: 0 .. MaxRetries, unsure: BOOLEAN, cut: BOOLEAN, outcome: Outcomes]

\* What was read is the series, or an older one.
ReadsOld ==
    \A c \in Calls :
        /\ call[c].seen.ver <= series.ver
        /\ call[c].seen.ver = series.ver => call[c].seen = series

\* Unknown parts are nobody's to change.
SameUnknown == \A c \in Calls : call[c].seen.rule.unknown = series.rule.unknown

\* A truncate that may be sent was planned on its own read.
Planned ==
    \A c \in Calls :
        call[c].pc = "cut" => ~Unsplittable(call[c].seen, call[c].req.at)

\* A call that is about to make the new series, or has.
Ahead(c) == call[c].req.op = "split" /\ (call[c].pc = "insert" \/ made[c] > 0)

\* The series it read could be split.
Splittable ==
    \A c \in Calls : Ahead(c) => ~Unsplittable(call[c].seen, call[c].req.at)

\* The series ends before its target, and stays so while nobody forces.
EndedBefore ==
    Unforced => \A c \in Calls : Ahead(c) => EndsBefore(series, call[c].req.at)

\* Of two such calls, one planned on what the other had left.
OneAfterTheOther ==
    Unforced =>
        \A c, e \in Calls :
            Ahead(c) /\ Ahead(e) /\ c # e =>
                \/ EndsBefore(call[c].seen, call[e].req.at)
                \/ EndsBefore(call[e].seen, call[c].req.at)

\* A forced truncate is not planned again.
ForcedOnce ==
    \A c \in Calls :
        call[c].req.force /\ call[c].cut => call[c].pc \in {"cut", "insert", "done"}

\* A truncate that certainly landed leads to the insert, or is told.
CutLeadsOn ==
    \A c \in Calls :
        call[c].req.op = "split" /\ call[c].cut /\ ~call[c].unsure =>
            \/ call[c].pc = "insert"
            \/ call[c].pc = "done" /\ (made[c] = 1 \/ call[c].outcome = "ambiguous")

MadeAtTheEnd ==
    \A c \in Calls :
        made[c] \in {0, 1} /\ (made[c] > 0 => call[c].pc = "done")

IInv ==
    /\ ReadsOld
    /\ SameUnknown
    /\ Planned
    /\ Splittable
    /\ EndedBefore
    /\ OneAfterTheOther
    /\ ForcedOnce
    /\ CutLeadsOn
    /\ MadeAtTheEnd

-----------------------------------------------------------------------------
(* What one step of a call does.                                           *)

\* Goes on or ends, short of the insert, with what it knew.
Passes(c, k) ==
    /\ UNCHANGED <<series, made>>
    /\ k.seen = call[c].seen
    /\ k.cut = call[c].cut /\ k.unsure = call[c].unsure
    /\ k.pc # "cut" /\ (k.pc = "insert" => k.req.op = "create")
    /\ call[c].pc # "insert"
    /\ call[c].pc = "cut" => k.pc = "done" \/ ~call[c].req.force

\* Plans the truncate.
PlansCut(c, k) ==
    /\ UNCHANGED <<series, made>>
    /\ call[c].pc = "parent" /\ k.pc = "cut"
    /\ k.seen = series /\ ~k.cut
    /\ ~Unsplittable(series, k.req.at)

\* Truncates.
Truncates(c, k) ==
    /\ UNCHANGED made
    /\ call[c].pc = "cut" /\ k.pc \in {"insert", "done"}
    /\ k.req.op = "split" => k.pc = "insert"
    /\ Matches(c) /\ series' = Cut(c)
    /\ k.seen = call[c].seen /\ k.cut

\* Truncates or not, and does not know.
Unsures(c, k) ==
    /\ UNCHANGED made
    /\ call[c].pc = "cut" /\ k.pc \in {"cut", "done"}
    /\ \/ series' = series /\ k.cut = call[c].cut
       \/ Matches(c) /\ series' = Cut(c) /\ k.cut
    /\ k.seen = call[c].seen /\ k.unsure

\* Sends its insert.
Inserts(c, k) ==
    /\ UNCHANGED series
    /\ call[c].pc = "insert" /\ k.pc = "done"
    /\ k.seen = call[c].seen
    /\ k.cut = call[c].cut /\ k.unsure = call[c].unsure
    /\ \/ made' = made /\ (k.req.op = "split" => k.outcome = "ambiguous")
       \/ made' = [made EXCEPT ![c] = @ + 1]

\* One step of call c leaves it as k.
Steps(c, k) ==
    /\ k \in CallState
    /\ call' = [call EXCEPT ![c] = k]
    /\ k.req = call[c].req
    /\ call[c].pc # "done"
    /\ edits' = edits
    /\ Passes(c, k) \/ PlansCut(c, k) \/ Truncates(c, k) \/ Unsures(c, k)
       \/ Inserts(c, k)

\* The typing of a call.
LEMMA CallType ==
    ASSUME TypeOK, NEW c \in Calls
    PROVE  /\ call[c] \in CallState /\ call \in [Calls -> CallState]
           /\ call[c].req.at \in Dates /\ call[c].req.op \in {"split", "cut", "create"}
           /\ call[c].req.force \in BOOLEAN
           /\ call[c].seen \in Series
<1>1. call \in [Calls -> CallState]
  BY DEF TypeOK, CallState, Outcomes
<1>2. call[c].req \in RequestSpace /\ call[c].seen \in Series
  BY <1>1, SplitAssumption DEF CallState
<1> QED BY <1>1, <1>2 DEF RequestSpace

\* A plan is a plan.
LEMMA PlanType ==
    ASSUME NEW s \in Series, NEW d \in Dates
    PROVE  PlanOf(s, d) \in Plans
<1>1. s.rule \in Rules /\ s.excluded \in SUBSET Dates /\ s.added \in SUBSET Dates
  BY SeriesParts
<1>2. BeforeRule(s, d) \in Rules
  BY SplitRules
<1> QED BY <1>1, <1>2 DEF PlanOf, Plans

\* A call that ends with an outcome.
LEMMA FinishStep ==
    ASSUME TypeOK, NEW c \in Calls, NEW o \in Outcomes, Finish(c, o)
    PROVE  \E k \in CallState :
            /\ call' = [call EXCEPT ![c] = k]
            /\ k.req = call[c].req /\ k.seen = call[c].seen
            /\ k.first = call[c].first /\ k.cut = call[c].cut
            /\ k.unsure = call[c].unsure
            /\ k.pc = "done" /\ k.outcome = o
<1> DEFINE k == [call[c] EXCEPT !.pc = "done", !.outcome = o]
<1>1. call[c] \in CallState
  BY CallType
<1>2. call' = [call EXCEPT ![c] = k]
  BY DEF Finish
<1>3. /\ k \in CallState
      /\ k.req = call[c].req /\ k.seen = call[c].seen
      /\ k.first = call[c].first /\ k.cut = call[c].cut
      /\ k.unsure = call[c].unsure
      /\ k.pc = "done" /\ k.outcome = o
  BY <1>1 DEF CallState
<1> HIDE DEF k
<1> QED BY <1>2, <1>3

\* Every action of a call is a step of it.
LEMMA CallSteps ==
    ASSUME TypeOK, NEW c \in Calls,
           Start(c) \/ Try(c) \/ Truncate(c) \/ Insert(c)
    PROVE  \E k : Steps(c, k)
<1>t. /\ call[c] \in CallState /\ call \in [Calls -> CallState]
      /\ series \in Series /\ made \in [Calls -> Nat]
      /\ call[c].req.at \in Dates
      /\ call[c].req.op \in {"split", "cut", "create"}
  BY CallType DEF TypeOK
<1>f. ASSUME NEW o \in Outcomes, Finish(c, o), edits' = edits,
             UNCHANGED <<series, made>>, call[c].pc \in {"target", "parent", "cut"}
      PROVE  \E k : Steps(c, k)
  BY <1>f, FinishStep DEF Steps, Passes
<1>1. ASSUME Start(c) PROVE \E k : Steps(c, k)
  <2> DEFINE pc == IF call[c].req.op = "create" THEN "insert" ELSE "target"
             k == [call[c] EXCEPT !.pc = pc]
  <2>1. call' = [call EXCEPT ![c] = k]
    BY <1>1 DEF Start
  <2>2. /\ k \in CallState /\ k.req = call[c].req /\ k.seen = call[c].seen
        /\ k.first = call[c].first /\ k.cut = call[c].cut
        /\ k.unsure = call[c].unsure /\ k.pc = pc
    BY <1>t DEF CallState
  <2> HIDE DEF k
  <2> QED BY <1>1, <1>t, <2>1, <2>2 DEF Steps, Passes, Start
<1>2. ASSUME ReadTarget(c) PROVE \E k : Steps(c, k)
  <2>1. CASE call[c].req.op = "cut" /\ call[c].req.at \notin Occurrences(series)
    BY <1>2, <2>1, <1>f DEF ReadTarget, Outcomes
  <2>2. CASE ~(call[c].req.op = "cut" /\ call[c].req.at \notin Occurrences(series))
    <3> DEFINE k == [call[c] EXCEPT !.pc = "parent"]
    <3>1. call' = [call EXCEPT ![c] = k]
      BY <1>2, <2>2 DEF ReadTarget
    <3>2. /\ k \in CallState /\ k.req = call[c].req /\ k.seen = call[c].seen
          /\ k.first = call[c].first /\ k.cut = call[c].cut
          /\ k.unsure = call[c].unsure /\ k.pc = "parent"
      BY <1>t DEF CallState
    <3> HIDE DEF k
    <3> QED BY <1>2, <3>1, <3>2 DEF Steps, Passes, ReadTarget
  <2> QED BY <2>1, <2>2
<1>3. ASSUME GivesUp(c) PROVE \E k : Steps(c, k)
  BY <1>3, <1>f DEF GivesUp, Outcomes
<1>4. ASSUME ReadParent(c) PROVE \E k : Steps(c, k)
  <2> DEFINE d == call[c].req.at
  <2>1. CASE Unsplittable(series, d)
    BY <1>4, <2>1, <1>f DEF ReadParent, Outcomes
  <2>2. CASE ~Unsplittable(series, d) /\ call[c].first \notin {{}, {PlanOf(series, d)}}
    BY <1>4, <2>2, <1>f DEF ReadParent, Outcomes
  <2>3. CASE ~Unsplittable(series, d) /\ call[c].first \in {{}, {PlanOf(series, d)}}
    <3> DEFINE k == [call[c] EXCEPT !.pc = "cut", !.seen = series,
                                    !.first = {PlanOf(series, d)},
                                    !.sends = 0, !.unsure = FALSE,
                                    !.cut = FALSE]
               f == {PlanOf(series, d)}
    <3>1. call' = [call EXCEPT ![c] = k]
      BY <1>4, <2>3 DEF ReadParent
    <3>2. f \in SUBSET Plans /\ 0 \in 0 .. MaxRetries
      BY <1>t, PlanType, SplitAssumption
    <3> HIDE DEF f
    <3> DEFINE i == [call[c] EXCEPT !.pc = "cut", !.seen = series, !.first = f]
               j == [i EXCEPT !.sends = 0, !.unsure = FALSE, !.cut = FALSE]
    <3>3. /\ i \in CallState /\ i.req = call[c].req /\ i.seen = series
          /\ i.first = f /\ i.pc = "cut"
      BY <1>t, <3>2 DEF CallState
    <3>4. k = j
      BY DEF f
    <3> HIDE DEF i, k
    <3>5. /\ j \in CallState /\ j.req = call[c].req /\ j.seen = series
          /\ j.cut = FALSE /\ j.pc = "cut"
      BY <3>2, <3>3 DEF CallState
    <3>6. /\ k \in CallState /\ k.req = call[c].req /\ k.seen = series
          /\ k.cut = FALSE /\ k.pc = "cut"
      BY <3>4, <3>5
    <3>7. PlansCut(c, k)
      BY <1>4, <2>3, <3>6 DEF PlansCut, ReadParent
    <3> QED BY <1>4, <3>1, <3>6, <3>7 DEF Steps, ReadParent
  <2> QED BY <2>1, <2>2, <2>3
<1>5. ASSUME CutLands(c) PROVE \E k : Steps(c, k)
  <2> DEFINE k == OnceCut(c)
  <2>1. call' = [call EXCEPT ![c] = k]
    BY <1>5 DEF CutLands
  <2>2. /\ k \in CallState /\ k.req = call[c].req /\ k.seen = call[c].seen
        /\ k.first = call[c].first /\ k.cut
        /\ k.pc = IF call[c].req.op = "split" THEN "insert" ELSE "done"
    <3>1. CASE call[c].req.op = "split"
      <4>1. k = [call[c] EXCEPT !.cut = TRUE, !.pc = "insert"]
        BY <3>1 DEF OnceCut
      <4> QED BY <1>t, <3>1, <4>1 DEF CallState
    <3>2. CASE call[c].req.op # "split"
      <4>1. k = [call[c] EXCEPT !.cut = TRUE, !.pc = "done", !.outcome = "ok"]
        BY <3>2 DEF OnceCut
      <4> QED BY <1>t, <3>2, <4>1 DEF CallState, Outcomes
    <3> QED BY <3>1, <3>2
  <2> HIDE DEF k
  <2>3. Truncates(c, k)
    BY <1>5, <2>2 DEF CutLands, Truncates
  <2> QED BY <1>5, <2>1, <2>2, <2>3 DEF Steps, CutLands
<1>6. ASSUME CutStale(c) PROVE \E k : Steps(c, k)
  <2>1. CASE ~call[c].req.quotes /\ ~call[c].second
    <3> DEFINE k == [call[c] EXCEPT !.pc = "target", !.second = TRUE]
    <3>1. call' = [call EXCEPT ![c] = k]
      BY <1>6, <2>1 DEF CutStale
    <3>2. /\ k \in CallState /\ k.req = call[c].req /\ k.seen = call[c].seen
          /\ k.first = call[c].first /\ k.cut = call[c].cut
          /\ k.unsure = call[c].unsure /\ k.pc = "target"
      BY <1>t DEF CallState
    <3> HIDE DEF k
    <3> QED BY <1>6, <3>1, <3>2 DEF Steps, Passes, CutStale, Matches
  <2>2. CASE ~(~call[c].req.quotes /\ ~call[c].second)
    BY <1>6, <2>2, <1>f DEF CutStale, Outcomes
  <2> QED BY <2>1, <2>2
<1>7. ASSUME CutRefused(c) PROVE \E k : Steps(c, k)
  BY <1>7, <1>f DEF CutRefused, Outcomes
<1>8. ASSUME CutUnanswered(c) PROVE \E k : Steps(c, k)
  <2>1. PICK carried \in {FALSE, Matches(c)} :
        /\ series' = IF carried THEN Cut(c) ELSE series
        /\ LET k == [call[c] EXCEPT !.cut = @ \/ carried, !.unsure = TRUE]
           IN  call' = [call EXCEPT ![c] =
                    IF MayRetry(c) THEN [k EXCEPT !.sends = @ + 1]
                    ELSE [k EXCEPT !.pc = "done", !.outcome = "unavailable"]]
    BY <1>8 DEF CutUnanswered
  <2> DEFINE j == [call[c] EXCEPT !.cut = @ \/ carried, !.unsure = TRUE]
             k == IF MayRetry(c) THEN [j EXCEPT !.sends = @ + 1]
                  ELSE [j EXCEPT !.pc = "done", !.outcome = "unavailable"]
  <2>2. call' = [call EXCEPT ![c] = k]
    BY <2>1
  <2>3. /\ j \in CallState /\ j.req = call[c].req /\ j.seen = call[c].seen
        /\ j.first = call[c].first /\ j.unsure /\ j.pc = call[c].pc
        /\ j.sends = call[c].sends
        /\ j.cut = (call[c].cut \/ carried)
    BY <1>t, <2>1 DEF CallState, Matches, RequestSpace
  <2> HIDE DEF j
  <2>4. /\ k \in CallState /\ k.req = call[c].req /\ k.seen = call[c].seen
        /\ k.first = call[c].first /\ k.unsure /\ k.cut = j.cut
        /\ k.pc \in {call[c].pc, "done"}
    <3>1. CASE MayRetry(c)
      <4>1. k = [j EXCEPT !.sends = @ + 1]
        BY <3>1
      <4>2. j.sends + 1 \in 0 .. MaxRetries
        BY <1>t, <2>3, <3>1, SplitAssumption DEF MayRetry, CallState
      <4> QED BY <2>3, <4>1, <4>2 DEF CallState
    <3>2. CASE ~MayRetry(c)
      <4>1. k = [j EXCEPT !.pc = "done", !.outcome = "unavailable"]
        BY <3>2
      <4> QED BY <2>3, <4>1 DEF CallState, Outcomes
    <3> QED BY <3>1, <3>2
  <2> HIDE DEF k
  <2>5. \/ series' = series /\ k.cut = call[c].cut
        \/ Matches(c) /\ series' = Cut(c) /\ k.cut
    <3>1. CASE carried
      BY <2>1, <2>3, <2>4, <3>1
    <3>2. CASE ~carried
      <4>1. call[c].cut \in BOOLEAN
        BY <1>t DEF CallState
      <4> QED BY <2>1, <2>3, <2>4, <3>2, <4>1
    <3> QED BY <3>1, <3>2
  <2>6. Unsures(c, k)
    BY <1>8, <2>4, <2>5 DEF CutUnanswered, Unsures
  <2> QED BY <1>8, <2>2, <2>4, <2>6 DEF Steps, CutUnanswered
<1>9. ASSUME Insert(c) PROVE \E k : Steps(c, k)
  <2>1. ASSUME InsertLands(c) PROVE \E k : Steps(c, k)
    BY <2>1, FinishStep DEF InsertLands, Steps, Inserts, Outcomes
  <2>2. ASSUME InsertRefused(c) PROVE \E k : Steps(c, k)
    <3> DEFINE o == IF call[c].req.op = "split" THEN "ambiguous" ELSE "refused"
    <3>1. o \in Outcomes /\ (call[c].req.op = "split" => o = "ambiguous")
      BY DEF Outcomes
    <3> HIDE DEF o
    <3>2. Finish(c, o)
      BY <2>2 DEF InsertRefused, o
    <3> QED BY <2>2, <3>1, <3>2, FinishStep DEF InsertRefused, Steps, Inserts
  <2>3. ASSUME InsertUnanswered(c) PROVE \E k : Steps(c, k)
    <3>1. "ambiguous" \in Outcomes
      BY DEF Outcomes
    <3>2. PICK k \in CallState :
            /\ call' = [call EXCEPT ![c] = k]
            /\ k.req = call[c].req /\ k.seen = call[c].seen
            /\ k.first = call[c].first /\ k.cut = call[c].cut
            /\ k.unsure = call[c].unsure
            /\ k.pc = "done" /\ k.outcome = "ambiguous"
      BY <2>3, <3>1, FinishStep DEF InsertUnanswered
    <3>3. made' = made \/ made' = [made EXCEPT ![c] = @ + 1]
      BY <2>3 DEF InsertUnanswered
    <3> QED BY <2>3, <3>2, <3>3 DEF InsertUnanswered, Steps, Inserts
  <2> QED BY <1>9, <2>1, <2>2, <2>3 DEF Insert
<1> QED BY <1>1, <1>2, <1>3, <1>4, <1>5, <1>6, <1>7, <1>8, <1>9 DEF Try, Truncate

\* What a call's truncate does to the series: forced, it need not cut it.
LEMMA CutOfSeries ==
    ASSUME TypeOK, IInv, NEW c \in Calls, call[c].pc = "cut", Matches(c)
    PROVE  /\ ~Unsplittable(call[c].seen, call[c].req.at)
           /\ Renewed(series, Cut(c))
           /\ ~call[c].req.force =>
                call[c].seen = series /\ Cuts(series, Cut(c), call[c].req.at)
<1>1. series \in Series /\ call[c].req.at \in Dates /\ call[c].seen \in Series
  BY CallType DEF TypeOK
<1>2. ~Unsplittable(call[c].seen, call[c].req.at)
  BY DEF IInv, Planned
<1>3. Renewed(series, Cut(c))
  <2> DEFINE v == series.ver + 1
             t == [Truncated(call[c].seen, call[c].req.at) EXCEPT !.ver = v]
  <2>1. v \in Nat
    BY <1>1, SeriesNumbers
  <2>2. /\ t \in Series /\ t.ver = v
        /\ t.rule = BeforeRule(call[c].seen, call[c].req.at)
    BY <1>1, <2>1, TruncateLeaves
  <2>3. t.rule.unknown = call[c].seen.rule.unknown
    BY <1>1, <2>2, SplitRules
  <2>4. call[c].seen.rule.unknown = series.rule.unknown
    BY DEF IInv, SameUnknown
  <2>5. Cut(c) = t
    BY DEF Cut
  <2> HIDE DEF t
  <2> QED BY <2>2, <2>3, <2>4, <2>5 DEF Renewed
<1>4. ASSUME ~call[c].req.force
      PROVE  call[c].seen = series /\ Cuts(series, Cut(c), call[c].req.at)
  <2>1. call[c].seen = series
    BY <1>4 DEF IInv, ReadsOld, Matches
  <2> QED BY <1>1, <1>2, <2>1, TruncateCuts DEF Cut
<1> QED BY <1>2, <1>3, <1>4

\* Every step leaves the series alone or renews it; while nobody forces, it
\* cuts it.
LEMMA SeriesSteps ==
    ASSUME TypeOK, IInv, NEW c \in Calls, NEW k, Steps(c, k)
    PROVE  \/ series' = series
           \/ /\ Renewed(series, series')
              /\ Unforced' => Cuts(series, series', call[c].req.at)
<1>1. CASE Passes(c, k) \/ PlansCut(c, k) \/ Inserts(c, k)
  BY <1>1 DEF Passes, PlansCut, Inserts
<1>2. ASSUME call[c].pc = "cut", Matches(c), series' = Cut(c), k.cut
      PROVE  /\ Renewed(series, series')
             /\ Unforced' => Cuts(series, series', call[c].req.at)
  <2>1. call'[c] = k /\ k.req = call[c].req
    BY CallType DEF Steps
  <2>2. Unforced' => ~call[c].req.force
    BY <1>2, <2>1 DEF Unforced
  <2> QED BY <1>2, <2>2, CutOfSeries
<1>3. CASE Truncates(c, k)
  BY <1>2, <1>3 DEF Truncates
<1>4. CASE Unsures(c, k)
  BY <1>2, <1>4 DEF Unsures
<1> QED BY <1>1, <1>3, <1>4 DEF Steps

\* The types are kept by every step of a call.
LEMMA TypeStep ==
    ASSUME TypeOK, IInv, NEW c \in Calls, NEW k, Steps(c, k)
    PROVE  TypeOK'
<1>1. call' \in [Calls -> CallState]
  BY CallType DEF Steps
<1>2. series' \in Series
  BY SeriesSteps DEF Renewed, TypeOK
<1>3. made' \in [Calls -> Nat]
  BY DEF TypeOK, Steps, Passes, PlansCut, Truncates, Unsures, Inserts
<1>4. edits' \in 0 .. MaxEdits
  BY DEF TypeOK, Steps
<1> QED BY <1>1, <1>2, <1>3, <1>4 DEF TypeOK, CallState, Outcomes

-----------------------------------------------------------------------------
(* The invariant is inductive.                                             *)

\* It holds at the start.
LEMMA InitInv == ASSUME Init PROVE TypeOK /\ IInv
<1>1. series \in Series /\ {series} \subseteq Series
  BY SplitAssumption DEF Init
<1>2. 0 \in 0 .. MaxRetries /\ {} \in SUBSET Plans /\ 0 \in 0 .. MaxEdits
  BY SplitAssumption
<1>3. \A c \in Calls :
        /\ call[c] \in CallState /\ call[c].pc = "idle" /\ call[c].seen = series
        /\ ~call[c].cut /\ made[c] = 0
  BY <1>1, <1>2 DEF Init, CallState, Outcomes
<1>4. /\ call \in [Calls -> CallState] /\ made \in [Calls -> Nat]
      /\ edits \in 0 .. MaxEdits
  BY <1>2, <1>3 DEF Init
<1>5. TypeOK
  BY <1>1, <1>4 DEF TypeOK, CallState, Outcomes
<1>6. series.ver <= series.ver
  BY <1>1, SeriesNumbers
<1>7. ReadsOld
  BY <1>3, <1>6 DEF ReadsOld
<1>8. SameUnknown /\ Planned /\ Splittable /\ EndedBefore /\ OneAfterTheOther
      /\ ForcedOnce /\ CutLeadsOn /\ MadeAtTheEnd
  BY <1>3 DEF SameUnknown, Planned, Splittable, EndedBefore, OneAfterTheOther,
              ForcedOnce, CutLeadsOn, MadeAtTheEnd, Ahead
<1> QED BY <1>5, <1>7, <1>8 DEF IInv

\* It is kept by every step of a call.
LEMMA InvStep ==
    ASSUME TypeOK, IInv, NEW c \in Calls, NEW k, Steps(c, k)
    PROVE  IInv'
<1> DEFINE d == call[c].req.at
<1>t. /\ series \in Series /\ series' \in Series /\ k \in CallState
      /\ call \in [Calls -> CallState] /\ made \in [Calls -> Nat]
      /\ made' \in [Calls -> Nat] /\ call[c].cut \in BOOLEAN
      /\ \A b \in Calls :
            /\ call[b].req.at \in Dates /\ call[b].seen \in Series
            /\ call[b].req.force \in BOOLEAN
  BY CallType, TypeStep DEF TypeOK, Steps, CallState
<1>v. series.ver \in Nat /\ \A b \in Calls : call[b].seen.ver \in Nat
  BY <1>t, SeriesNumbers
<1>c. /\ call'[c] = k /\ k.req = call[c].req /\ call[c].pc # "done"
      /\ made[c] = 0
      /\ \A b \in Calls \ {c} : call'[b] = call[b] /\ made'[b] = made[b]
  BY <1>t DEF Steps, Passes, PlansCut, Truncates, Unsures, Inserts, IInv, MadeAtTheEnd
<1>s. \/ series' = series
      \/ Renewed(series, series') /\ (Unforced' => Cuts(series, series', d))
  BY SeriesSteps
<1>k. Cuts(series, series', d) => Shrinks(series, series')
  BY DEF Cuts
<1>r. /\ series' = series \/ series'.ver = series.ver + 1
      /\ series'.rule.unknown = series.rule.unknown
  BY <1>s DEF Renewed
<1>p. PlansCut(c, k) => ~(call[c].req.force /\ call[c].cut)
  BY DEF PlansCut, IInv, ForcedOnce
<1>u. Unforced' => Unforced
  <2> SUFFICES ASSUME Unforced', NEW b \in Calls, call[b].req.force, call[b].cut
               PROVE  FALSE
    BY DEF Unforced
  <2>1. CASE b # c
    BY <1>c, <2>1 DEF Unforced
  <2>2. CASE b = c
    <3>1. k.cut
      BY <1>p, <2>2 DEF Steps, Passes, PlansCut, Truncates, Unsures, Inserts
    <3> QED BY <1>c, <2>2, <3>1 DEF Unforced
  <2> QED BY <2>1, <2>2
<1>a. ASSUME Ahead(c)'
      PROVE  \/ Ahead(c) /\ k.seen = call[c].seen /\ series' = series
             \/ /\ ~Unsplittable(k.seen, d)
                /\ Unforced' => k.seen = series /\ EndsBefore(series', d)
  <2>1. CASE Passes(c, k) \/ PlansCut(c, k) \/ Unsures(c, k)
    BY <1>a, <1>c, <2>1 DEF Ahead, Passes, PlansCut, Unsures
  <2>2. CASE Truncates(c, k)
    <3>1. Unforced' => ~call[c].req.force
      BY <1>c, <2>2 DEF Truncates, Unforced
    <3> QED BY <2>2, <3>1, CutOfSeries DEF Truncates, Cuts
  <2>3. CASE Inserts(c, k)
    BY <1>a, <1>c, <2>3 DEF Ahead, Inserts
  <2> QED BY <2>1, <2>2, <2>3 DEF Steps
<1>1. ReadsOld'
  <2> SUFFICES ASSUME NEW b \in Calls
               PROVE  /\ call'[b].seen.ver <= series'.ver
                      /\ call'[b].seen.ver = series'.ver => call'[b].seen = series'
    BY DEF ReadsOld
  <2>1. \/ call'[b].seen = call[b].seen
        \/ call'[b].seen = series /\ series' = series
    BY <1>c DEF Steps, Passes, PlansCut, Truncates, Unsures, Inserts
  <2>2. /\ call[b].seen.ver <= series.ver
        /\ call[b].seen.ver = series.ver => call[b].seen = series
    BY DEF IInv, ReadsOld
  <2> QED BY <1>v, <1>r, <2>1, <2>2
<1>2. SameUnknown'
  <2> SUFFICES ASSUME NEW b \in Calls
               PROVE  call'[b].seen.rule.unknown = series'.rule.unknown
    BY DEF SameUnknown
  <2>1. call'[b].seen = call[b].seen \/ call'[b].seen = series
    BY <1>c DEF Steps, Passes, PlansCut, Truncates, Unsures, Inserts
  <2> QED BY <1>r, <2>1 DEF IInv, SameUnknown
<1>3. Planned'
  <2> SUFFICES ASSUME NEW b \in Calls, call'[b].pc = "cut"
               PROVE  ~Unsplittable(call'[b].seen, call'[b].req.at)
    BY DEF Planned
  <2>1. CASE b # c
    BY <1>c, <2>1 DEF IInv, Planned
  <2>2. CASE b = c
    BY <1>c, <2>2 DEF IInv, Planned, Steps, Passes, PlansCut, Truncates, Unsures, Inserts
  <2> QED BY <2>1, <2>2
<1>4. Splittable'
  <2> SUFFICES ASSUME NEW b \in Calls, Ahead(b)'
               PROVE  ~Unsplittable(call'[b].seen, call'[b].req.at)
    BY DEF Splittable
  <2>1. CASE b # c
    BY <1>c, <2>1 DEF IInv, Splittable, Ahead
  <2>2. CASE b = c
    BY <1>a, <1>c, <2>2 DEF IInv, Splittable
  <2> QED BY <2>1, <2>2
<1>5. EndedBefore'
  <2> SUFFICES ASSUME Unforced', NEW b \in Calls, Ahead(b)'
               PROVE  EndsBefore(series', call'[b].req.at)
    BY DEF EndedBefore
  <2>1. CASE b # c
    <3>1. Ahead(b) /\ call'[b] = call[b]
      BY <1>c, <2>1 DEF Ahead
    <3>2. EndsBefore(series, call[b].req.at)
      BY <1>u, <3>1 DEF IInv, EndedBefore
    <3> QED BY <1>t, <1>s, <1>k, <3>1, <3>2, StillEndsBefore
  <2>2. CASE b = c
    BY <1>a, <1>c, <1>u, <2>2 DEF IInv, EndedBefore
  <2> QED BY <2>1, <2>2
<1>6. OneAfterTheOther'
  <2> SUFFICES ASSUME Unforced', NEW b \in Calls, NEW e \in Calls, b # e,
                      Ahead(b)', Ahead(e)'
               PROVE  \/ EndsBefore(call'[b].seen, call'[e].req.at)
                      \/ EndsBefore(call'[e].seen, call'[b].req.at)
    BY DEF OneAfterTheOther
  <2>1. ASSUME NEW f \in Calls \ {c}, Ahead(c)', Ahead(f)'
        PROVE  \/ EndsBefore(k.seen, call[f].req.at)
               \/ EndsBefore(call[f].seen, d)
    <3>1. Ahead(f)
      BY <1>c, <2>1 DEF Ahead
    <3>2. CASE Ahead(c) /\ k.seen = call[c].seen
      BY <1>u, <3>1, <3>2 DEF IInv, OneAfterTheOther
    <3>3. CASE k.seen = series
      BY <1>u, <3>1, <3>3 DEF IInv, EndedBefore
    <3> QED BY <1>a, <2>1, <3>2, <3>3
  <2>2. CASE b # c /\ e # c
    BY <1>c, <1>u, <2>2 DEF Ahead, IInv, OneAfterTheOther
  <2>3. CASE b = c
    BY <1>c, <2>1, <2>3
  <2>4. CASE e = c
    BY <1>c, <2>1, <2>4
  <2> QED BY <2>2, <2>3, <2>4
<1>7. ForcedOnce'
  <2> SUFFICES ASSUME NEW b \in Calls, call'[b].req.force, call'[b].cut
               PROVE  call'[b].pc \in {"cut", "insert", "done"}
    BY DEF ForcedOnce
  <2>1. CASE b # c
    BY <1>c, <2>1 DEF IInv, ForcedOnce
  <2>2. CASE b = c /\ Passes(c, k)
    <3>1. call[c].req.force /\ call[c].cut
      BY <1>c, <2>2 DEF Passes
    <3>2. call[c].pc \in {"cut", "insert", "done"}
      BY <3>1 DEF IInv, ForcedOnce
    <3> QED BY <1>c, <2>2, <3>1, <3>2 DEF Passes
  <2>3. CASE b = c /\ (PlansCut(c, k) \/ Truncates(c, k) \/ Unsures(c, k) \/ Inserts(c, k))
    BY <1>c, <2>3 DEF PlansCut, Truncates, Unsures, Inserts
  <2> QED BY <2>1, <2>2, <2>3 DEF Steps
<1>8. CutLeadsOn'
  <2> SUFFICES ASSUME NEW b \in Calls, call'[b].req.op = "split", call'[b].cut,
                      ~call'[b].unsure
               PROVE  \/ call'[b].pc = "insert"
                      \/ /\ call'[b].pc = "done"
                         /\ made'[b] = 1 \/ call'[b].outcome = "ambiguous"
    BY DEF CutLeadsOn
  <2>1. CASE b # c
    BY <1>c, <2>1 DEF IInv, CutLeadsOn
  <2>2. CASE b = c /\ (Passes(c, k) \/ PlansCut(c, k))
    BY <1>c, <2>2 DEF Passes, PlansCut, IInv, CutLeadsOn
  <2>3. CASE b = c /\ (Truncates(c, k) \/ Unsures(c, k))
    BY <1>c, <2>3 DEF Truncates, Unsures
  <2>4. CASE b = c /\ Inserts(c, k)
    BY <1>c, <1>t, <2>4 DEF Inserts
  <2> QED BY <2>1, <2>2, <2>3, <2>4 DEF Steps
<1>9. MadeAtTheEnd'
  <2> SUFFICES ASSUME NEW b \in Calls
               PROVE  made'[b] \in {0, 1} /\ (made'[b] > 0 => call'[b].pc = "done")
    BY DEF MadeAtTheEnd
  <2>1. CASE b # c
    BY <1>c, <2>1 DEF IInv, MadeAtTheEnd
  <2>2. CASE b = c
    BY <1>c, <1>t, <2>2 DEF Steps, Passes, PlansCut, Truncates, Unsures, Inserts
  <2> QED BY <2>1, <2>2
<1> QED BY <1>1, <1>2, <1>3, <1>4, <1>5, <1>6, <1>7, <1>8, <1>9 DEF IInv

\* And by somebody else's change.
LEMMA EditStep ==
    ASSUME TypeOK, IInv, Edit
    PROVE  TypeOK' /\ IInv'
<1>t. series \in Series /\ call \in [Calls -> CallState] /\ edits \in 0 .. MaxEdits
      /\ \A b \in Calls : call[b].req.at \in Dates /\ call[b].seen \in Series
  BY CallType DEF TypeOK, CallState, Outcomes
<1>v. series.ver \in Nat /\ \A b \in Calls : call[b].seen.ver \in Nat
  BY <1>t, SeriesNumbers
<1>e. call' = call /\ made' = made /\ edits' \in 0 .. MaxEdits
  BY <1>t, SplitAssumption DEF Edit
<1>s. Shrinks(series, series')
  BY <1>t, EditShrinks DEF Edit
<1>w. /\ series' \in Series /\ series'.ver = series.ver + 1
      /\ series'.rule.unknown = series.rule.unknown
  BY <1>s DEF Shrinks, Renewed
<1>u. Unforced' => Unforced
  BY <1>e DEF Unforced
<1>1. TypeOK'
  BY <1>e, <1>w DEF TypeOK
<1>2. ReadsOld'
  BY <1>e, <1>v, <1>w DEF IInv, ReadsOld
<1>3. SameUnknown'
  BY <1>e, <1>w DEF IInv, SameUnknown
<1>4. EndedBefore'
  BY <1>t, <1>e, <1>s, <1>u, StillEndsBefore DEF IInv, EndedBefore, Ahead
<1>5. OneAfterTheOther'
  BY <1>e, <1>u DEF IInv, OneAfterTheOther, Ahead
<1>6. Planned' /\ Splittable' /\ ForcedOnce' /\ CutLeadsOn' /\ MadeAtTheEnd'
  BY <1>e DEF IInv, Planned, Splittable, ForcedOnce, CutLeadsOn, MadeAtTheEnd, Ahead
<1> QED BY <1>1, <1>2, <1>3, <1>4, <1>5, <1>6 DEF IInv

\* Every step keeps the types and the invariant.
LEMMA NextInv == ASSUME TypeOK, IInv, [Next]_vars PROVE TypeOK' /\ IInv'
<1>1. ASSUME NEW c \in Calls, Start(c) \/ Try(c) \/ Truncate(c) \/ Insert(c)
      PROVE  TypeOK' /\ IInv'
  <2>1. PICK k : Steps(c, k)
    BY <1>1, CallSteps
  <2> QED BY <2>1, TypeStep, InvStep
<1>2. CASE Edit
  BY <1>2, EditStep
<1>3. CASE UNCHANGED vars
  BY <1>3 DEF vars, TypeOK, IInv, ReadsOld, SameUnknown, Planned, Splittable,
              EndedBefore, OneAfterTheOther, ForcedOnce, CutLeadsOn, MadeAtTheEnd,
              Ahead, Unforced
<1> QED BY <1>1, <1>2, <1>3 DEF Next

-----------------------------------------------------------------------------
(* The theorems.                                                           *)

\* The types are right and the invariant holds, always.
THEOREM Soundness == Spec => [](TypeOK /\ IInv)
<1>1. Init => TypeOK /\ IInv
  BY InitInv
<1>2. TypeOK /\ IInv /\ [Next]_vars => TypeOK' /\ IInv'
  BY NextInv
<1> QED BY <1>1, <1>2, PTL DEF Spec

\* Every variable has its type: rules, plans and counters stay in range.
THEOREM TypeCorrect == Spec => []TypeOK
BY Soundness, PTL

\* However many splits of one series follow each other, whatever becomes of
\* their answers and whoever else changes the series, no date is on two of
\* the series they leave, unless a truncate was forced or the rule has parts
\* this server does not read; and each split makes one event at most.
THEOREM NothingTwice == Spec => []NothingDuplicated
<1>1. TypeOK /\ IInv => NothingDuplicated
  <2> SUFFICES ASSUME TypeOK, IInv, NEW c \in Splits
      PROVE  LET rest == Occurrences(Body(c)) IN
             /\ made[c] = 1
             /\ Unforced /\ ReadWhole(series.rule) =>
                /\ rest \intersect Occurrences(series) = {}
                /\ \A e \in Splits \ {c} :
                    rest \intersect Occurrences(Body(e)) = {}
    BY DEF NothingDuplicated
  <2>0. made[c] = 1
    BY DEF IInv, MadeAtTheEnd, Splits
  <2> SUFFICES ASSUME Unforced, ReadWhole(series.rule)
               PROVE  LET rest == Occurrences(Body(c)) IN
                      /\ rest \intersect Occurrences(series) = {}
                      /\ \A e \in Splits \ {c} :
                            rest \intersect Occurrences(Body(e)) = {}
    BY <2>0
  <2>1. ASSUME NEW b \in Splits
        PROVE  /\ b \in Calls /\ Ahead(b)
               /\ call[b].req.at \in Dates /\ call[b].seen \in Series
               /\ ReadWhole(call[b].seen.rule)
               /\ ~Unsplittable(call[b].seen, call[b].req.at)
               /\ EndsBefore(series, call[b].req.at)
               /\ \A x \in Occurrences(Body(b)) : x \in Nat /\ x >= call[b].req.at
    <3>1. b \in Calls /\ Ahead(b) /\ call[b].req.op = "split"
      BY DEF Splits, Ahead
    <3>2. call[b].req.at \in Dates /\ call[b].seen \in Series
      BY <3>1, CallType
    <3>3. Body(b) = Rest(call[b].seen, call[b].req.at)
      BY <3>1 DEF Body
    <3>4. ReadWhole(call[b].seen.rule)
      BY <3>1 DEF IInv, SameUnknown, ReadWhole
    <3> QED BY <3>1, <3>2, <3>3, <3>4, RestFrom DEF IInv, EndedBefore, Splittable
  <2>2. ASSUME NEW b \in Splits, NEW e \in Splits,
               EndsBefore(call[b].seen, call[e].req.at)
        PROVE  Occurrences(Body(b)) \intersect Occurrences(Body(e)) = {}
    <3>1. Body(b) = Rest(call[b].seen, call[b].req.at)
      BY DEF Splits, Body
    <3>2. \A x \in Occurrences(Body(b)) : x \in Nat /\ x < call[e].req.at
      BY <2>1, <2>2, <3>1, RestBefore
    <3>3. call[e].req.at \in Nat
      BY <2>1, DatesAreNumbers
    <3> QED BY <2>1, <3>2, <3>3
  <2>4. Occurrences(Body(c)) \intersect Occurrences(series) = {}
    <3>1. \A x \in Occurrences(series) : x \in Nat /\ x < call[c].req.at
      BY <2>1, SeriesBefore DEF TypeOK
    <3>2. call[c].req.at \in Nat
      BY <2>1, DatesAreNumbers
    <3> QED BY <2>1, <3>1, <3>2
  <2>5. ASSUME NEW e \in Splits \ {c}
        PROVE  Occurrences(Body(c)) \intersect Occurrences(Body(e)) = {}
    <3>1. \/ EndsBefore(call[c].seen, call[e].req.at)
          \/ EndsBefore(call[e].seen, call[c].req.at)
      BY <2>1 DEF IInv, OneAfterTheOther
    <3> QED BY <2>2, <3>1
  <2> QED BY <2>4, <2>5
<1> QED BY <1>1, Soundness, PTL

\* A split loses no date of its rule and adds none, with a COUNT, an UNTIL
\* or neither, and however long the rule, if this server reads all of it.
THEOREM RuleIsDivided == Spec => []RuleDividedExactly
<1>1. TypeOK /\ IInv => RuleDividedExactly
  <2> SUFFICES ASSUME TypeOK, IInv, NEW c \in Splits,
                      ReadWhole(call[c].seen.rule),
                      call[c].req.at \in Generated(call[c].seen.start, call[c].seen.rule)
      PROVE  Occurrences(Truncated(call[c].seen, call[c].req.at))
                \union Occurrences(Rest(call[c].seen, call[c].req.at))
                    = Generated(call[c].seen.start, call[c].seen.rule)
    BY DEF RuleDividedExactly
  <2>1. c \in Calls /\ Ahead(c)
    BY DEF Splits, Ahead
  <2>2. call[c].req.at \in Dates /\ call[c].seen \in Series
    BY <2>1, CallType
  <2>3. ~Unsplittable(call[c].seen, call[c].req.at)
    BY <2>1 DEF IInv, Splittable
  <2> QED BY <2>2, <2>3, RuleDivided
<1> QED BY <1>1, Soundness, PTL

\* A call that took the later dates away and made no new series for them
\* says so, if it got its truncate's answer: however often its truncate was
\* sent, and whatever others did between its tries.
THEOREM LossIsTold == Spec => []LostRestIsTold
<1>1. TypeOK /\ IInv => LostRestIsTold
  BY DEF IInv, CutLeadsOn, LostRestIsTold
<1> QED BY <1>1, Soundness, PTL
=============================================================================
