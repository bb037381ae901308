---------------------------- MODULE StatusProofs ----------------------------
(***************************************************************************)
(* Proofs about StatusEvents, for any calls, drafts, clocks and calendars, *)
(* and about the expansion of a recurrence rule that Recurrence models:    *)
(* that its candidates are the dates the rule names, in order, that the    *)
(* walk over them keeps the first of those asked for, and that the         *)
(* expansion is therefore the rule's (StatusEvents!ExpansionIsTheRule).    *)
(* From that: a change is warned of where it covers more than before.      *)
(***************************************************************************)
EXTENDS StatusEvents, FiniteSetTheorems, SequenceTheorems, WellFoundedInduction, TLAPS

-----------------------------------------------------------------------------
(* Counting and repeating.                                                 *)

\* Some numbers have a least one.
LEMMA LeastOf ==
    ASSUME NEW T \in SUBSET Nat, T # {}
    PROVE  \E x \in T : \A y \in T : x <= y
<1> DEFINE R == OpToRel(<, Nat)
<1>1. IsWellFoundedOn(R, Nat)
  BY NatLessThanWellFounded
<1>2. \A x, y \in Nat : <<x, y>> \in R <=> x < y
  BY DEF OpToRel
<1> HIDE DEF R
<1>3. PICK x \in T : \A y \in T : ~(<<y, x>> \in R)
  BY <1>1, WFMin
<1>4. \A y \in T : ~(y < x)
  BY <1>2, <1>3
<1>5. \A a, b \in Nat : ~(b < a) => a <= b
  OBVIOUS
<1> QED BY <1>4, <1>5

\* A set of numbers that holds 0, and with a number the next, holds them all.
LEMMA CountedUp ==
    ASSUME NEW X, 0 \in X, \A k \in Nat : k \in X => k + 1 \in X
    PROVE  \A n \in Nat : n \in X
<1> DEFINE T == {n \in Nat : n \notin X}
<1> SUFFICES ASSUME T # {} PROVE FALSE
  OBVIOUS
<1>1. PICK x \in T : \A y \in T : x <= y
  BY LeastOf
<1>2. x \in Nat /\ x # 0
  OBVIOUS
<1>3. x - 1 \in Nat /\ ~(x <= x - 1) /\ (x - 1) + 1 = x
  BY <1>2
<1>4. x - 1 \in X
  BY <1>1, <1>3
<1> QED BY <1>3, <1>4

\* A step that stays in a set can be taken any number of times.
Runs(S, base, step, n) ==
    \E g \in [0 .. n -> S] : g[0] = base /\ \A k \in 1 .. n : g[k] = step[k][g[k - 1]]

\* A loop of n such steps has its values, one after the other.
LEMMA Repeated ==
    ASSUME NEW S, NEW base \in S, NEW step \in [Nat -> [S -> S]], NEW n \in Nat
    PROVE  Runs(S, base, step, n)
<1> DEFINE Run(g, m) ==
        g \in [0 .. m -> S] /\ g[0] = base /\ \A k \in 1 .. m : g[k] = step[k][g[k - 1]]
           X == {m \in Nat : \E g : Run(g, m)}
<1>1. 0 \in X
  <2> DEFINE g == [i \in 0 .. 0 |-> base]
  <2>1. 0 .. 0 = {0} /\ 1 .. 0 = {}
    OBVIOUS
  <2>2. g \in [0 .. 0 -> S] /\ g[0] = base
    BY <2>1
  <2>3. Run(g, 0)
    BY <2>1, <2>2
  <2> QED BY <2>3
<1>2. \A k \in Nat : k \in X => k + 1 \in X
  <2> SUFFICES ASSUME NEW k \in Nat, NEW g, Run(g, k) PROVE \E h : Run(h, k + 1)
    <3> HIDE DEF Run
    <3> QED OBVIOUS
  <2> DEFINE next == step[k + 1][g[k]]
             h == [i \in 0 .. k + 1 |-> IF i = k + 1 THEN next ELSE g[i]]
  <2>1. k + 1 \in Nat /\ k \in 0 .. k /\ g[k] \in S
    OBVIOUS
  <2>2. next \in S
    BY <2>1
  <2>3. \A i \in 0 .. k : i # k + 1 /\ i \in 0 .. k + 1 /\ g[i] \in S
    OBVIOUS
  <2>4. h \in [0 .. k + 1 -> S] /\ \A i \in 0 .. k : h[i] = g[i]
    <3> HIDE DEF next
    <3>1. \A i \in 0 .. k + 1 : i # k + 1 => i \in 0 .. k
      OBVIOUS
    <3> QED BY <2>2, <2>3, <3>1
  <2>5. h[k + 1] = next
    OBVIOUS
  <2>6. \A i \in 1 .. k + 1 : h[i] = step[i][h[i - 1]]
    <3> SUFFICES ASSUME NEW i \in 1 .. k + 1 PROVE h[i] = step[i][h[i - 1]]
      OBVIOUS
    <3>1. i - 1 \in 0 .. k /\ h[i - 1] = g[i - 1]
      BY <2>4
    <3>2. CASE i = k + 1
      BY <2>5, <3>1, <3>2
    <3>3. CASE i # k + 1
      <4>1. i \in 1 .. k /\ i \in 0 .. k
        BY <3>3
      <4> QED BY <2>4, <3>1, <4>1
    <3> QED BY <3>2, <3>3
  <2>7. h[0] = base
    BY <2>4
  <2> HIDE DEF h
  <2> QED BY <2>4, <2>6, <2>7
<1> HIDE DEF X
<1>3. n \in X
  BY <1>1, <1>2, CountedUp
<1> QED BY <1>3 DEF X, Runs

\* A whole quotient, and products in order.
LEMMA Quotient ==
    ASSUME NEW a \in Nat, NEW b \in Nat \ {0}
    PROVE  /\ a \div b \in Nat
           /\ (a \div b) * b <= a /\ a < (a \div b) * b + b
OBVIOUS

\* A product keeps the order of its factors.
LEMMA Products ==
    ASSUME NEW x \in Int, NEW y \in Int, NEW b \in Nat, x <= y
    PROVE  x * b \in Int /\ y * b \in Int /\ x * b <= y * b
<1>1. y - x \in Nat
  OBVIOUS
<1>2. (y - x) * b >= 0
  BY <1>1
<1>3. (y - x) * b = y * b - x * b
  BY <1>1
<1>4. x * b \in Int /\ y * b \in Int
  OBVIOUS
<1> QED BY <1>2, <1>3, <1>4

-----------------------------------------------------------------------------
(* Sequences.                                                              *)

\* What is put at the end is one element more.
LEMMA Appended ==
    ASSUME NEW S, NEW s \in Seq(S), NEW x \in S
    PROVE  /\ Append(s, x) \in Seq(S) /\ Append(s, x) # <<>> /\ Last(Append(s, x)) = x
           /\ ToSet(Append(s, x)) = ToSet(s) \union {x}
<1> DEFINE m == Len(s)
           u == Append(s, x)
<1>1. /\ m \in Nat /\ DOMAIN s = 1 .. m /\ u \in Seq(S) /\ Len(u) = m + 1
      /\ (\A i \in 1 .. m : u[i] = s[i]) /\ u[m + 1] = x
  OBVIOUS
<1>2. DOMAIN u = 1 .. m + 1 /\ 1 .. m + 1 = (1 .. m) \union {m + 1}
  BY <1>1
<1>3. u # <<>>
  BY <1>1
<1> HIDE DEF m, u
<1>4. ToSet(u) = ToSet(s) \union {x}
  BY <1>1, <1>2 DEF ToSet
<1>5. Last(u) = x
  BY <1>1 DEF Last
<1> QED BY <1>1, <1>3, <1>4, <1>5 DEF u

\* The elements of two sequences, one behind the other, are those of both.
LEMMA Behind ==
    ASSUME NEW S, NEW s \in Seq(S), NEW t \in Seq(S)
    PROVE  s \o t \in Seq(S) /\ ToSet(s \o t) = ToSet(s) \union ToSet(t)
<1> DEFINE u == s \o t
<1>1. /\ u \in Seq(S) /\ Len(u) = Len(s) + Len(t)
      /\ \A i \in 1 .. Len(s) + Len(t) : u[i] = IF i <= Len(s) THEN s[i] ELSE t[i - Len(s)]
  BY ConcatProperties
<1> HIDE DEF u
<1>2. /\ Len(s) \in Nat /\ Len(t) \in Nat /\ DOMAIN s = 1 .. Len(s) /\ DOMAIN t = 1 .. Len(t)
      /\ DOMAIN u = 1 .. Len(s) + Len(t)
  BY <1>1
<1>3. ToSet(u) \subseteq ToSet(s) \union ToSet(t)
  <2> SUFFICES ASSUME NEW i \in 1 .. Len(s) + Len(t) PROVE u[i] \in ToSet(s) \union ToSet(t)
    BY <1>2 DEF ToSet
  <2>1. CASE i <= Len(s)
    BY <1>1, <1>2, <2>1 DEF ToSet
  <2>2. CASE i > Len(s)
    <3>1. i - Len(s) \in 1 .. Len(t) /\ u[i] = t[i - Len(s)]
      BY <1>1, <1>2, <2>2
    <3> QED BY <1>2, <3>1 DEF ToSet
  <2> QED BY <1>2, <2>1, <2>2
<1>4. ToSet(s) \subseteq ToSet(u)
  <2>1. \A i \in 1 .. Len(s) : i \in 1 .. Len(s) + Len(t) /\ u[i] = s[i]
    BY <1>1, <1>2
  <2> QED BY <1>2, <2>1 DEF ToSet
<1>5. ToSet(t) \subseteq ToSet(u)
  <2>1. \A j \in 1 .. Len(t) : Len(s) + j \in 1 .. Len(s) + Len(t) /\ u[Len(s) + j] = t[j]
    <3> TAKE j \in 1 .. Len(t)
    <3>1. Len(s) + j \in 1 .. Len(s) + Len(t) /\ ~(Len(s) + j <= Len(s)) /\ (Len(s) + j) - Len(s) = j
      BY <1>2
    <3> QED BY <1>1, <3>1
  <2> QED BY <1>2, <2>1 DEF ToSet
<1> QED BY <1>1, <1>3, <1>4, <1>5 DEF u

\* Flattening puts one part behind the other.
Flattens(ss, flat) ==
    /\ FlattenSeq(ss) = flat[Len(ss)]
    /\ \A i \in 1 .. Len(ss) : flat[i] = IF i = 1 THEN ss[i] ELSE flat[i - 1] \o ss[i]

\* A flattened sequence is reached so, from the empty one.
LEMMA FlattenSteps ==
    ASSUME NEW S, NEW ss \in Seq(Seq(S)), Len(ss) # 0
    PROVE  \E flat : Flattens(ss, flat)
<1> DEFINE N == Len(ss)
           E(g) == g = [i \in 1 .. N |-> IF i = 1 THEN ss[i] ELSE g[i - 1] \o ss[i]]
           flat == CHOOSE g : E(g)
           T == Seq(S)
           none == <<>>
           step == [k \in Nat |-> [x \in T |-> IF k \in 1 .. N THEN x \o ss[k] ELSE x]]
<1>1. N \in Nat /\ DOMAIN ss = 1 .. N /\ \A i \in 1 .. N : ss[i] \in Seq(S)
  OBVIOUS
<1>2. FlattenSeq(ss) = flat[N]
  BY DEF FlattenSeq
<1>3. none \in T /\ step \in [Nat -> [T -> T]]
  BY <1>1
<1>4. \A k \in 1 .. N, x \in T : step[k][x] = x \o ss[k]
  BY <1>1
<1>5. \A x \in T : none \o x = x
  BY ConcatEmptySeq
<1> HIDE DEF step, none, T
<1>6. \E g : E(g)
  <2>1. Runs(T, none, step, N)
    BY <1>1, <1>3, Repeated
  <2>2. PICK g \in [0 .. N -> T] : g[0] = none /\ \A k \in 1 .. N : g[k] = step[k][g[k - 1]]
    BY <2>1 DEF Runs
  <2> DEFINE h == [i \in 1 .. N |-> g[i]]
  <2>3. \A i \in 1 .. N : i - 1 \in 0 .. N /\ g[i] = g[i - 1] \o ss[i]
    <3> TAKE i \in 1 .. N
    <3>1. i - 1 \in 0 .. N
      BY <1>1
    <3>2. g[i - 1] \in T
      BY <2>2, <3>1
    <3> QED BY <1>4, <2>2, <3>1, <3>2
  <2>4. \A i \in 1 .. N : i # 1 => i - 1 \in 1 .. N /\ h[i - 1] = g[i - 1]
    BY <1>1
  <2>5. 1 \in 1 .. N => g[1] = ss[1]
    <3> SUFFICES ASSUME 1 \in 1 .. N PROVE g[1] = ss[1]
      OBVIOUS
    <3>1. g[1] = g[0] \o ss[1]
      <4>1. 1 - 1 = 0
        OBVIOUS
      <4> QED BY <2>3, <4>1
    <3> QED BY <1>1, <1>5, <2>2, <3>1 DEF T
  <2>6. E(h)
    BY <2>3, <2>4, <2>5
  <2> QED BY <2>6
<1>7. E(flat)
  BY <1>6
<1> HIDE DEF flat, N
<1>8. \A i \in 1 .. N : flat[i] = IF i = 1 THEN ss[i] ELSE flat[i - 1] \o ss[i]
  BY <1>7
<1> QED BY <1>2, <1>8 DEF Flattens, N

\* Flattening keeps the elements of every part.
LEMMA FlattenedAre ==
    ASSUME NEW S, NEW ss \in Seq(Seq(S))
    PROVE  /\ FlattenSeq(ss) \in Seq(S)
           /\ ToSet(FlattenSeq(ss)) = UNION {ToSet(ss[i]) : i \in DOMAIN ss}
<1> DEFINE N == Len(ss)
<1>1. N \in Nat /\ DOMAIN ss = 1 .. N /\ \A i \in 1 .. N : ss[i] \in Seq(S)
  OBVIOUS
<1>2. CASE N = 0
  <2>1. FlattenSeq(ss) = ss /\ ss = <<>>
    BY <1>2 DEF FlattenSeq
  <2>2. ToSet(<<>>) = {} /\ UNION {ToSet(ss[i]) : i \in DOMAIN <<>>} = {}
    BY DEF ToSet
  <2> QED BY <2>1, <2>2
<1>3. CASE N # 0
  <2>1. PICK flat : Flattens(ss, flat)
    BY <1>3, FlattenSteps
  <2>2. /\ FlattenSeq(ss) = flat[N]
        /\ \A i \in 1 .. N : flat[i] = IF i = 1 THEN ss[i] ELSE flat[i - 1] \o ss[i]
    BY <2>1 DEF Flattens
  <2> HIDE DEF N
  <2> DEFINE Good(n) == /\ flat[n] \in Seq(S)
                        /\ ToSet(flat[n]) = UNION {ToSet(ss[i]) : i \in 1 .. n}
             X == {n \in Nat : n + 1 <= N => Good(n + 1)}
  <2>4. 0 \in X
    <3>1. 1 .. 1 = {1} /\ 0 + 1 = 1
      OBVIOUS
    <3>2. flat[1] = ss[1]
      BY <1>1, <1>3, <2>2
    <3> QED BY <1>1, <1>3, <3>1, <3>2
  <2>5. \A k \in Nat : k \in X => k + 1 \in X
    <3> SUFFICES ASSUME NEW k \in Nat, (k + 1) + 1 <= N, Good(k + 1) PROVE Good((k + 1) + 1)
      <4> HIDE DEF Good
      <4> QED BY <1>1
    <3> DEFINE m == (k + 1) + 1
    <3>1. m \in 1 .. N /\ m # 1 /\ m - 1 = k + 1 /\ 1 .. m = (1 .. k + 1) \union {m}
      BY <1>1
    <3>2. flat[m] = flat[k + 1] \o ss[m] /\ ss[m] \in Seq(S)
      BY <1>1, <2>2, <3>1
    <3>3. flat[m] \in Seq(S) /\ ToSet(flat[m]) = ToSet(flat[k + 1]) \union ToSet(ss[m])
      BY <3>2, Behind
    <3> HIDE DEF m
    <3> QED BY <3>1, <3>3 DEF m
  <2> HIDE DEF X
  <2>6. N - 1 \in X
    BY <1>1, <1>3, <2>4, <2>5, CountedUp
  <2>7. Good(N)
    <3>1. (N - 1) + 1 = N /\ N <= N
      BY <1>1
    <3>2. (N - 1) + 1 <= N => Good((N - 1) + 1)
      <4> HIDE DEF Good
      <4> QED BY <2>6 DEF X
    <3> HIDE DEF Good
    <3> QED BY <3>1, <3>2
  <2> QED BY <1>1, <2>2, <2>7
<1> QED BY <1>2, <1>3

\* A sequence has finitely many elements.
LEMMA SeqFinite ==
    ASSUME NEW S, NEW t \in Seq(S)
    PROVE  IsFiniteSet(ToSet(t))
<1>1. Len(t) \in Nat /\ DOMAIN t = 1 .. Len(t)
  OBVIOUS
<1> DEFINE f == [i \in 1 .. Len(t) |-> t[i]]
<1>2. f \in Surjection(1 .. Len(t), ToSet(t))
  BY <1>1 DEF Surjection, ToSet
<1> QED BY <1>1, <1>2, FS_Interval, FS_Surjection

-----------------------------------------------------------------------------
(* Places in a sequence, and sequences that rise.                          *)

\* A loop of n steps has its values.
Loops(S, base, step, n) ==
    \E g \in [0 .. n -> S] : g = [k \in 0 .. n |-> IF k = 0 THEN base ELSE step[k][g[k - 1]]]

\* A loop has its values from a base and steps of one set.
LEMMA LoopRuns ==
    ASSUME NEW S, NEW base \in S, NEW step \in [Nat -> [S -> S]], NEW n \in Nat
    PROVE  Loops(S, base, step, n)
<1>0. Runs(S, base, step, n)
  BY Repeated
<1>1. PICK g \in [0 .. n -> S] : g[0] = base /\ \A k \in 1 .. n : g[k] = step[k][g[k - 1]]
  BY <1>0 DEF Runs
<1>2. \A k \in 0 .. n : k = 0 \/ k \in 1 .. n
  OBVIOUS
<1>3. \A k \in 0 .. n : g[k] = IF k = 0 THEN base ELSE step[k][g[k - 1]]
  BY <1>1, <1>2
<1>4. g = [k \in 0 .. n |-> IF k = 0 THEN base ELSE step[k][g[k - 1]]]
  BY <1>3
<1> QED BY <1>4 DEF Loops

\* A sequence of numbers that does not go down, and one that goes up.
Rises(s) == \A i, j \in DOMAIN s : i < j => s[i] <= s[j]
Climbs(s) == \A i, j \in DOMAIN s : i < j => s[i] < s[j]

\* What is put at the end of numbers that rise, and is no smaller, rises.
LEMMA AppendRises ==
    ASSUME NEW S \in SUBSET Int, NEW s \in Seq(S), NEW x \in S, \A y \in ToSet(s) : y <= x
    PROVE  Rises(s) => Rises(Append(s, x))
<1> SUFFICES ASSUME Rises(s) PROVE Rises(Append(s, x))
  OBVIOUS
<1> DEFINE u == Append(s, x)
<1>1. /\ Len(s) \in Nat /\ DOMAIN s = 1 .. Len(s) /\ DOMAIN u = 1 .. Len(s) + 1
      /\ \A i \in 1 .. Len(s) : u[i] = s[i] /\ s[i] \in ToSet(s)
      /\ u[Len(s) + 1] = x
  BY DEF ToSet
<1> HIDE DEF u
<1>2. \A i \in DOMAIN u : i = Len(s) + 1 \/ i \in 1 .. Len(s)
  BY <1>1
<1>3. SUFFICES ASSUME NEW i \in DOMAIN u, NEW j \in DOMAIN u, i < j PROVE u[i] <= u[j]
  BY DEF Rises, u
<1>4. i \in 1 .. Len(s)
  BY <1>1, <1>3
<1>5. CASE j = Len(s) + 1
  BY <1>1, <1>4, <1>5
<1>6. CASE j \in 1 .. Len(s)
  BY <1>1, <1>3, <1>4, <1>6 DEF Rises
<1> QED BY <1>2, <1>5, <1>6

\* Kept: the elements that are in the set, in the order they had.
LEMMA KeptAre ==
    ASSUME NEW S \in SUBSET Int, NEW s \in Seq(S), NEW T
    PROVE  /\ Kept(s, T) \in Seq(S) /\ ToSet(Kept(s, T)) = ToSet(s) \intersect T
           /\ Rises(s) => Rises(Kept(s, T))
<1> DEFINE N == Len(s)
           E(g) == g = [n \in 0 .. N |->
                           IF n = 0 THEN <<>>
                           ELSE IF s[n] \in T THEN Append(g[n - 1], s[n]) ELSE g[n - 1]]
           kept == CHOOSE g : E(g)
<1>0. Kept(s, T) = kept[N]
  BY DEF Kept
<1>1. N \in Nat /\ DOMAIN s = 1 .. N /\ \A i \in 1 .. N : s[i] \in S
  OBVIOUS
<1>2. \E g : E(g)
  <2> DEFINE Q == Seq(S)
             none == <<>>
             step == [k \in Nat |-> [x \in Q |->
                         IF k \in 1 .. N /\ s[k] \in T THEN Append(x, s[k]) ELSE x]]
  <2>1. none \in Q /\ step \in [Nat -> [Q -> Q]]
    BY <1>1
  <2>2. \A k \in 1 .. N, x \in Q : step[k][x] = IF s[k] \in T THEN Append(x, s[k]) ELSE x
    BY <1>1
  <2> HIDE DEF step, none, Q
  <2> HIDE DEF E, N
  <2>7. Loops(Q, none, step, N)
    BY <1>1, <2>1, LoopRuns
  <2>3. PICK g \in [0 .. N -> Q] :
            g = [k \in 0 .. N |-> IF k = 0 THEN none ELSE step[k][g[k - 1]]]
    BY <2>7 DEF Loops
  <2>4. \A k \in 0 .. N : k # 0 => k \in 1 .. N /\ k - 1 \in 0 .. N
    BY <1>1
  <2>5. \A k \in 0 .. N : g[k] = IF k = 0 THEN none
                                ELSE IF s[k] \in T THEN Append(g[k - 1], s[k]) ELSE g[k - 1]
    BY <2>2, <2>3, <2>4
  <2>6. E(g)
    BY <2>3, <2>5 DEF none, E
  <2> QED BY <2>6
<1>3. E(kept)
  BY <1>2
<1> HIDE DEF kept, N
<1>4. /\ kept[0] = <<>>
      /\ \A n \in 1 .. N : kept[n] = IF s[n] \in T THEN Append(kept[n - 1], s[n]) ELSE kept[n - 1]
  <2>1. 0 \in 0 .. N /\ \A n \in 1 .. N : n \in 0 .. N /\ n # 0
    BY <1>1
  <2>2. \A n \in 0 .. N : kept[n] = IF n = 0 THEN <<>>
                          ELSE IF s[n] \in T THEN Append(kept[n - 1], s[n]) ELSE kept[n - 1]
    BY <1>3
  <2> QED BY <2>1, <2>2
<1> DEFINE Good(n) == /\ kept[n] \in Seq(S)
                      /\ ToSet(kept[n]) = {s[i] : i \in 1 .. n} \intersect T
                      /\ Rises(s) => Rises(kept[n])
           X == {n \in Nat : n <= N => Good(n)}
<1>5. 0 \in X
  <2>1. ToSet(<<>>) = {} /\ <<>> \in Seq(S) /\ Rises(<<>>) /\ 1 .. 0 = {}
    BY DEF ToSet, Rises
  <2> QED BY <1>4, <2>1
<1>6. \A k \in Nat : k \in X => k + 1 \in X
  <2> SUFFICES ASSUME NEW k \in Nat, k + 1 <= N, Good(k) PROVE Good(k + 1)
    <3> HIDE DEF Good
    <3> QED BY <1>1
  <2>1. k + 1 \in 1 .. N /\ (k + 1) - 1 = k /\ s[k + 1] \in S /\ 1 .. k + 1 = (1 .. k) \union {k + 1}
    BY <1>1
  <2>2. CASE s[k + 1] \notin T
    <3>1. kept[k + 1] = kept[k]
      BY <1>4, <2>1, <2>2
    <3>2. {s[i] : i \in 1 .. k + 1} \intersect T = {s[i] : i \in 1 .. k} \intersect T
      BY <2>1, <2>2
    <3> QED BY <3>1, <3>2
  <2>3. CASE s[k + 1] \in T
    <3>1. kept[k + 1] = Append(kept[k], s[k + 1])
      BY <1>4, <2>1, <2>3
    <3> DEFINE old == kept[k]
               new == kept[k + 1]
               x == s[k + 1]
    <3>2. old \in Seq(S) /\ x \in S /\ new = Append(old, x)
      BY <2>1, <3>1
    <3>3. new \in Seq(S) /\ ToSet(new) = ToSet(old) \union {x}
      <4> HIDE DEF old, new, x
      <4> QED BY <3>2, Appended
    <3>4. ToSet(new) = {s[i] : i \in 1 .. k + 1} \intersect T
      BY <2>1, <2>3, <3>3
    <3>5. Rises(s) => \A y \in ToSet(old) : y <= x
      <4> SUFFICES ASSUME Rises(s), NEW y \in ToSet(old) PROVE y <= x
        OBVIOUS
      <4>1. PICK i \in 1 .. k : y = s[i]
        OBVIOUS
      <4>2. i \in DOMAIN s /\ k + 1 \in DOMAIN s /\ i < k + 1
        BY <1>1, <2>1
      <4> QED BY <4>1, <4>2 DEF Rises
    <3>6. Rises(s) => Rises(new)
      <4>1. Rises(s) => Rises(old)
        OBVIOUS
      <4> HIDE DEF old, new, x
      <4> QED BY <3>2, <3>5, <4>1, AppendRises
    <3> QED BY <3>3, <3>4, <3>6
  <2> QED BY <2>2, <2>3
<1> HIDE DEF X
<1>7. N \in X
  BY <1>1, <1>5, <1>6, CountedUp
<1>8. Good(N)
  <2> HIDE DEF Good
  <2> QED BY <1>1, <1>7 DEF X
<1>9. ToSet(s) = {s[i] : i \in 1 .. N}
  BY <1>1 DEF ToSet
<1> QED BY <1>0, <1>8, <1>9

\* Each place of a sequence has its own number of places ahead of it.
LEMMA Ranked ==
    ASSUME NEW s \in Seq(Int)
    PROVE  /\ \A i \in 1 .. Len(s) : Cardinality(Ahead(s, i)) \in 0 .. Len(s) - 1
           /\ \A i, j \in 1 .. Len(s) :
                  i \in Ahead(s, j) => Cardinality(Ahead(s, i)) < Cardinality(Ahead(s, j))
           /\ \A i, j \in 1 .. Len(s) : i # j => i \in Ahead(s, j) \/ j \in Ahead(s, i)
<1> DEFINE n == Len(s)
           I == 1 .. n
<1>1. n \in Nat /\ DOMAIN s = I /\ \A i \in I : s[i] \in Int
  OBVIOUS
<1>2. IsFiniteSet(I) /\ Cardinality(I) = n
  <2>1. \A m \in Nat : (IF 1 > m THEN 0 ELSE m - 1 + 1) = m
    OBVIOUS
  <2> HIDE DEF n
  <2> QED BY <1>1, <2>1, FS_Interval
<1> HIDE DEF n
<1>3. \A i, j \in I : j \in Ahead(s, i) <=> s[j] < s[i] \/ (s[j] = s[i] /\ j < i)
  BY <1>1 DEF Ahead
<1>4. \A i \in I : Ahead(s, i) \in SUBSET (I \ {i})
  BY <1>1 DEF Ahead
<1>5. \A i, j \in I : i # j => i \in Ahead(s, j) \/ j \in Ahead(s, i)
  BY <1>1, <1>3
<1>6. \A i, j, k \in I : i \in Ahead(s, j) /\ k \in Ahead(s, i) => k \in Ahead(s, j)
  BY <1>1, <1>3
<1>7. \A i \in I : IsFiniteSet(Ahead(s, i)) /\ Cardinality(Ahead(s, i)) \in Nat
                   /\ Cardinality(Ahead(s, i)) <= n - 1
  <2> TAKE i \in I
  <2> HIDE DEF I
  <2>1. IsFiniteSet(I \ {i}) /\ Cardinality(I \ {i}) = n - 1
    BY <1>2, FS_RemoveElement
  <2>2. IsFiniteSet(Ahead(s, i)) /\ Cardinality(Ahead(s, i)) <= n - 1
    BY <1>4, <2>1, FS_Subset
  <2> QED BY <2>2, FS_CardinalityType
<1>8. ASSUME NEW i \in I, NEW j \in I, i \in Ahead(s, j)
      PROVE  Cardinality(Ahead(s, i)) < Cardinality(Ahead(s, j))
  <2> DEFINE P == Ahead(s, i)
             Q == Ahead(s, j)
  <2>1. P \in SUBSET Q
    BY <1>4, <1>6, <1>8
  <2>2. i \in Q /\ i \notin P
    BY <1>4, <1>8
  <2>3. IsFiniteSet(Q) /\ Cardinality(P) \in Nat /\ Cardinality(Q) \in Nat
    BY <1>7
  <2> HIDE DEF P, Q
  <2>4. Cardinality(P) <= Cardinality(Q) /\ (Cardinality(Q) = Cardinality(P) => Q = P)
    BY <2>1, <2>3, FS_Subset
  <2>5. Cardinality(Q) # Cardinality(P)
    BY <2>2, <2>4
  <2>6. Cardinality(P) < Cardinality(Q)
    BY <2>3, <2>4, <2>5
  <2> QED BY <2>6 DEF P, Q
<1>9. \A a \in Nat : a <= n - 1 => a \in 0 .. n - 1
  BY <1>1
<1> QED BY <1>5, <1>7, <1>8, <1>9 DEF n

\* Ascending: the same numbers, as often, in order.
LEMMA AscendingIs ==
    ASSUME NEW S \in SUBSET Int, NEW s \in Seq(S)
    PROVE  /\ Ascending(s) \in Seq(S) /\ Len(Ascending(s)) = Len(s)
           /\ ToSet(Ascending(s)) = ToSet(s) /\ Rises(Ascending(s))
           /\ IsInjective(s) => Climbs(Ascending(s))
<1> DEFINE n == Len(s)
           I == 1 .. n
           rank(i) == Cardinality(Ahead(s, i))
           f == [i \in I |-> rank(i)]
           p == [k \in I |-> CHOOSE i \in I : rank(i) = k - 1]
           u == Ascending(s)
<1>1. n \in Nat /\ DOMAIN s = I /\ (\A i \in I : s[i] \in S) /\ s \in Seq(Int)
  <2>1. n \in Nat /\ DOMAIN s = I /\ \A i \in I : s[i] \in S
    OBVIOUS
  <2>2. s \in Seq(Int)
    BY SeqMonotonic
  <2> QED BY <2>1, <2>2
<1>2. /\ \A i \in I : rank(i) \in 0 .. n - 1
      /\ \A i, j \in I : i \in Ahead(s, j) => rank(i) < rank(j)
      /\ \A i, j \in I : i # j => i \in Ahead(s, j) \/ j \in Ahead(s, i)
  BY <1>1, Ranked
<1>3. u = [k \in I |-> s[p[k]]]
  BY DEF Ascending
<1>4. \A i, j \in I : i \in Ahead(s, j) <=> s[i] < s[j] \/ (s[i] = s[j] /\ i < j)
  BY <1>1 DEF Ahead
<1> HIDE DEF rank, n, u
<1>5. \A i, j \in I : rank(i) = rank(j) => i = j
  <2>1. \A a, b \in 0 .. n - 1 : a < b => a # b
    OBVIOUS
  <2> QED BY <1>2, <2>1
<1>6. \A k \in 0 .. n - 1 : \E i \in I : rank(i) = k
  <2>1. f \in [I -> 0 .. n - 1] /\ \A i \in I : f[i] = rank(i)
    BY <1>2
  <2> HIDE DEF f
  <2>2. f \in Injection(I, 0 .. n - 1)
    BY <1>5, <2>1 DEF Injection, IsInjective
  <2>3. /\ IsFiniteSet(0 .. n - 1) /\ Cardinality(0 .. n - 1) = n
        /\ IsFiniteSet(I) /\ Cardinality(I) = n
    <3>1. \A m \in Nat : /\ m - 1 \in Int /\ (IF 0 > m - 1 THEN 0 ELSE (m - 1) - 0 + 1) = m
                         /\ (IF 1 > m THEN 0 ELSE m - 1 + 1) = m
      OBVIOUS
    <3>2. \A a, b \in Int : IsFiniteSet(a .. b) /\ Cardinality(a .. b) = IF a > b THEN 0 ELSE b - a + 1
      BY FS_Interval
    <3> QED BY <1>1, <3>1, <3>2
  <2> HIDE DEF I
  <2>4. f \in Surjection(I, 0 .. n - 1)
    BY <2>2, <2>3, FS_Injection
  <2> QED BY <2>1, <2>4 DEF Surjection
<1>7. \A k \in I : p[k] \in I /\ rank(p[k]) = k - 1
  <2> TAKE k \in I
  <2>1. k - 1 \in 0 .. n - 1
    BY <1>1
  <2>2. \E i \in I : rank(i) = k - 1
    BY <1>6, <2>1
  <2> QED BY <2>2
<1> HIDE DEF p
<1>8. u \in Seq(S) /\ Len(u) = n /\ DOMAIN u = I
  <2>1. \A k \in I : s[p[k]] \in S
    BY <1>1, <1>7
  <2> QED BY <1>1, <1>3, <2>1
<1>9. \A i \in I : \E k \in I : p[k] = i
  <2> TAKE i \in I
  <2>1. rank(i) + 1 \in I /\ (rank(i) + 1) - 1 = rank(i)
    BY <1>1, <1>2
  <2> QED BY <1>5, <1>7, <2>1
<1>10. ToSet(u) = ToSet(s)
  <2>1. \A k \in I : u[k] = s[p[k]]
    BY <1>3
  <2> HIDE DEF I
  <2>2. \A x \in ToSet(u) : x \in ToSet(s)
    <3> SUFFICES ASSUME NEW k \in I PROVE u[k] \in ToSet(s)
      BY <1>8 DEF ToSet
    <3> QED BY <1>1, <1>7, <2>1 DEF ToSet
  <2>3. \A x \in ToSet(s) : x \in ToSet(u)
    <3> SUFFICES ASSUME NEW i \in I PROVE s[i] \in ToSet(u)
      BY <1>1 DEF ToSet
    <3>1. PICK k \in I : p[k] = i
      BY <1>9
    <3>2. u[k] = s[i] /\ k \in DOMAIN u
      BY <1>8, <2>1, <3>1
    <3> QED BY <3>2 DEF ToSet
  <2> QED BY <2>2, <2>3
<1>11. \A i, j \in I : i < j => p[i] \in Ahead(s, p[j])
  <2> SUFFICES ASSUME NEW i \in I, NEW j \in I, i < j PROVE p[i] \in Ahead(s, p[j])
    OBVIOUS
  <2>1. rank(p[i]) < rank(p[j]) /\ p[i] \in I /\ p[j] \in I
    BY <1>1, <1>7
  <2>2. p[i] # p[j] /\ ~(rank(p[j]) < rank(p[i]))
    BY <1>2, <2>1
  <2> QED BY <1>2, <2>1, <2>2
<1>12. \A i, j \in I : i < j => u[i] <= u[j] /\ (IsInjective(s) => u[i] < u[j])
  <2> SUFFICES ASSUME NEW i \in I, NEW j \in I, i < j
               PROVE  u[i] <= u[j] /\ (IsInjective(s) => u[i] < u[j])
    OBVIOUS
  <2>1. p[i] \in I /\ p[j] \in I /\ u[i] = s[p[i]] /\ u[j] = s[p[j]]
    BY <1>3, <1>7
  <2>2. s[p[i]] < s[p[j]] \/ (s[p[i]] = s[p[j]] /\ p[i] < p[j])
    BY <1>4, <1>11, <2>1
  <2>3. s[p[i]] \in Int /\ s[p[j]] \in Int
    BY <1>1, <2>1
  <2>4. IsInjective(s) /\ s[p[i]] = s[p[j]] => p[i] = p[j]
    BY <1>1, <2>1 DEF IsInjective
  <2> QED BY <2>1, <2>2, <2>3, <2>4
<1>13. Rises(u) /\ (IsInjective(s) => Climbs(u))
  BY <1>8, <1>12 DEF Rises, Climbs
<1> QED BY <1>8, <1>10, <1>13 DEF u, n

\* One rising sequence behind another, no lower one, rises.
LEMMA ConcatRises ==
    ASSUME NEW S \in SUBSET Int, NEW s \in Seq(S), NEW t \in Seq(S), Rises(s), Rises(t),
           \A x \in ToSet(s), y \in ToSet(t) : x <= y
    PROVE  Rises(s \o t)
<1> DEFINE u == s \o t
<1>1. /\ u \in Seq(S) /\ Len(u) = Len(s) + Len(t)
      /\ \A i \in 1 .. Len(s) + Len(t) : u[i] = IF i <= Len(s) THEN s[i] ELSE t[i - Len(s)]
  BY ConcatProperties
<1> HIDE DEF u
<1>2. /\ Len(s) \in Nat /\ Len(t) \in Nat /\ DOMAIN s = 1 .. Len(s) /\ DOMAIN t = 1 .. Len(t)
      /\ DOMAIN u = 1 .. Len(s) + Len(t)
  BY <1>1
<1>3. SUFFICES ASSUME NEW i \in DOMAIN u, NEW j \in DOMAIN u, i < j PROVE u[i] <= u[j]
  BY DEF Rises, u
<1>4. CASE j <= Len(s)
  <2>1. i \in DOMAIN s /\ j \in DOMAIN s /\ u[i] = s[i] /\ u[j] = s[j]
    BY <1>1, <1>2, <1>3, <1>4
  <2> QED BY <1>3, <2>1 DEF Rises
<1>5. CASE i > Len(s)
  <2>1. /\ i - Len(s) \in DOMAIN t /\ j - Len(s) \in DOMAIN t
        /\ u[i] = t[i - Len(s)] /\ u[j] = t[j - Len(s)] /\ i - Len(s) < j - Len(s)
    BY <1>1, <1>2, <1>3, <1>5
  <2> QED BY <2>1 DEF Rises
<1>6. CASE i <= Len(s) /\ j > Len(s)
  <2>1. i \in DOMAIN s /\ j - Len(s) \in DOMAIN t /\ u[i] = s[i] /\ u[j] = t[j - Len(s)]
    BY <1>1, <1>2, <1>3, <1>6
  <2>2. u[i] \in ToSet(s) /\ u[j] \in ToSet(t)
    BY <2>1 DEF ToSet
  <2> QED BY <2>2
<1>7. i \in Int /\ j \in Int
  BY <1>2
<1> QED BY <1>2, <1>4, <1>5, <1>6, <1>7

\* Rising parts, each no lower than the one before, flatten to what rises.
LEMMA FlattenedRises ==
    ASSUME NEW S \in SUBSET Int, NEW ss \in Seq(Seq(S)), \A i \in DOMAIN ss : Rises(ss[i]),
           \A i, j \in DOMAIN ss : i < j => \A x \in ToSet(ss[i]), y \in ToSet(ss[j]) : x <= y
    PROVE  Rises(FlattenSeq(ss))
<1> DEFINE N == Len(ss)
<1>1. N \in Nat /\ DOMAIN ss = 1 .. N /\ \A i \in 1 .. N : ss[i] \in Seq(S)
  OBVIOUS
<1>2. CASE N = 0
  <2>1. FlattenSeq(ss) = ss
    BY <1>2 DEF FlattenSeq
  <2> QED BY <1>1, <1>2, <2>1 DEF Rises
<1>3. CASE N # 0
  <2>1. PICK flat : Flattens(ss, flat)
    BY <1>3, FlattenSteps
  <2>2. /\ FlattenSeq(ss) = flat[N]
        /\ \A i \in 1 .. N : flat[i] = IF i = 1 THEN ss[i] ELSE flat[i - 1] \o ss[i]
    BY <2>1 DEF Flattens
  <2> HIDE DEF N
  <2> DEFINE Good(n) == /\ flat[n] \in Seq(S) /\ Rises(flat[n])
                        /\ ToSet(flat[n]) = UNION {ToSet(ss[i]) : i \in 1 .. n}
             X == {n \in Nat : n + 1 <= N => Good(n + 1)}
  <2>3. 0 \in X
    <3>1. 1 .. 1 = {1} /\ 0 + 1 = 1 /\ 1 \in 1 .. N
      BY <1>1, <1>3
    <3>2. flat[1] = ss[1]
      BY <2>2, <3>1
    <3>3. flat[1] \in Seq(S) /\ Rises(flat[1])
      BY <1>1, <3>1, <3>2
    <3>4. ToSet(flat[1]) = UNION {ToSet(ss[i]) : i \in 1 .. 1}
      BY <3>1, <3>2
    <3> QED BY <3>1, <3>3, <3>4
  <2>4. \A k \in Nat : k \in X => k + 1 \in X
    <3> SUFFICES ASSUME NEW k \in Nat, (k + 1) + 1 <= N, Good(k + 1) PROVE Good((k + 1) + 1)
      <4> HIDE DEF Good
      <4> QED BY <1>1
    <3> DEFINE m == (k + 1) + 1
    <3>1. m \in 1 .. N /\ m # 1 /\ m - 1 = k + 1 /\ 1 .. m = (1 .. k + 1) \union {m}
      BY <1>1
    <3>2. flat[m] = flat[k + 1] \o ss[m] /\ ss[m] \in Seq(S) /\ Rises(ss[m])
      BY <1>1, <2>2, <3>1
    <3>3. flat[m] \in Seq(S) /\ ToSet(flat[m]) = ToSet(flat[k + 1]) \union ToSet(ss[m])
      BY <3>2, Behind
    <3>4. \A x \in ToSet(flat[k + 1]), y \in ToSet(ss[m]) : x <= y
      <4> TAKE x \in ToSet(flat[k + 1]), y \in ToSet(ss[m])
      <4>1. PICK i \in 1 .. k + 1 : x \in ToSet(ss[i])
        OBVIOUS
      <4>2. i \in DOMAIN ss /\ m \in DOMAIN ss /\ i < m
        BY <1>1, <3>1
      <4> HIDE DEF m
      <4> QED BY <4>1, <4>2
    <3> HIDE DEF m
    <3>5. Rises(flat[m])
      BY <3>2, <3>4, ConcatRises
    <3>6. ToSet(flat[m]) = UNION {ToSet(ss[i]) : i \in 1 .. m}
      BY <3>1, <3>3
    <3> QED BY <3>3, <3>5, <3>6 DEF m
  <2> HIDE DEF X
  <2>5. N - 1 \in X
    <3>1. \A k \in Nat : k \in X
      BY <2>3, <2>4, CountedUp
    <3> QED BY <1>1, <1>3, <3>1
  <2>6. Rises(flat[N])
    <3>1. (N - 1) + 1 = N /\ N <= N
      BY <1>1
    <3>2. (N - 1) + 1 <= N => Good((N - 1) + 1)
      <4> HIDE DEF Good
      <4> QED BY <2>5 DEF X
    <3>3. Good(N)
      <4> HIDE DEF Good
      <4> QED BY <3>1, <3>2
    <3> QED BY <3>3
  <2> QED BY <2>2, <2>6
<1> QED BY <1>2, <1>3

\* As many different values as places.
FirstOnes(u, n) == {u[i] : i \in 1 .. n}

\* So many are finite, and counted by their places.
LEMMA Numbered ==
    ASSUME NEW n \in Nat, NEW u, \A i, j \in 1 .. n : u[i] = u[j] => i = j
    PROVE  IsFiniteSet(FirstOnes(u, n)) /\ Cardinality(FirstOnes(u, n)) = n
<1> DEFINE I == 1 .. n
           P == {u[i] : i \in I}
           f == [i \in I |-> u[i]]
<1>1. IsFiniteSet(I) /\ Cardinality(I) = n
  <2>1. \A m \in Nat : (IF 1 > m THEN 0 ELSE m - 1 + 1) = m
    OBVIOUS
  <2> QED BY <2>1, FS_Interval
<1>2. \A i, j \in I : u[i] = u[j] => i = j
  OBVIOUS
<1> HIDE DEF I
<1>3. f \in Surjection(I, P)
  BY DEF Surjection
<1>4. f \in Injection(I, P)
  BY <1>2 DEF Injection, IsInjective
<1> HIDE DEF f, P
<1>5. IsFiniteSet(P) /\ Cardinality(P) = Cardinality(I)
  BY <1>1, <1>3, <1>4, FS_Surjection
<1> QED BY <1>1, <1>5 DEF P, I, FirstOnes

\* A sequence that climbs tells how many of its numbers are up to each.
LEMMA Climbed ==
    ASSUME NEW u \in Seq(Int), Climbs(u)
    PROVE  /\ IsFiniteSet(ToSet(u)) /\ Cardinality(ToSet(u)) = Len(u)
           /\ \A i \in 1 .. Len(u) :
                /\ IsFiniteSet({x \in ToSet(u) : x <= u[i]})
                /\ Cardinality({x \in ToSet(u) : x <= u[i]}) = i
           /\ \A i, j \in 1 .. Len(u) : u[i] = u[j] => i = j
<1> DEFINE n == Len(u)
<1>1. n \in Nat /\ DOMAIN u = 1 .. n /\ \A i \in 1 .. n : u[i] \in Int
  OBVIOUS
<1> HIDE DEF n
<1>2. \A i, j \in 1 .. n : i < j => u[i] < u[j]
  BY <1>1 DEF Climbs
<1>3. \A i, j \in 1 .. n : u[i] = u[j] => i = j
  <2> SUFFICES ASSUME NEW i \in 1 .. n, NEW j \in 1 .. n, i # j PROVE u[i] # u[j]
    OBVIOUS
  <2>1. i < j \/ j < i
    BY <1>1
  <2>2. u[i] \in Int /\ u[j] \in Int
    BY <1>1
  <2> QED BY <1>2, <2>1, <2>2
<1>4. ToSet(u) = {u[i] : i \in 1 .. n}
  BY <1>1 DEF ToSet
<1>5. IsFiniteSet(ToSet(u)) /\ Cardinality(ToSet(u)) = n
  <2>1. IsFiniteSet(FirstOnes(u, n)) /\ Cardinality(FirstOnes(u, n)) = n
    BY <1>1, <1>3, Numbered
  <2> QED BY <1>4, <2>1 DEF FirstOnes
<1>6. ASSUME NEW i \in 1 .. n
      PROVE  /\ IsFiniteSet({x \in ToSet(u) : x <= u[i]})
             /\ Cardinality({x \in ToSet(u) : x <= u[i]}) = i
  <2>1. i \in Nat /\ \A k \in 1 .. i : k \in 1 .. n
    BY <1>1
  <2>2. \A k \in 1 .. n : u[k] <= u[i] <=> k \in 1 .. i
    <3> TAKE k \in 1 .. n
    <3>1. k < i \/ k = i \/ i < k
      BY <1>1
    <3>2. u[k] \in Int /\ u[i] \in Int
      BY <1>1
    <3>3. CASE k < i
      <4>1. k \in 1 .. i /\ u[k] < u[i]
        BY <1>1, <1>2, <3>3
      <4> QED BY <3>2, <4>1
    <3>4. CASE k = i
      BY <1>1, <3>2, <3>4
    <3>5. CASE i < k
      <4>1. k \notin 1 .. i /\ u[i] < u[k]
        BY <1>1, <1>2, <3>5
      <4> QED BY <3>2, <4>1
    <3> QED BY <3>1, <3>3, <3>4, <3>5
  <2>3. {x \in ToSet(u) : x <= u[i]} = {u[k] : k \in 1 .. i}
    BY <1>4, <2>1, <2>2
  <2>4. \A k, l \in 1 .. i : u[k] = u[l] => k = l
    BY <1>3, <2>1
  <2>5. IsFiniteSet(FirstOnes(u, i)) /\ Cardinality(FirstOnes(u, i)) = i
    BY <2>1, <2>4, Numbered
  <2> QED BY <2>3, <2>5 DEF FirstOnes
<1> QED BY <1>3, <1>5, <1>6 DEF n

\* Numbers that climb, and that nothing is missing among up to the limit,
\* are, up to the limit, the first of all.
LEMMA FirstsOf ==
    ASSUME NEW F \in SUBSET Int, IsFiniteSet(F), NEW u \in Seq(Int), Climbs(u), ToSet(u) \subseteq F,
           NEW limit \in Nat,
           \A y \in F \ ToSet(u) : Len(u) > limit /\ \A i \in 1 .. limit : u[i] < y
    PROVE  /\ AtMost(u, limit) = FirstIn(F, limit).at
           /\ (Len(u) > limit) = FirstIn(F, limit).truncated
<1> DEFINE n == Len(u)
           U == ToSet(u)
           c == Cardinality(F)
           k == IF c > limit THEN limit ELSE c
           upTo(m) == {x \in F : x <= m}
           place(m) == Cardinality(upTo(m))
<1>1. /\ n \in Nat /\ DOMAIN u = 1 .. n /\ u = [i \in 1 .. n |-> u[i]]
      /\ \A i \in 1 .. n : u[i] \in Int /\ u[i] \in U
  BY DEF ToSet
<1>2. /\ IsFiniteSet(U) /\ Cardinality(U) = n
      /\ \A i \in 1 .. n : Cardinality({x \in U : x <= u[i]}) = i
  BY Climbed
<1>3. c \in Nat /\ n <= c /\ (n = c => U = F)
  <2> HIDE DEF U, n
  <2>1. IsFiniteSet(F) => c \in Nat
    BY FS_CardinalityType
  <2>2. U \in SUBSET F
    BY DEF U
  <2>3. Cardinality(U) <= Cardinality(F) /\ (Cardinality(F) = Cardinality(U) => F = U)
    BY <2>2, FS_Subset
  <2> QED BY <1>2, <2>1, <2>3
<1>4. U = F => n = c
  BY <1>2
<1>5. U # F => n > limit
  OBVIOUS
<1>6. (n > limit) <=> (c > limit)
  BY <1>1, <1>3, <1>4, <1>5
<1>7. k \in Nat /\ k <= n /\ (U = F \/ k = limit) /\ k = IF n > limit THEN limit ELSE n
  BY <1>1, <1>3, <1>4, <1>5, <1>6
<1>8. FirstIn(F, limit).at = [i \in 1 .. k |-> CHOOSE m \in F : place(m) = i]
  BY DEF FirstIn
<1>9. FirstIn(F, limit).truncated = (c > limit)
  BY DEF FirstIn
<1>10. \A m \in F : IsFiniteSet(upTo(m)) /\ place(m) \in Nat
  <2> TAKE m \in F
  <2>1. upTo(m) \in SUBSET F
    OBVIOUS
  <2> HIDE DEF upTo
  <2>2. IsFiniteSet(upTo(m))
    BY <2>1, FS_Subset
  <2> QED BY <2>2, FS_CardinalityType
<1>11. \A i \in 1 .. k : u[i] \in F /\ place(u[i]) = i
  <2> TAKE i \in 1 .. k
  <2>1. i \in 1 .. n /\ u[i] \in U /\ u[i] \in Int
    BY <1>1, <1>7
  <2>2. \A x \in F : x <= u[i] => x \in U
    <3> SUFFICES ASSUME NEW x \in F, x <= u[i], x \notin U PROVE FALSE
      OBVIOUS
    <3>1. k = limit /\ u[i] < x
      BY <1>7
    <3> QED BY <2>1, <3>1
  <2>3. upTo(u[i]) = {x \in U : x <= u[i]}
    BY <2>2
  <2> QED BY <1>2, <2>1, <2>3
<1>12. \A l, m \in F : l < m => place(l) < place(m)
  <2> SUFFICES ASSUME NEW l \in F, NEW m \in F, l < m PROVE place(l) < place(m)
    OBVIOUS
  <2> DEFINE P == upTo(l)
             Q == upTo(m)
  <2>0. l \in Int /\ m \in Int /\ ~(m <= l) /\ m <= m
    OBVIOUS
  <2>1. P \in SUBSET Q /\ m \in Q /\ m \notin P
    <3>1. \A x \in F : x <= l => x <= m
      BY <2>0
    <3> QED BY <2>0, <3>1
  <2>2. IsFiniteSet(Q) /\ Cardinality(P) \in Nat /\ Cardinality(Q) \in Nat
    BY <1>10
  <2> HIDE DEF P, Q
  <2>3. Cardinality(P) <= Cardinality(Q) /\ (Cardinality(Q) = Cardinality(P) => Q = P)
    BY <2>1, <2>2, FS_Subset
  <2>4. Cardinality(P) < Cardinality(Q)
    BY <2>1, <2>2, <2>3
  <2> QED BY <2>4 DEF P, Q
<1> HIDE DEF place
<1>13. \A l, m \in F : place(l) = place(m) => l = m
  <2> SUFFICES ASSUME NEW l \in F, NEW m \in F, l # m PROVE place(l) # place(m)
    OBVIOUS
  <2>1. l < m \/ m < l
    OBVIOUS
  <2>2. place(l) \in Nat /\ place(m) \in Nat
    BY <1>10
  <2> QED BY <1>12, <2>1, <2>2
<1>14. \A i \in 1 .. k : (CHOOSE m \in F : place(m) = i) = u[i]
  BY <1>11, <1>13
<1> HIDE DEF k, n, c, U
<1>15. FirstIn(F, limit).at = [i \in 1 .. k |-> u[i]]
  BY <1>8, <1>14
<1>16. AtMost(u, limit) = [i \in 1 .. k |-> u[i]]
  <2>1. CASE n > limit
    <3>1. AtMost(u, limit) = SubSeq(u, 1, limit) /\ k = limit
      BY <1>7, <2>1 DEF AtMost, n
    <3>2. \A i \in 1 .. limit : u[i] \in Int
      BY <1>1, <2>1
    <3>3. /\ SubSeq(u, 1, limit) \in Seq(Int)
          /\ Len(SubSeq(u, 1, limit)) = IF 1 <= limit THEN limit - 1 + 1 ELSE 0
          /\ \A i \in 1 .. limit - 1 + 1 : SubSeq(u, 1, limit)[i] = u[1 + i - 1]
      BY <3>2, SubSeqProperties
    <3> DEFINE v == SubSeq(u, 1, limit)
    <3>4. v \in Seq(Int) /\ Len(v) = limit
      BY <3>3
    <3>5. \A i \in 1 .. limit : i \in 1 .. limit - 1 + 1 /\ 1 + i - 1 = i
      OBVIOUS
    <3>6. \A i \in 1 .. limit : v[i] = u[i]
      BY <3>3, <3>5
    <3> HIDE DEF v
    <3>7. v = [i \in 1 .. limit |-> u[i]]
      BY <3>4, <3>6
    <3> QED BY <3>1, <3>7 DEF v
  <2>2. CASE ~(n > limit)
    <3>1. AtMost(u, limit) = u /\ k = n
      BY <1>7, <2>2 DEF AtMost, n
    <3> QED BY <1>1, <3>1
  <2> QED BY <2>1, <2>2
<1> QED BY <1>6, <1>9, <1>15, <1>16 DEF n, c

-----------------------------------------------------------------------------
(* The calendar: months, days and weekdays.                                *)

Months == 0 .. Len(Lengths) - 1
Dates == 0 .. LastDate

\* The months follow each other, each as long as its length.
LEMMA FirstDays ==
    /\ Len(Lengths) \in Nat /\ \A m \in 1 .. Len(Lengths) : Lengths[m] \in Nat \ {0} /\ Lengths[m] >= Week
    /\ \A m \in 0 .. Len(Lengths) : FirstDay[m] \in Nat
    /\ FirstDay[0] = 0
    /\ \A m \in 1 .. Len(Lengths) : FirstDay[m] = FirstDay[m - 1] + Lengths[m]
    /\ LastDate \in Int
<1> DEFINE N == Len(Lengths)
           E(g) == g = [m \in 0 .. N |-> IF m = 0 THEN 0 ELSE g[m - 1] + Lengths[m]]
<1>1. N \in Nat /\ \A m \in 1 .. N : Lengths[m] \in Nat \ {0} /\ Lengths[m] >= Week
  BY CalendarAssumption DEF CalendarAssumption
<1> HIDE DEF N
<1>2. \E g : E(g)
  <2> DEFINE step == [k \in Nat |-> [x \in Nat |-> IF k \in 1 .. N THEN x + Lengths[k] ELSE x]]
  <2>1. 0 \in Nat /\ step \in [Nat -> [Nat -> Nat]]
    BY <1>1
  <2>2. \A k \in 1 .. N, x \in Nat : step[k][x] = x + Lengths[k]
    BY <1>1
  <2> HIDE DEF step
  <2>3. Loops(Nat, 0, step, N)
    BY <1>1, <2>1, LoopRuns
  <2>4. PICK g \in [0 .. N -> Nat] : g = [k \in 0 .. N |-> IF k = 0 THEN 0 ELSE step[k][g[k - 1]]]
    BY <2>3 DEF Loops
  <2>5. \A k \in 0 .. N : k # 0 => k \in 1 .. N /\ k - 1 \in 0 .. N /\ g[k - 1] \in Nat
    BY <1>1
  <2>6. \A k \in 0 .. N : g[k] = IF k = 0 THEN 0 ELSE g[k - 1] + Lengths[k]
    BY <2>2, <2>4, <2>5
  <2>7. g = [k \in 0 .. N |-> IF k = 0 THEN 0 ELSE g[k - 1] + Lengths[k]]
    BY <2>6
  <2> QED BY <2>7
<1>3. FirstDay = CHOOSE g : E(g)
  BY DEF FirstDay, N
<1>4. E(FirstDay)
  BY <1>2, <1>3
<1>5. FirstDay[0] = 0 /\ \A m \in 1 .. N : FirstDay[m] = FirstDay[m - 1] + Lengths[m]
  <2>1. 0 \in 0 .. N /\ \A m \in 1 .. N : m \in 0 .. N /\ m # 0
    BY <1>1
  <2>2. \A m \in 0 .. N : FirstDay[m] = IF m = 0 THEN 0 ELSE FirstDay[m - 1] + Lengths[m]
    BY <1>4
  <2> QED BY <2>1, <2>2
<1> DEFINE X == {m \in Nat : m <= N => FirstDay[m] \in Nat}
<1>6. 0 \in X
  BY <1>5
<1>7. \A k \in Nat : k \in X => k + 1 \in X
  <2> SUFFICES ASSUME NEW k \in Nat, k \in X, k + 1 <= N PROVE FirstDay[k + 1] \in Nat
    OBVIOUS
  <2>1. k + 1 \in 1 .. N /\ (k + 1) - 1 = k /\ FirstDay[k] \in Nat
    BY <1>1
  <2>2. FirstDay[k + 1] = FirstDay[k] + Lengths[k + 1]
    BY <1>5, <2>1
  <2> QED BY <1>1, <2>1, <2>2
<1> HIDE DEF X
<1>8. \A m \in Nat : m \in X
  BY <1>6, <1>7, CountedUp
<1>9. \A m \in 0 .. N : FirstDay[m] \in Nat
  BY <1>1, <1>8 DEF X
<1>10. LastDate \in Int
  <2>1. FirstDay[N] \in Nat
    BY <1>1, <1>9
  <2> QED BY <2>1 DEF LastDate, N
<1> QED BY <1>1, <1>5, <1>9, <1>10 DEF N

\* A later month begins later.
LEMMA MonthsApart ==
    \A l, m \in 0 .. Len(Lengths) : l < m => FirstDay[l] < FirstDay[m]
<1> DEFINE N == Len(Lengths)
           X == {k \in Nat : \A l, m \in 0 .. N : l < m /\ m <= k => FirstDay[l] < FirstDay[m]}
<1>1. /\ N \in Nat /\ \A m \in 1 .. N : Lengths[m] \in Nat \ {0}
      /\ \A m \in 0 .. N : FirstDay[m] \in Nat
      /\ \A m \in 1 .. N : FirstDay[m] = FirstDay[m - 1] + Lengths[m]
  BY FirstDays
<1> HIDE DEF N
<1>2. 0 \in X
  OBVIOUS
<1>3. \A k \in Nat : k \in X => k + 1 \in X
  <2> SUFFICES ASSUME NEW k \in Nat, k \in X, NEW l \in 0 .. N, NEW m \in 0 .. N, l < m, m <= k + 1
               PROVE  FirstDay[l] < FirstDay[m]
    OBVIOUS
  <2>1. CASE m <= k
    BY <2>1
  <2>2. CASE m = k + 1
    <3>1. m \in 1 .. N /\ m - 1 = k /\ k \in 0 .. N /\ (l < k \/ l = k)
      BY <1>1, <2>2
    <3>2. FirstDay[l] <= FirstDay[k]
      BY <1>1, <3>1
    <3>3. FirstDay[m] = FirstDay[k] + Lengths[m]
      BY <1>1, <3>1
    <3> QED BY <1>1, <3>1, <3>2, <3>3
  <2> QED BY <2>1, <2>2
<1> HIDE DEF X
<1>4. N \in X
  <2>1. \A k \in Nat : k \in X
    BY <1>2, <1>3, CountedUp
  <2> QED BY <1>1, <2>1
<1> QED BY <1>1, <1>4 DEF X, N

\* Every date is in one month.
LEMMA MonthIs ==
    /\ \A d \in Dates : /\ d \in Nat /\ MonthOf[d] \in Months
                        /\ FirstDay[MonthOf[d]] <= d /\ d < FirstDay[MonthOf[d] + 1]
    /\ \A d \in Int, m \in Months :
           FirstDay[m] <= d /\ d < FirstDay[m + 1] => d \in Dates /\ MonthOf[d] = m
<1> DEFINE N == Len(Lengths)
<1>1. /\ N \in Nat /\ \A m \in 0 .. N : FirstDay[m] \in Nat
      /\ FirstDay[0] = 0 /\ LastDate = FirstDay[N] - 1
  BY FirstDays DEF LastDate
<1>2. \A l, m \in 0 .. N : l < m => FirstDay[l] < FirstDay[m]
  BY MonthsApart
<1>3. Months = 0 .. N - 1
  BY DEF Months
<1> HIDE DEF N
<1>4. \A m \in Months : m \in 0 .. N /\ m + 1 \in 0 .. N /\ m \in Nat
  BY <1>1, <1>3
<1> DEFINE In(d, m) == FirstDay[m] <= d /\ d < FirstDay[m + 1]
<1>5. \A d \in Int, m \in Months : In(d, m) => d \in Dates
  <2> SUFFICES ASSUME NEW d \in Int, NEW m \in Months, In(d, m) PROVE d \in 0 .. LastDate
    BY DEF Dates
  <2>1. FirstDay[m] \in Nat /\ FirstDay[m + 1] \in Nat /\ FirstDay[N] \in Nat
    BY <1>1, <1>4
  <2>2. m + 1 < N \/ m + 1 = N
    BY <1>1, <1>3
  <2>3. FirstDay[m + 1] <= FirstDay[N]
    BY <1>1, <1>2, <1>4, <2>1, <2>2
  <2> QED BY <1>1, <2>1, <2>3
<1>6. \A d \in Int, l, m \in Months : In(d, l) /\ In(d, m) => l = m
  <2> SUFFICES ASSUME NEW d \in Int, NEW l \in Months, NEW m \in Months, In(d, l), In(d, m), l < m
               PROVE  FALSE
    BY <1>4
  <2>1. l + 1 < m \/ l + 1 = m
    BY <1>4
  <2>2. FirstDay[l + 1] <= FirstDay[m] /\ FirstDay[l + 1] \in Nat /\ FirstDay[m] \in Nat
    BY <1>1, <1>2, <1>4, <2>1
  <2> QED BY <2>2
<1>7. \A d \in Dates : d \in Nat /\ \E m \in Months : In(d, m)
  <2> SUFFICES ASSUME NEW d \in Nat, d < FirstDay[N] PROVE \E m \in Months : In(d, m)
    <3>1. \A d \in 0 .. LastDate : d \in Nat /\ d < FirstDay[N]
      BY <1>1
    <3> QED BY <3>1 DEF Dates
  <2> DEFINE T == {m \in 0 .. N : d < FirstDay[m]}
  <2>1. T \in SUBSET Nat /\ T # {}
    BY <1>1
  <2>2. PICK x \in T : \A y \in T : x <= y
    BY <2>1, LeastOf
  <2>3. x # 0 /\ x \in 0 .. N
    BY <1>1, <2>2
  <2>4. x - 1 \in Months /\ (x - 1) + 1 = x /\ x - 1 \in 0 .. N
    BY <1>1, <1>3, <2>3
  <2>5. ~(d < FirstDay[x - 1])
    BY <1>1, <2>2, <2>3, <2>4
  <2> QED BY <1>1, <2>2, <2>4, <2>5
<1>8. \A d \in Dates : MonthOf[d] = CHOOSE m \in Months : In(d, m)
  BY DEF MonthOf, Dates, Months
<1>9. \A d \in Dates : MonthOf[d] \in Months /\ In(d, MonthOf[d])
  <2> HIDE DEF In
  <2> QED BY <1>7, <1>8
<1>10. \A d \in Dates, m \in Months : In(d, m) => MonthOf[d] = m
  <2>1. \A d \in Dates : d \in Int
    BY <1>7
  <2> HIDE DEF In
  <2> QED BY <1>6, <1>9, <2>1
<1> QED BY <1>5, <1>7, <1>9, <1>10

\* A later date is in no earlier month.
LEMMA MonthsInOrder ==
    \A c, d \in Dates : c <= d => MonthOf[c] <= MonthOf[d]
<1>0. \A a, b \in Months : a <= b \/ b < a
  BY FirstDays DEF Months
<1> SUFFICES ASSUME NEW c \in Dates, NEW d \in Dates, c <= d, MonthOf[d] < MonthOf[c] PROVE FALSE
  BY <1>0, MonthIs
<1> DEFINE l == MonthOf[d]
           m == MonthOf[c]
<1>1. l \in Months /\ m \in Months /\ d < FirstDay[l + 1] /\ FirstDay[m] <= c /\ c \in Nat /\ d \in Nat
  BY MonthIs
<1>2. l < m
  OBVIOUS
<1> HIDE DEF l, m
<1>3. /\ l + 1 \in 0 .. Len(Lengths) /\ m \in 0 .. Len(Lengths) /\ (l + 1 < m \/ l + 1 = m)
      /\ FirstDay[l + 1] \in Nat /\ FirstDay[m] \in Nat
  BY <1>1, <1>2, FirstDays DEF Months
<1>4. FirstDay[l + 1] <= FirstDay[m]
  BY <1>3, MonthsApart
<1> QED BY <1>1, <1>3, <1>4

\* Division with a remainder.
LEMMA Divided ==
    ASSUME NEW a \in Int, NEW b \in Nat \ {0}
    PROVE  a \div b \in Int /\ a % b \in 0 .. b - 1 /\ a = (a \div b) * b + (a % b)
OBVIOUS

\* There is only one way to divide.
LEMMA DividedOnce ==
    ASSUME NEW a \in Int, NEW b \in Nat \ {0}, NEW q \in Int, NEW r \in 0 .. b - 1, a = q * b + r
    PROVE  a \div b = q /\ a % b = r
<1> DEFINE p == a \div b
           s == a % b
<1>1. p \in Int /\ s \in 0 .. b - 1 /\ p * b + s = q * b + r
  BY Divided
<1>2. \A x, y \in Int : x < y => x * b + b <= y * b
  <2> SUFFICES ASSUME NEW x \in Int, NEW y \in Int, x < y PROVE x * b + b <= y * b
    OBVIOUS
  <2>1. x + 1 \in Int /\ x + 1 <= y
    OBVIOUS
  <2>2. (x + 1) * b <= y * b
    BY <2>1, Products
  <2>3. (x + 1) * b = x * b + b
    OBVIOUS
  <2> QED BY <2>2, <2>3
<1> HIDE DEF p, s
<1>3. ~(p < q)
  <2> SUFFICES ASSUME p < q PROVE FALSE
    OBVIOUS
  <2>1. p * b + b <= q * b
    BY <1>1, <1>2
  <2> QED BY <1>1, <2>1
<1>4. ~(q < p)
  <2> SUFFICES ASSUME q < p PROVE FALSE
    OBVIOUS
  <2>1. q * b + b <= p * b
    BY <1>1, <1>2
  <2> QED BY <1>1, <2>1
<1>5. p = q
  BY <1>1, <1>3, <1>4
<1>6. s = r
  BY <1>1, <1>5
<1> QED BY <1>5, <1>6 DEF p, s

\* A number of whole weeks changes no weekday.
LEMMA SameRest ==
    ASSUME NEW a \in Int, NEW b \in Nat \ {0}, NEW q \in Int
    PROVE  (a + q * b) % b = a % b
<1> DEFINE p == a \div b
           r == a % b
<1>1. p \in Int /\ r \in 0 .. b - 1 /\ a = p * b + r
  BY Divided
<1> HIDE DEF p, r
<1>2. (p + q) * b = p * b + q * b /\ p * b \in Int /\ q * b \in Int
  BY <1>1
<1>3. a + q * b = (p + q) * b + r
  BY <1>1, <1>2
<1>4. p + q \in Int /\ a + q * b \in Int
  BY <1>1, <1>2
<1>5. (a + q * b) % b = r
  BY <1>1, <1>3, <1>4, DividedOnce
<1> QED BY <1>5 DEF r

\* A multiple: what leaves nothing.
LEMMA Multiple ==
    ASSUME NEW a \in Int, NEW b \in Nat \ {0}
    PROVE  /\ a % b = 0 => a = (a \div b) * b
           /\ \A q \in Int : a = q * b => a % b = 0 /\ a \div b = q
<1>1. a % b = 0 => a = (a \div b) * b
  <2> DEFINE p == (a \div b) * b
             r == a % b
  <2>1. p \in Int /\ a = p + r
    <3>1. a \div b \in Int /\ a = p + r
      BY Divided
    <3> QED BY <3>1
  <2> HIDE DEF p, r
  <2>2. r = 0 => a = p
    BY <2>1
  <2> QED BY <2>2 DEF p, r
<1>2. ASSUME NEW q \in Int, a = q * b PROVE a % b = 0 /\ a \div b = q
  <2>1. 0 \in 0 .. b - 1 /\ a = q * b + 0
    BY <1>2
  <2> QED BY <2>1, DividedOnce
<1> QED BY <1>1, <1>2

-----------------------------------------------------------------------------
(* The candidates of a daily and of a weekly rule.                         *)

\* Steps: the numbers from the first, one step apart, as many as asked for.
LEMMA Stepped ==
    ASSUME NEW first \in Int, NEW step \in Nat \ {0}, NEW n \in Int
    PROVE  /\ Steps(first, step, n) \in Seq(Int) /\ Rises(Steps(first, step, n))
           /\ \A x \in ToSet(Steps(first, step, n)) : first <= x
           /\ \A x \in Int : x \in ToSet(Steps(first, step, n))
                  <=> first <= x /\ (x - first) % step = 0 /\ (x - first) \div step < n
           /\ \A i, j \in DOMAIN Steps(first, step, n) :
                  i < j => Steps(first, step, n)[i] + step <= Steps(first, step, n)[j]
<1> DEFINE s == Steps(first, step, n)
<1>1. \A i \in 1 .. n : first + (i - 1) * step \in Int
  OBVIOUS
<1>2. DOMAIN s = 1 .. n /\ \A i \in 1 .. n : s[i] = first + (i - 1) * step /\ s[i] \in Int
  BY <1>1 DEF Steps
<1>3. s \in Seq(Int)
  <2>1. CASE n \in Nat
    <3>1. s \in [1 .. n -> Int]
      BY <1>1 DEF Steps
    <3> QED BY <2>1, <3>1, SeqDef
  <2>2. CASE n \notin Nat
    <3>1. 1 .. n = 1 .. 0
      BY <2>2
    <3>2. s \in [1 .. 0 -> Int]
      BY <1>1, <3>1 DEF Steps
    <3> QED BY <3>2, SeqDef
  <2> QED BY <2>1, <2>2
<1> HIDE DEF s
<1>4. \A i, j \in 1 .. n : i < j => s[i] + step <= s[j]
  <2> SUFFICES ASSUME NEW i \in 1 .. n, NEW j \in 1 .. n, i < j PROVE s[i] + step <= s[j]
    OBVIOUS
  <2>1. i - 1 \in Int /\ j - 1 \in Int /\ i \in Int /\ i <= j - 1
    OBVIOUS
  <2>2. i * step <= (j - 1) * step /\ i * step \in Int /\ (j - 1) * step \in Int
    BY <2>1, Products
  <2>3. i * step = (i - 1) * step + step /\ (i - 1) * step \in Int
    OBVIOUS
  <2> DEFINE p == i * step
             q == (j - 1) * step
             o == (i - 1) * step
  <2>4. s[i] = first + o /\ s[j] = first + q /\ p <= q /\ p = o + step /\ p \in Int /\ q \in Int /\ o \in Int
    BY <1>2, <2>2, <2>3
  <2> HIDE DEF p, q, o
  <2> QED BY <2>4
<1>5. ASSUME NEW x \in Int
      PROVE  x \in ToSet(s) <=> first <= x /\ (x - first) % step = 0 /\ (x - first) \div step < n
  <2>1. ASSUME NEW i \in 1 .. n, x = s[i]
        PROVE  first <= x /\ (x - first) % step = 0 /\ (x - first) \div step < n
    <3>1. x - first = (i - 1) * step /\ i - 1 \in Nat /\ x - first \in Int /\ i - 1 < n
      <4> DEFINE o == (i - 1) * step
      <4>1. o \in Int /\ x = first + o
        BY <1>2, <2>1
      <4> HIDE DEF o
      <4>2. x - first = o
        BY <4>1
      <4> QED BY <4>2 DEF o
    <3>2. (x - first) % step = 0 /\ (x - first) \div step = i - 1
      BY <3>1, Multiple
    <3>3. (i - 1) * step >= 0
      BY <3>1
    <3>4. x - first >= 0
      BY <3>1, <3>3
    <3> QED BY <3>1, <3>2, <3>4
  <2>2. ASSUME first <= x, (x - first) % step = 0, (x - first) \div step < n
        PROVE  \E i \in 1 .. n : x = s[i]
    <3> DEFINE q == (x - first) \div step
               a == x - first
    <3>1. a \in Nat /\ q \in Nat /\ a = q * step /\ q < n
      <4>1. a \in Nat /\ q \in Nat
        BY <2>2, Quotient
      <4> QED BY <2>2, <4>1, Multiple
    <3>2. q + 1 \in 1 .. n /\ (q + 1) - 1 = q
      BY <3>1
    <3>3. x = first + q * step
      <4> DEFINE o == q * step
      <4>1. x - first = o /\ o \in Int
        BY <3>1
      <4> HIDE DEF o
      <4>2. x = first + o
        BY <4>1
      <4> QED BY <4>2 DEF o
    <3> HIDE DEF q, a
    <3>4. s[q + 1] = first + q * step
      BY <1>2, <3>2
    <3> QED BY <3>2, <3>3, <3>4
  <2>3. x \in ToSet(s) <=> \E i \in 1 .. n : x = s[i]
    BY <1>2 DEF ToSet
  <2> QED BY <2>1, <2>2, <2>3
<1>6. \A x \in ToSet(s) : x \in Int /\ first <= x
  <2>1. \A x \in ToSet(s) : x \in Int
    BY <1>2 DEF ToSet
  <2> QED BY <1>5, <2>1
<1>7. Rises(s)
  <2>1. \A i, j \in 1 .. n : i < j => s[i] <= s[j]
    BY <1>2, <1>4
  <2> QED BY <1>2, <2>1 DEF Rises
<1> QED BY <1>2, <1>3, <1>4, <1>5, <1>6, <1>7 DEF s

\* A larger number holds another at least as often.
LEMMA Quotients ==
    ASSUME NEW a \in Nat, NEW b \in Nat, a <= b, NEW k \in Nat \ {0}
    PROVE  a \div k <= b \div k
<1> DEFINE p == a \div k
           q == b \div k
<1>1. p \in Nat /\ q \in Nat /\ p * k <= a /\ b < q * k + k /\ p * k \in Int /\ q * k \in Int
  BY Quotient
<1> HIDE DEF p, q
<1>2. ASSUME q < p PROVE q * k + k <= p * k
  <2>1. q + 1 \in Int /\ q + 1 <= p /\ p \in Int /\ k \in Nat
    BY <1>1, <1>2
  <2>2. (q + 1) * k <= p * k
    BY <2>1, Products
  <2>3. (q + 1) * k = q * k + k
    BY <1>1
  <2> QED BY <2>2, <2>3
<1> DEFINE pk == p * k
           qk == q * k
<1>3. pk \in Int /\ qk \in Int /\ pk <= a /\ b < qk + k /\ (q < p => qk + k <= pk)
  BY <1>1, <1>2
<1> HIDE DEF pk, qk
<1>4. p <= q
  BY <1>1, <1>3
<1> QED BY <1>4 DEF p, q

\* What a frequency's list of candidates is: dates from the start on, in
\* order, and of them those the rule matches are the ones RFC 5545 selects
\* in the periods the walk looks at.
Chosen(start, r, d) == InPeriod(start, r, d) /\ Selected(start, r, d) /\ LooksAt(start, r, d)
Lists(start, r, s) ==
    /\ s \in Seq(Int) /\ Rises(s) /\ ToSet(s) \subseteq start .. LastDate
    /\ \A d \in start .. LastDate : d \in ToSet(s) /\ RuleMatches(d, r) <=> Chosen(start, r, d)

\* The walk of each day.
LEMMA DailyLists ==
    ASSUME NEW start \in Dates, NEW r \in WrittenRules, r.freq = "DAILY"
    PROVE  Lists(start, r, Daily(start, r))
<1> DEFINE k == r.interval
           n == (LastDate - start) \div k + 1
           s == Steps(start, k, n)
           years == {d \in start .. LastDate : YearOf(d) <= LastYear(start)}
<1>1. start \in Nat /\ start <= LastDate /\ LastDate \in Int /\ k \in Nat \ {0}
  BY FirstDays DEF Dates, WrittenRules
<1>2. LastDate - start \in Nat /\ n \in Int
  <2>1. LastDate - start \in Nat
    BY <1>1
  <2> QED BY <1>1, <2>1, Quotient
<1>3. /\ s \in Seq(Int) /\ Rises(s)
      /\ \A x \in Int : x \in ToSet(s)
             <=> start <= x /\ (x - start) % k = 0 /\ (x - start) \div k < n
  <2>1. start \in Int /\ k \in Nat \ {0} /\ n \in Int
    BY <1>1, <1>2
  <2> HIDE DEF n, k
  <2> QED BY ONLY <2>1, Stepped, Zenon
<1>4. \A d \in start .. LastDate : (d - start) \div k < n
  <2>1. \A d \in start .. LastDate : d - start \in Nat /\ d - start <= LastDate - start
    BY <1>1
  <2>2. \A d \in start .. LastDate : (d - start) \div k <= (LastDate - start) \div k
    BY <1>1, <1>2, <2>1, Quotients
  <2>3. \A d \in start .. LastDate : (d - start) \div k \in Nat
    BY <1>1, <2>1, Quotient
  <2>4. (LastDate - start) \div k \in Nat
    BY <1>1, <1>2, Quotient
  <2> HIDE DEF k
  <2> QED BY <2>2, <2>3, <2>4
<1>5. Daily(start, r) = Kept(s, years)
  BY DEF Daily
<1>6. /\ Kept(s, years) \in Seq(Int) /\ ToSet(Kept(s, years)) = ToSet(s) \intersect years
      /\ Rises(Kept(s, years))
  <2> HIDE DEF s, years
  <2> QED BY <1>3, KeptAre
<1>7. \A d \in start .. LastDate :
          d \in ToSet(Daily(start, r)) <=> InPeriod(start, r, d) /\ LooksAt(start, r, d)
  <2> SUFFICES ASSUME NEW d \in start .. LastDate
               PROVE  d \in ToSet(Daily(start, r)) <=> InPeriod(start, r, d) /\ LooksAt(start, r, d)
    OBVIOUS
  <2>1. d \in Int /\ start <= d
    BY <1>1
  <2>2. d \in ToSet(s) <=> (d - start) % k = 0
    <3> HIDE DEF s, n, k
    <3> QED BY <1>3, <1>4, <2>1
  <2>3. InPeriod(start, r, d) <=> (d - start) % k = 0
    BY DEF InPeriod
  <2>4. LooksAt(start, r, d) <=> d \in years
    BY DEF LooksAt
  <2> HIDE DEF s, years, k
  <2> QED BY <1>5, <1>6, <2>2, <2>3, <2>4
<1>8. \A d \in start .. LastDate : RuleMatches(d, r) <=> Selected(start, r, d)
  <2> SUFFICES ASSUME NEW d \in start .. LastDate PROVE RuleMatches(d, r) <=> Selected(start, r, d)
    OBVIOUS
  <2>1. (\E i \in DOMAIN r.byDay : r.byDay[i].day = Weekday(d))
           <=> \E i \in DOMAIN r.byDay : Named(d, r, r.byDay[i])
    BY DEF Named
  <2>2. r.freq # "YEARLY" /\ r.freq # "MONTHLY" /\ r.freq # "WEEKLY" /\ r.freq = "DAILY"
    OBVIOUS
  <2> QED BY <2>1, <2>2 DEF RuleMatches, Selected
<1>9. ToSet(Daily(start, r)) \subseteq start .. LastDate
  <2>1. years \subseteq start .. LastDate
    OBVIOUS
  <2> HIDE DEF s, years
  <2> QED BY <1>5, <1>6, <2>1
<1> HIDE DEF s, years, k
<1> QED BY <1>5, <1>6, <1>7, <1>8, <1>9 DEF Lists, Chosen

\* The days of several weeks, one week after the other.
LEMMA WeeksOf ==
    ASSUME NEW weeks \in Seq(Int), NEW days \in Seq(0 .. Week - 1), Rises(days),
           \A i, j \in DOMAIN weeks : i < j => weeks[i] + Week <= weeks[j]
    PROVE  /\ OfWeeks(weeks, days) \in Seq(Int) /\ Rises(OfWeeks(weeks, days))
           /\ \A x : x \in ToSet(OfWeeks(weeks, days))
                  <=> \E w \in ToSet(weeks), o \in ToSet(days) : x = w + o
<1> DEFINE ss == [i \in DOMAIN weeks |-> WeekOn(weeks[i], days)]
<1>1. /\ Len(weeks) \in Nat /\ DOMAIN weeks = 1 .. Len(weeks)
      /\ Len(days) \in Nat /\ DOMAIN days = 1 .. Len(days)
      /\ \A i \in DOMAIN weeks : weeks[i] \in Int
      /\ \A i \in DOMAIN days : days[i] \in Int /\ 0 <= days[i] /\ days[i] < Week
      /\ Week \in Nat
  BY CalendarAssumption DEF CalendarAssumption
<1>2. \A w \in Int : WeekOn(w, days) \in Seq(Int)
  <2> SUFFICES ASSUME NEW w \in Int PROVE WeekOn(w, days) \in Seq(Int)
    OBVIOUS
  <2>1. WeekOn(w, days) \in [1 .. Len(days) -> Int]
    BY <1>1 DEF WeekOn
  <2>2. Len(days) \in Nat
    BY <1>1
  <2>3. \A n \in Nat : \A f \in [1 .. n -> Int] : f \in Seq(Int)
    BY SeqDef
  <2> QED BY ONLY <2>1, <2>2, <2>3
<1>3. \A w \in Int : DOMAIN WeekOn(w, days) = DOMAIN days
                     /\ \A i \in DOMAIN days : WeekOn(w, days)[i] = w + days[i]
  BY DEF WeekOn
<1>4. ss \in Seq(Seq(Int)) /\ DOMAIN ss = DOMAIN weeks
  <2>1. ss \in [1 .. Len(weeks) -> Seq(Int)]
    BY <1>1, <1>2
  <2> QED BY <1>1, <2>1, SeqDef
<1>5. \A i \in DOMAIN weeks : ss[i] = WeekOn(weeks[i], days)
  OBVIOUS
<1> HIDE DEF ss
<1>6. \A i \in DOMAIN ss : Rises(ss[i])
  <2> SUFFICES ASSUME NEW w \in Int, NEW i \in DOMAIN days, NEW j \in DOMAIN days, i < j
               PROVE  WeekOn(w, days)[i] <= WeekOn(w, days)[j]
    BY <1>1, <1>3, <1>4, <1>5 DEF Rises
  <2>1. days[i] <= days[j] /\ days[i] \in Int /\ days[j] \in Int
    BY <1>1 DEF Rises
  <2>2. WeekOn(w, days)[i] = w + days[i] /\ WeekOn(w, days)[j] = w + days[j]
    BY <1>3
  <2> QED BY <2>1, <2>2
<1>7. \A i \in DOMAIN weeks : \A x \in ToSet(ss[i]) :
          x \in Int /\ weeks[i] <= x /\ x < weeks[i] + Week
  <2> SUFFICES ASSUME NEW i \in DOMAIN weeks, NEW x \in ToSet(WeekOn(weeks[i], days))
               PROVE  x \in Int /\ weeks[i] <= x /\ x < weeks[i] + Week
    BY <1>5
  <2>1. PICK j \in DOMAIN days : x = weeks[i] + days[j]
    BY <1>1, <1>3 DEF ToSet
  <2> QED BY <1>1, <2>1
<1>8. \A i, j \in DOMAIN ss : i < j => \A x \in ToSet(ss[i]), y \in ToSet(ss[j]) : x <= y
  <2> SUFFICES ASSUME NEW i \in DOMAIN weeks, NEW j \in DOMAIN weeks, i < j,
                      NEW x \in ToSet(ss[i]), NEW y \in ToSet(ss[j])
               PROVE  x <= y
    BY <1>4
  <2>1. weeks[i] + Week <= weeks[j]
    OBVIOUS
  <2>2. x \in Int /\ x < weeks[i] + Week /\ y \in Int /\ weeks[j] <= y
    BY <1>7
  <2> QED BY <1>1, <2>1, <2>2
<1>9. OfWeeks(weeks, days) = FlattenSeq(ss)
  BY DEF OfWeeks, ss
<1>10. Rises(FlattenSeq(ss))
  BY <1>4, <1>6, <1>8, FlattenedRises
<1>11. FlattenSeq(ss) \in Seq(Int) /\ ToSet(FlattenSeq(ss)) = UNION {ToSet(ss[i]) : i \in DOMAIN ss}
  BY <1>4, FlattenedAre
<1>12. ASSUME NEW x
       PROVE  x \in ToSet(FlattenSeq(ss)) <=> \E w \in ToSet(weeks), o \in ToSet(days) : x = w + o
  <2>1. x \in ToSet(FlattenSeq(ss)) <=> \E i \in DOMAIN weeks : x \in ToSet(ss[i])
    BY <1>4, <1>11
  <2>2. \A i \in DOMAIN weeks : x \in ToSet(ss[i]) <=> \E j \in DOMAIN days : x = weeks[i] + days[j]
    <3> SUFFICES ASSUME NEW i \in DOMAIN weeks
                 PROVE  x \in ToSet(WeekOn(weeks[i], days)) <=> \E j \in DOMAIN days : x = weeks[i] + days[j]
      BY <1>5
    <3> QED BY <1>1, <1>3 DEF ToSet
  <2>3. (\E w \in ToSet(weeks), o \in ToSet(days) : x = w + o)
           <=> \E i \in DOMAIN weeks : \E j \in DOMAIN days : x = weeks[i] + days[j]
    BY DEF ToSet
  <2> QED BY <2>1, <2>2, <2>3
<1> QED BY <1>9, <1>10, <1>11, <1>12

\* The first day of a date's week, which starts on the day first.
WeekOf(d, first) == (d - first) \div Week

\* A date is so many weeks and days behind the first.
LEMMA WeekIs ==
    ASSUME NEW d \in Int, NEW first \in 0 .. Week - 1
    PROVE  /\ WeekOf(d, first) \in Int /\ DaysSince(Weekday(d), first) \in 0 .. Week - 1
           /\ d = first + WeekOf(d, first) * Week + DaysSince(Weekday(d), first)
           /\ DaysSince(Weekday(d), first) = (d - first) % Week
<1>1. Week \in Nat \ {0} /\ first \in Int
  BY CalendarAssumption DEF CalendarAssumption
<1> DEFINE w == d \div Week
           v == d % Week
           a == d - first
<1>2. w \in Int /\ v \in 0 .. Week - 1 /\ d = w * Week + v
  BY <1>1, Divided
<1>3. a \in Int /\ WeekOf(d, first) = a \div Week
  BY <1>1 DEF WeekOf
<1>4. DaysSince(Weekday(d), first) = a % Week
  <2>1. v - first + Week = a + (1 - w) * Week
    <3>1. (1 - w) * Week = Week - w * Week /\ w * Week \in Int
      BY <1>1, <1>2
    <3> DEFINE p == w * Week
    <3>2. p \in Int /\ d = p + v /\ (1 - w) * Week = Week - p /\ v \in Int
      BY <1>1, <1>2, <3>1
    <3> HIDE DEF p, v, w
    <3>3. v - first + Week = (d - first) + (Week - p)
      BY <1>1, <3>2
    <3> QED BY <3>2, <3>3
  <2>2. 1 - w \in Int
    BY <1>2
  <2>3. (a + (1 - w) * Week) % Week = a % Week
    <3> HIDE DEF a, w
    <3> QED BY <1>1, <1>3, <2>2, SameRest
  <2>4. DaysSince(Weekday(d), first) = (v - first + Week) % Week
    BY DEF DaysSince, Weekday
  <2> QED BY <2>1, <2>3, <2>4
<1>5. a \div Week \in Int /\ a % Week \in 0 .. Week - 1 /\ a = (a \div Week) * Week + (a % Week)
  <2> HIDE DEF a
  <2> QED BY <1>1, <1>3, Divided
<1>6. d = first + (a \div Week) * Week + (a % Week)
  <2> DEFINE p == (a \div Week) * Week
             o == a % Week
  <2>1. p \in Int /\ o \in Int /\ d - first = p + o
    BY <1>1, <1>5
  <2> HIDE DEF p, o
  <2>2. d = first + p + o
    BY <1>1, <2>1
  <2> QED BY <2>2 DEF p, o
<1> QED BY <1>3, <1>4, <1>5, <1>6

\* That is the only way to write it so.
LEMMA WeekOnly ==
    ASSUME NEW d \in Int, NEW first \in 0 .. Week - 1, NEW q \in Int, NEW o \in 0 .. Week - 1,
           d = first + q * Week + o
    PROVE  WeekOf(d, first) = q /\ DaysSince(Weekday(d), first) = o
<1> DEFINE a == d - first
<1>1. Week \in Nat \ {0} /\ first \in Int /\ a \in Int
  BY CalendarAssumption DEF CalendarAssumption
<1>2. WeekOf(d, first) = a \div Week /\ DaysSince(Weekday(d), first) = a % Week
  BY WeekIs DEF WeekOf
<1>3. a = q * Week + o
  <2> DEFINE p == q * Week
  <2>1. p \in Int /\ d = first + p + o /\ o \in Int
    BY <1>1
  <2> HIDE DEF p
  <2>2. d - first = p + o
    BY <1>1, <2>1
  <2> QED BY <2>2 DEF p
<1> HIDE DEF a
<1>4. a \div Week = q /\ a % Week = o
  BY ONLY <1>1, <1>3, DividedOnce, q \in Int, o \in 0 .. Week - 1
<1> QED BY <1>2, <1>4

\* A number of weeks is a number of intervals of weeks when the intervals
\* go into it.
LEMMA MultipleOf ==
    ASSUME NEW m \in Int, NEW b \in Nat \ {0}, NEW k \in Nat \ {0}
    PROVE  (m * b) % (b * k) = 0 <=> m % k = 0
<1>1. m * b \in Int /\ b * k \in Nat \ {0}
  <2>1. b * k >= b * 1
    OBVIOUS
  <2> QED BY <2>1
<1> DEFINE q == (m * b) \div (b * k)
           p == m \div k
<1>2. q \in Int /\ p \in Int
  BY <1>1, Divided
<1>3. ASSUME (m * b) % (b * k) = 0 PROVE m % k = 0
  <2>1. m * b = q * (b * k)
    <3> DEFINE x == m * b
               y == b * k
    <3>1. x \in Int /\ y \in Nat \ {0} /\ x % y = 0
      BY <1>1, <1>3
    <3> HIDE DEF x, y
    <3>2. x = (x \div y) * y
      BY <3>1, Multiple
    <3> QED BY <3>2 DEF x, y
  <2> HIDE DEF q
  <2>2. (m - q * k) * b = 0
    BY <1>2, <2>1
  <2>3. m - q * k = 0
    <3>1. \A x \in Int : x # 0 => x * b # 0
      OBVIOUS
    <3>2. m - q * k \in Int
      BY <1>2
    <3> QED BY <2>2, <3>1, <3>2
  <2>4. m = q * k
    <3> DEFINE x == q * k
    <3>1. x \in Int /\ m - x = 0
      BY <1>2, <2>3
    <3> HIDE DEF x
    <3>2. m = x
      BY <3>1
    <3> QED BY <3>2 DEF x
  <2> QED BY <1>2, <2>4, Multiple
<1>4. ASSUME m % k = 0 PROVE (m * b) % (b * k) = 0
  <2>1. m = p * k
    BY <1>4, Multiple
  <2> HIDE DEF p
  <2>2. m * b = p * (b * k)
    BY <1>2, <2>1
  <2> HIDE DEF q
  <2> QED BY <1>1, <1>2, <2>2, Multiple
<1> QED BY <1>3, <1>4

\* No two weekdays are as far behind the first day of the week.
LEMMA WeekdaysApart ==
    ASSUME NEW v \in 0 .. Week - 1, NEW w \in 0 .. Week - 1, NEW first \in 0 .. Week - 1,
           DaysSince(v, first) = DaysSince(w, first)
    PROVE  v = w
<1>1. Week \in Nat \ {0}
  BY CalendarAssumption DEF CalendarAssumption
<1> DEFINE a == v - first + Week
           b == w - first + Week
           x == a \div Week
           y == b \div Week
           r == a % Week
<1>2. a \in Int /\ b \in Int /\ a - b < Week /\ b - a < Week /\ b % Week = r
  BY <1>1 DEF DaysSince
<1>3. x \in Int /\ y \in Int /\ r \in Int /\ a = x * Week + r /\ b = y * Week + r
  <2> HIDE DEF a, b
  <2> QED BY <1>1, <1>2, Divided
<1> HIDE DEF a, b, x, y, r
<1>4. \A i, j \in Int : i < j => i * Week + Week <= j * Week
  <2> SUFFICES ASSUME NEW i \in Int, NEW j \in Int, i < j PROVE i * Week + Week <= j * Week
    OBVIOUS
  <2>1. i + 1 \in Int /\ i + 1 <= j
    OBVIOUS
  <2>2. (i + 1) * Week <= j * Week
    BY <1>1, <2>1, Products
  <2>3. (i + 1) * Week = i * Week + Week
    BY <1>1
  <2> QED BY <2>2, <2>3
<1> DEFINE p == x * Week
           q == y * Week
<1>5. /\ p \in Int /\ q \in Int /\ a = p + r /\ b = q + r
      /\ (x < y => p + Week <= q) /\ (y < x => q + Week <= p) /\ (x = y => p = q)
  BY <1>1, <1>3, <1>4
<1> HIDE DEF p, q
<1>6. ~(x < y) /\ ~(y < x)
  BY <1>1, <1>2, <1>3, <1>5
<1>7. a = b
  BY <1>3, <1>5, <1>6
<1> QED BY <1>1, <1>7 DEF a, b

\* The offsets from the first day of the week are those of the weekdays
\* written, in order.
LEMMA OffsetsAre ==
    ASSUME NEW start \in Dates, NEW r \in WrittenRules
    PROVE  /\ WeekOrder(start, r) \in Seq(0 .. Week - 1) /\ Rises(WeekOrder(start, r))
           /\ \A v \in 0 .. Week - 1 :
                  DaysSince(v, r.weekStart) \in ToSet(WeekOrder(start, r))
                      <=> IF r.byDay = <<>> THEN v = Weekday(start)
                          ELSE \E i \in DOMAIN r.byDay : r.byDay[i].day = v
<1> DEFINE F == r.weekStart
           D == 0 .. Week - 1
           days == WeekDays(start, r)
           s == Offsets(start, r)
<1>0. Week \in Nat \ {0} /\ start \in Int
  BY CalendarAssumption, MonthIs DEF CalendarAssumption
<1>1. /\ Week \in Nat \ {0} /\ F \in D /\ start \in Nat /\ D \in SUBSET Int
      /\ r.byDay \in Seq([day : D, ordinal : Int])
  BY CalendarAssumption, MonthIs DEF CalendarAssumption, WrittenRules
<1>2. /\ Len(days) \in Nat /\ DOMAIN days = 1 .. Len(days) /\ \A i \in DOMAIN days : days[i] \in D
      /\ \A v : (\E i \in DOMAIN days : days[i] = v)
                    <=> IF r.byDay = <<>> THEN v = Weekday(start)
                        ELSE \E i \in DOMAIN r.byDay : r.byDay[i].day = v
  <2>1. CASE r.byDay = <<>>
    <3>1. days = <<Weekday(start)>>
      BY <2>1 DEF WeekDays
    <3>2. Weekday(start) \in D
      <4>1. start % Week \in 0 .. Week - 1
        BY ONLY <1>0, Divided
      <4> QED BY <4>1 DEF Weekday
    <3> HIDE DEF D, days
    <3> QED BY <2>1, <3>1, <3>2
  <2>2. CASE r.byDay # <<>>
    <3>1. days = [i \in DOMAIN r.byDay |-> r.byDay[i].day]
      BY <2>2 DEF WeekDays
    <3>2. Len(r.byDay) \in Nat /\ DOMAIN r.byDay = 1 .. Len(r.byDay)
          /\ \A i \in DOMAIN r.byDay : r.byDay[i].day \in D
      <4>1. \A S : \A t \in Seq(S) : Len(t) \in Nat /\ DOMAIN t = 1 .. Len(t) /\ \A i \in DOMAIN t : t[i] \in S
        OBVIOUS
      <4>2. \A i \in DOMAIN r.byDay : r.byDay[i] \in [day : D, ordinal : Int]
        BY ONLY <1>1, <4>1
      <4>3. Len(r.byDay) \in Nat /\ DOMAIN r.byDay = 1 .. Len(r.byDay)
        BY ONLY <1>1, <4>1
      <4> HIDE DEF D
      <4> QED BY <4>2, <4>3
    <3> HIDE DEF D, days
    <3>3. DOMAIN days = 1 .. Len(r.byDay) /\ \A i \in DOMAIN r.byDay : days[i] = r.byDay[i].day
      BY <3>1, <3>2
    <3>4. Len(days) = Len(r.byDay)
      BY <3>1, <3>2
    <3> QED BY <2>2, <3>2, <3>3, <3>4
  <2> QED BY <2>1, <2>2
<1> HIDE DEF days
<1>3. s = [i \in DOMAIN days |-> DaysSince(days[i], F)]
  BY DEF Offsets, days
<1>4. \A v \in D : DaysSince(v, F) \in D
  BY <1>1 DEF DaysSince
<1>5. s \in Seq(D)
  <2>1. s \in [1 .. Len(days) -> D]
    <3> HIDE DEF s, D
    <3> QED BY <1>2, <1>3, <1>4
  <2>2. Len(days) \in Nat
    BY <1>2
  <2>3. \A n \in Nat : \A f \in [1 .. n -> D] : f \in Seq(D)
    BY SeqDef
  <2> QED BY ONLY <2>1, <2>2, <2>3
<1>6. \A x : x \in ToSet(s) <=> \E i \in DOMAIN days : x = DaysSince(days[i], F)
  <2> HIDE DEF s
  <2> QED BY <1>3 DEF ToSet
<1> HIDE DEF s
<1>7. WeekOrder(start, r) = Ascending(s)
  BY DEF WeekOrder, s
<1>8. /\ Ascending(s) \in Seq(D) /\ ToSet(Ascending(s)) = ToSet(s) /\ Rises(Ascending(s))
  <2> HIDE DEF D
  <2> QED BY <1>1, <1>5, AscendingIs
<1>9. ASSUME NEW v \in D
      PROVE  DaysSince(v, F) \in ToSet(s)
                 <=> IF r.byDay = <<>> THEN v = Weekday(start)
                     ELSE \E i \in DOMAIN r.byDay : r.byDay[i].day = v
  <2>1. DaysSince(v, F) \in ToSet(s) <=> \E i \in DOMAIN days : days[i] = v
    <3>1. \A w \in D : DaysSince(v, F) = DaysSince(w, F) => v = w
      BY <1>1, WeekdaysApart
    <3> QED BY <1>2, <1>6, <3>1
  <2> QED BY <1>2, <2>1
<1> QED BY <1>7, <1>8, <1>9

\* The weeks of the walk.
FirstWeek(start, r) == start - DaysSince(Weekday(start), r.weekStart)
WeeksFrom(start, r) ==
    Steps(FirstWeek(start, r), Week * r.interval,
          (LastDate - FirstWeek(start, r)) \div (Week * r.interval) + 1)

\* A date of the walk of each week: on an offset asked for, in a week an
\* interval away.
LEMMA WeeklyDates ==
    ASSUME NEW start \in Dates, NEW r \in WrittenRules, NEW days \in Seq(0 .. Week - 1), Rises(days)
    PROVE  /\ OfWeeks(WeeksFrom(start, r), days) \in Seq(Int)
           /\ Rises(OfWeeks(WeeksFrom(start, r), days))
           /\ \A d \in start .. LastDate : d \in ToSet(OfWeeks(WeeksFrom(start, r), days))
                  <=> /\ DaysSince(Weekday(d), r.weekStart) \in ToSet(days)
                      /\ (WeekOf(d, r.weekStart) - WeekOf(start, r.weekStart)) % r.interval = 0
<1> DEFINE F == r.weekStart
           k == r.interval
           step == Week * k
           first == FirstWeek(start, r)
           weeks == WeeksFrom(start, r)
           n == (LastDate - first) \div step + 1
           ws == WeekOf(start, F)
           so == DaysSince(Weekday(start), F)
<1>1. /\ Week \in Nat \ {0} /\ k \in Nat \ {0} /\ F \in 0 .. Week - 1 /\ F \in Int
      /\ start \in Nat /\ start <= LastDate /\ LastDate \in Int
  BY CalendarAssumption, FirstDays DEF CalendarAssumption, WrittenRules, Dates
<1> HIDE DEF F, k
<1>2. step \in Nat \ {0} /\ step >= Week
  <2>1. Week * k >= Week * 1
    BY <1>1
  <2> QED BY <1>1, <2>1
<1>3. ws \in Int /\ so \in 0 .. Week - 1 /\ start = F + ws * Week + so /\ first = start - so
  <2>1. start \in Int /\ F \in 0 .. Week - 1
    BY <1>1
  <2>2. ws \in Int /\ so \in 0 .. Week - 1 /\ start = F + ws * Week + so
    BY ONLY <2>1, WeekIs
  <2>3. first = start - so
    BY DEF FirstWeek, F
  <2> QED BY <2>2, <2>3
<1> HIDE DEF step, ws, so, first
<1>4. first \in Int /\ first <= start /\ LastDate - first \in Nat /\ n \in Int
  <2>1. first \in Int /\ first <= start /\ LastDate - first \in Nat
    BY <1>1, <1>3
  <2> QED BY <1>2, <2>1, Quotient
<1>5. first = F + ws * Week
  <2> DEFINE p == ws * Week
  <2>1. p \in Int /\ start = F + p + so /\ first = start - so
    BY <1>1, <1>3
  <2> HIDE DEF p
  <2>2. first = F + p
    BY <1>1, <1>3, <2>1
  <2> QED BY <2>2 DEF p
<1> HIDE DEF n
<1>6. weeks = Steps(first, step, n)
  BY DEF step, k, n, first, WeeksFrom
<1> HIDE DEF weeks
<1>7. /\ weeks \in Seq(Int)
      /\ \A x \in Int : x \in ToSet(weeks)
             <=> first <= x /\ (x - first) % step = 0 /\ (x - first) \div step < n
      /\ \A i, j \in DOMAIN weeks : i < j => weeks[i] + step <= weeks[j]
  BY <1>2, <1>4, <1>6, Stepped
<1>8. \A i, j \in DOMAIN weeks : i < j => weeks[i] + Week <= weeks[j]
  <2> SUFFICES ASSUME NEW i \in DOMAIN weeks, NEW j \in DOMAIN weeks, i < j
               PROVE  weeks[i] + Week <= weeks[j]
    OBVIOUS
  <2>1. weeks[i] + step <= weeks[j] /\ weeks[i] \in Int /\ weeks[j] \in Int
    BY <1>7
  <2> QED BY <1>1, <1>2, <2>1
<1>9. /\ OfWeeks(weeks, days) \in Seq(Int) /\ Rises(OfWeeks(weeks, days))
      /\ \A x : x \in ToSet(OfWeeks(weeks, days))
             <=> \E w \in ToSet(weeks), o \in ToSet(days) : x = w + o
  BY <1>7, <1>8, WeeksOf
<1>10. ASSUME NEW d \in start .. LastDate
       PROVE  d \in ToSet(OfWeeks(weeks, days))
                  <=> /\ DaysSince(Weekday(d), F) \in ToSet(days)
                      /\ (WeekOf(d, F) - ws) % k = 0
  <2> DEFINE wd == WeekOf(d, F)
             o == DaysSince(Weekday(d), F)
             m == wd - ws
  <2>1. d \in Int /\ start <= d /\ d <= LastDate
    BY <1>1
  <2>0. d \in Int /\ F \in 0 .. Week - 1
    BY <1>1, <2>1
  <2>2. wd \in Int /\ o \in 0 .. Week - 1 /\ d = F + wd * Week + o
    BY ONLY <2>0, WeekIs, Zenon
  <2>3. \A q \in Int, x \in 0 .. Week - 1 : d = F + q * Week + x => wd = q /\ o = x
    <3> HIDE DEF wd, o
    <3> SUFFICES ASSUME NEW q \in Int, NEW x \in 0 .. Week - 1, d = F + q * Week + x
                 PROVE  WeekOf(d, F) = q /\ DaysSince(Weekday(d), F) = x
      BY DEF wd, o
    <3> QED BY ONLY <2>0, WeekOnly, d = F + q * Week + x, q \in Int, x \in 0 .. Week - 1
  <2> HIDE DEF wd, o
  <2>4. m \in Int
    BY <1>3, <2>2
  <2>5. d - o - first = m * Week
    <3>1. m * Week = wd * Week - ws * Week
      BY <1>1, <1>3, <2>2
    <3> DEFINE p == wd * Week
               q == ws * Week
    <3>2. p \in Int /\ q \in Int /\ m * Week = p - q /\ d = F + p + o /\ first = F + q /\ o \in Int
      BY <1>1, <1>3, <1>5, <2>2, <3>1
    <3> HIDE DEF p, q, m
    <3> QED BY <1>1, <3>2
  <2>6. m >= 0
    <3> SUFFICES ASSUME m < 0 PROVE FALSE
      BY <2>4
    <3>1. m <= -1
      BY <2>4
    <3>2. m * Week <= (-1) * Week
      BY <1>1, <2>4, <3>1, Products
    <3>3. (-1) * Week = -Week
      BY <1>1
    <3> DEFINE p == m * Week
    <3>4. p \in Int /\ p <= -Week /\ d - o - first = p
      BY <1>1, <2>4, <2>5, <3>2, <3>3
    <3> HIDE DEF p, m
    <3> QED BY <1>1, <1>3, <2>1, <2>2, <3>4
  <2> HIDE DEF m
  <2>7. \A w \in ToSet(weeks), x \in ToSet(days) : d = w + x => x = o /\ w = d - o
    <3> SUFFICES ASSUME NEW w \in ToSet(weeks), NEW x \in ToSet(days), d = w + x PROVE x = o /\ w = d - o
      OBVIOUS
    <3>1. w \in Int /\ x \in 0 .. Week - 1
      <4>1. \A S : \A t \in Seq(S) : ToSet(t) \subseteq S
        BY DEF ToSet
      <4>2. weeks \in Seq(Int) /\ days \in Seq(0 .. Week - 1)
        BY <1>7
      <4> QED BY ONLY <4>1, <4>2, w \in ToSet(weeks), x \in ToSet(days)
    <3>2. (w - first) % step = 0 /\ w - first \in Int
      BY <1>4, <1>7, <3>1
    <3>3. PICK q \in Int : w - first = q * step
      BY <1>2, <3>2, Multiple, Divided
    <3>4. q * step = (q * k) * Week
      BY <1>1, <3>3 DEF step
    <3>5. ws + q * k \in Int
      BY <1>1, <1>3, <3>3
    <3>6. (ws + q * k) * Week = ws * Week + (q * k) * Week
      BY <1>1, <1>3, <3>3
    <3>7. d = F + (ws + q * k) * Week + x
      <4> DEFINE a == ws * Week
                 b == (q * k) * Week
                 c == (ws + q * k) * Week
      <4>1. a \in Int /\ b \in Int /\ c = a + b /\ w - first = b /\ first = F + a
        BY <1>1, <1>3, <1>5, <3>3, <3>4, <3>6
      <4> HIDE DEF a, b, c
      <4>2. d = F + c + x
        BY <1>1, <1>4, <3>1, <4>1
      <4> QED BY <4>2 DEF c
    <3>8. x = o
      BY <2>3, <3>1, <3>5, <3>7
    <3> QED BY <2>2, <3>1, <3>8
  <2>8. d \in ToSet(OfWeeks(weeks, days)) <=> o \in ToSet(days) /\ d - o \in ToSet(weeks)
    <3>1. d = (d - o) + o
      BY <2>1, <2>2
    <3> QED BY <1>9, <2>7, <3>1
  <2>9. d - o \in ToSet(weeks) <=> m % k = 0
    <3>1. d - o \in Int /\ m * Week \in Nat /\ first <= d - o
      <4> DEFINE p == m * Week
      <4>1. p \in Nat /\ d - o - first = p
        BY <1>1, <2>4, <2>5, <2>6
      <4> HIDE DEF p
      <4>2. d - o \in Int /\ first <= d - o
        BY <1>1, <1>4, <2>1, <2>2, <4>1
      <4> QED BY <4>1, <4>2 DEF p
    <3>2. (d - o - first) % step = 0 <=> m % k = 0
      <4>1. (m * Week) % (Week * k) = 0 <=> m % k = 0
        BY ONLY <1>1, <2>4, MultipleOf
      <4> QED BY ONLY <2>5, <4>1 DEF step
    <3>3. (d - o - first) \div step < n
      <4>1. d - o - first \in Nat /\ d - o - first <= LastDate - first
        BY <1>1, <1>4, <2>1, <2>2, <3>1
      <4>2. (d - o - first) \div step <= (LastDate - first) \div step
        BY <1>2, <1>4, <4>1, Quotients
      <4>3. (d - o - first) \div step \in Nat /\ (LastDate - first) \div step \in Nat
        BY <1>2, <1>4, <4>1, Quotient
      <4> QED BY <4>2, <4>3 DEF n
    <3> QED BY <1>7, <3>1, <3>2, <3>3
  <2> QED BY <2>8, <2>9 DEF m, wd, o
<1> QED BY <1>9, <1>10 DEF F, k, ws, weeks

\* The walk of each week.
LEMMA WeeklyLists ==
    ASSUME NEW start \in Dates, NEW r \in WrittenRules, r.freq = "WEEKLY"
    PROVE  Lists(start, r, Weekly(start, r))
<1> DEFINE F == r.weekStart
           k == r.interval
           days == WeekOrder(start, r)
           s == OfWeeks(WeeksFrom(start, r), days)
           all == start .. LastDate
<1>1. /\ Week \in Nat \ {0} /\ k \in Nat \ {0} /\ F \in 0 .. Week - 1
      /\ start \in Nat /\ LastDate \in Int
  BY CalendarAssumption, FirstDays DEF CalendarAssumption, WrittenRules, Dates
<1>2. days \in Seq(0 .. Week - 1) /\ Rises(days)
  BY OffsetsAre
<1>3. /\ s \in Seq(Int) /\ Rises(s)
      /\ \A d \in all : d \in ToSet(s)
             <=> /\ DaysSince(Weekday(d), F) \in ToSet(days)
                 /\ (WeekOf(d, F) - WeekOf(start, F)) % k = 0
  <2> HIDE DEF days
  <2> QED BY <1>2, WeeklyDates
<1>4. Weekly(start, r) = Kept(s, all)
  BY DEF Weekly, WeeksOn, From, WeeksFrom, FirstWeek
<1> HIDE DEF s
<1>5. /\ Kept(s, all) \in Seq(Int) /\ ToSet(Kept(s, all)) = ToSet(s) \intersect all
      /\ Rises(Kept(s, all))
  <2> HIDE DEF all
  <2> QED BY <1>3, KeptAre
<1>6. \A d \in all : InPeriod(start, r, d) <=> (WeekOf(d, F) - WeekOf(start, F)) % k = 0
  <2> SUFFICES ASSUME NEW d \in all
               PROVE  InPeriod(start, r, d) <=> (WeekOf(d, F) - WeekOf(start, F)) % k = 0
    OBVIOUS
  <2> DEFINE p == WeekOf(d, F)
             q == WeekOf(start, F)
             o == DaysSince(Weekday(d), F)
             so == DaysSince(Weekday(start), F)
             x == d - o - start + so
  <2>1. d \in Int /\ start \in Int
    BY <1>1
  <2>2. p \in Int /\ o \in 0 .. Week - 1 /\ d = F + p * Week + o
    BY <1>1, <2>1, WeekIs
  <2>3. q \in Int /\ so \in 0 .. Week - 1 /\ start = F + q * Week + so
    BY <1>1, <2>1, WeekIs
  <2>4. InPeriod(start, r, d) <=> (x \div Week) % k = 0
    BY DEF InPeriod
  <2> HIDE DEF p, q, o, so, F
  <2>5. x = (p - q) * Week
    <3>1. (p - q) * Week = p * Week - q * Week
      BY <1>1, <2>2, <2>3
    <3> DEFINE a == p * Week
               b == q * Week
    <3>2. a \in Int /\ b \in Int /\ (p - q) * Week = a - b /\ d = F + a + o /\ start = F + b + so
      BY <1>1, <2>2, <2>3, <3>1
    <3> HIDE DEF a, b
    <3>3. x = a - b
      BY <1>1, <2>1, <2>2, <2>3, <3>2
    <3> QED BY <3>2, <3>3
  <2>6. x \div Week = p - q
    <3>1. p - q \in Int /\ x \in Int
      BY <1>1, <2>1, <2>2, <2>3
    <3> HIDE DEF x
    <3> QED BY <1>1, <2>5, <3>1, Multiple
  <2> HIDE DEF x
  <2> QED BY <2>4, <2>6 DEF p, q
<1>7. \A d \in all : DaysSince(Weekday(d), F) \in ToSet(days) /\ RuleMatches(d, r) <=> Selected(start, r, d)
  <2> SUFFICES ASSUME NEW d \in all
               PROVE  DaysSince(Weekday(d), F) \in ToSet(days) /\ RuleMatches(d, r) <=> Selected(start, r, d)
    OBVIOUS
  <2>1. Weekday(d) \in 0 .. Week - 1
    <3>1. d \in Int
      BY <1>1
    <3> QED BY <1>1, <3>1, Divided DEF Weekday
  <2>2. DaysSince(Weekday(d), F) \in ToSet(days)
           <=> IF r.byDay = <<>> THEN Weekday(d) = Weekday(start)
               ELSE \E i \in DOMAIN r.byDay : r.byDay[i].day = Weekday(d)
    BY <2>1, OffsetsAre
  <2>3. (\E i \in DOMAIN r.byDay : r.byDay[i].day = Weekday(d))
           <=> \E i \in DOMAIN r.byDay : Named(d, r, r.byDay[i])
    BY DEF Named
  <2>4. r.freq # "YEARLY" /\ r.freq # "MONTHLY" /\ r.freq = "WEEKLY" /\ r.freq # "DAILY"
    OBVIOUS
  <2> HIDE DEF days, F
  <2>5. CASE r.byDay = <<>>
    BY <2>2, <2>4, <2>5 DEF RuleMatches, Selected
  <2>6. CASE r.byDay # <<>>
    BY <2>2, <2>3, <2>4, <2>6 DEF RuleMatches, Selected
  <2> QED BY <2>5, <2>6
<1>8. \A d \in all : LooksAt(start, r, d)
  BY DEF LooksAt
<1>9. \A d \in all : d \in ToSet(Weekly(start, r)) /\ RuleMatches(d, r) <=> Chosen(start, r, d)
  <2> HIDE DEF all, F, k, days
  <2> QED BY <1>3, <1>4, <1>5, <1>6, <1>7, <1>8 DEF Chosen
<1>10. ToSet(Weekly(start, r)) \subseteq all
  <2> HIDE DEF all
  <2> QED BY <1>4, <1>5
<1> QED BY <1>4, <1>5, <1>9, <1>10 DEF Lists

\* Numbers leave the same when their difference is a multiple.
LEMMA Congruent ==
    ASSUME NEW a \in Int, NEW b \in Int, NEW k \in Nat \ {0}
    PROVE  a % k = b % k <=> (a - b) % k = 0
<1> DEFINE p == a \div k
           q == b \div k
           x == a % k
           y == b % k
<1>1. p \in Int /\ x \in 0 .. k - 1 /\ a = p * k + x
  BY Divided
<1>2. q \in Int /\ y \in 0 .. k - 1 /\ b = q * k + y
  BY Divided
<1> HIDE DEF p, q, x, y
<1>3. (p - q) * k = p * k - q * k /\ p * k \in Int /\ q * k \in Int /\ p - q \in Int
  BY <1>1, <1>2
<1>4. ASSUME x = y PROVE (a - b) % k = 0
  <2>1. a - b = (p - q) * k /\ a - b \in Int
    BY <1>1, <1>2, <1>3, <1>4
  <2> QED BY <1>3, <2>1, Multiple
<1>5. ASSUME (a - b) % k = 0 PROVE x = y
  <2>1. a - b \in Int
    OBVIOUS
  <2>2. PICK m \in Int : a - b = m * k
    BY <1>5, <2>1, Multiple, Divided
  <2>3. (m + q) * k = m * k + q * k /\ m * k \in Int /\ m + q \in Int
    BY <1>2, <2>2
  <2>4. a = (m + q) * k + y
    BY <1>2, <1>3, <2>2, <2>3
  <2>5. a % k = y
    BY ONLY <1>2, <2>3, <2>4, DividedOnce, a \in Int, k \in Nat \ {0}
  <2> QED BY <2>5 DEF x
<1> QED BY <1>4, <1>5 DEF x, y

\* A month: its days are the dates it has.
LEMMA MonthHas ==
    ASSUME NEW m \in Months
    PROVE  /\ m \in Nat /\ FirstDay[m] \in Nat /\ DaysIn(m) \in Nat \ {0} /\ DaysIn(m) >= Week
           /\ FirstDay[m + 1] = FirstDay[m] + DaysIn(m)
           /\ \A x \in Int : FirstDay[m] <= x /\ x < FirstDay[m] + DaysIn(m)
                                 <=> x \in Dates /\ MonthOf[x] = m
<1>1. Len(Lengths) \in Nat /\ m \in Nat /\ m \in 0 .. Len(Lengths) /\ m + 1 \in 1 .. Len(Lengths)
  BY FirstDays DEF Months
<1>2. FirstDay[m] \in Nat /\ FirstDay[m + 1] = FirstDay[(m + 1) - 1] + Lengths[m + 1]
  BY <1>1, FirstDays
<1>3. (m + 1) - 1 = m
  BY <1>1
<1>4. DaysIn(m) \in Nat \ {0} /\ DaysIn(m) >= Week
  BY <1>1, FirstDays DEF DaysIn
<1>5. FirstDay[m + 1] = FirstDay[m] + DaysIn(m)
  BY <1>2, <1>3 DEF DaysIn
<1>6. \A x \in Int : FirstDay[m] <= x /\ x < FirstDay[m + 1] <=> x \in Dates /\ MonthOf[x] = m
  BY MonthIs
<1> QED BY <1>1, <1>2, <1>4, <1>5, <1>6

\* A day of a month, counted from either end.
LEMMA MonthDayIs ==
    ASSUME NEW m \in Months, NEW n \in Int
    PROVE  /\ MonthDay(m, n) \in Seq(Int)
           /\ \A x : x \in ToSet(MonthDay(m, n))
                  <=> /\ x \in Dates /\ MonthOf[x] = m
                      /\ n = DayOf(x) \/ (n < 0 /\ DaysIn(MonthOf[x]) + n + 1 = DayOf(x))
<1> DEFINE f == FirstDay[m]
           l == DaysIn(m)
           day == IF n < 0 THEN l + n + 1 ELSE n
<1>1. /\ f \in Nat /\ l \in Nat \ {0}
      /\ \A x \in Int : f <= x /\ x < f + l <=> x \in Dates /\ MonthOf[x] = m
  BY MonthHas
<1>2. MonthDay(m, n) = IF day < 1 \/ day > l THEN <<>> ELSE <<f + day - 1>>
  BY DEF MonthDay
<1>3. \A x \in Dates : x \in Int /\ (MonthOf[x] = m => DayOf(x) = x - f + 1 /\ DaysIn(MonthOf[x]) = l)
  BY MonthIs DEF DayOf
<1> HIDE DEF f, l
<1>4. day \in Int
  BY <1>1
<1>5. \A x \in Dates : MonthOf[x] = m =>
          ((n = DayOf(x) \/ (n < 0 /\ DaysIn(MonthOf[x]) + n + 1 = DayOf(x))) <=> day = x - f + 1)
  <2> SUFFICES ASSUME NEW x \in Int, f <= x, x < f + l
               PROVE  (n = x - f + 1 \/ (n < 0 /\ l + n + 1 = x - f + 1)) <=> day = x - f + 1
    BY <1>1, <1>3
  <2> QED BY <1>1
<1> HIDE DEF day
<1>6. CASE day < 1 \/ day > l
  <2>1. \A x \in Dates : MonthOf[x] = m => day # x - f + 1
    BY <1>1, <1>3, <1>4, <1>6
  <2>2. MonthDay(m, n) = <<>> /\ ToSet(<<>>) = {}
    BY <1>2, <1>6 DEF ToSet
  <2> QED BY <1>5, <2>1, <2>2
<1>7. CASE ~(day < 1 \/ day > l)
  <2>1. f + day - 1 \in Int /\ f <= f + day - 1 /\ f + day - 1 < f + l
    BY <1>1, <1>4, <1>7
  <2>2. \A x \in Int : x = f + day - 1 <=> day = x - f + 1
    BY <1>1, <1>4
  <2>3. MonthDay(m, n) = <<f + day - 1>>
    BY <1>2, <1>7
  <2>4. \A y : ToSet(<<y>>) = {y}
    BY DEF ToSet
  <2>5. \A y \in Int : <<y>> \in Seq(Int)
    OBVIOUS
  <2> QED BY <1>1, <1>3, <1>5, <2>1, <2>2, <2>3, <2>4, <2>5
<1> QED BY <1>6, <1>7

\* One of several, counted from either end, or all.
LEMMA NthIs ==
    ASSUME NEW s \in Seq(Int), NEW n \in Int
    PROVE  /\ Nth(s, n) \in Seq(Int)
           /\ \A x : x \in ToSet(Nth(s, n))
                  <=> \E i \in 1 .. Len(s) : x = s[i] /\ (n = 0 \/ n = i \/ -n = Len(s) - i + 1)
<1> DEFINE l == Len(s)
<1>1. l \in Nat /\ DOMAIN s = 1 .. l /\ \A i \in 1 .. l : s[i] \in Int
  OBVIOUS
<1>2. \A y : ToSet(<<y>>) = {y}
  BY DEF ToSet
<1>3. \A y \in Int : <<y>> \in Seq(Int)
  OBVIOUS
<1>4. ToSet(<<>>) = {} /\ <<>> \in Seq(Int)
  BY DEF ToSet
<1> HIDE DEF l
<1>5. CASE n = 0
  <2>1. Nth(s, n) = s
    BY <1>5 DEF Nth
  <2> QED BY <1>1, <1>5, <2>1 DEF ToSet, l
<1>6. CASE n > 0 /\ n <= l
  <2>1. Nth(s, n) = <<s[n]>>
    BY <1>6 DEF Nth, l
  <2>2. n \in 1 .. l /\ \A i \in 1 .. l : (n = 0 \/ n = i \/ -n = l - i + 1) <=> n = i
    BY <1>1, <1>6
  <2> QED BY <1>1, <1>2, <1>3, <2>1, <2>2 DEF l
<1>7. CASE n < 0 /\ -n <= l
  <2> DEFINE j == l + n + 1
  <2>1. Nth(s, n) = <<s[j]>>
    BY <1>7 DEF Nth, l
  <2>2. j \in 1 .. l
    BY <1>1, <1>7
  <2>3. \A i \in 1 .. l : (n = 0 \/ n = i \/ -n = l - i + 1) <=> i = j
    BY <1>1, <1>7
  <2> HIDE DEF j
  <2>4. Nth(s, n) \in Seq(Int)
    BY <1>1, <1>3, <2>1, <2>2
  <2>5. \A x : x \in ToSet(Nth(s, n)) <=> x = s[j]
    BY <1>2, <2>1
  <2>6. \A x : x \in ToSet(Nth(s, n)) <=> \E i \in 1 .. l : x = s[i] /\ (n = 0 \/ n = i \/ -n = l - i + 1)
    BY <2>2, <2>3, <2>5
  <2> QED BY <2>4, <2>6 DEF l
<1>8. CASE (n > 0 /\ n > l) \/ (n < 0 /\ -n > l)
  <2>1. n # 0 /\ ~(n > 0 /\ n <= l) /\ ~(n < 0 /\ -n <= l)
    BY <1>1, <1>8
  <2>2. Nth(s, n) = <<>>
    BY <2>1 DEF Nth, l
  <2>3. \A i \in 1 .. l : ~(n = 0 \/ n = i \/ -n = l - i + 1)
    BY <1>1, <1>8
  <2> QED BY <1>4, <2>2, <2>3 DEF l
<1>9. n = 0 \/ (n > 0 /\ n <= l) \/ (n < 0 /\ -n <= l) \/ (n > 0 /\ n > l) \/ (n < 0 /\ -n > l)
  BY <1>1
<1> QED BY <1>5, <1>6, <1>7, <1>8, <1>9

-----------------------------------------------------------------------------
(* The candidates of a monthly and of a yearly rule.                       *)

\* The days of a month on one weekday, in order, and the place of each from
\* either end.
MonthsWeekdays(m, day) == WeekdaysFrom(FirstDay[m] + ((Week + day - Weekday(FirstDay[m])) % Week), m)

\* They are the dates of the month that fall on the day.
LEMMA WeekdaysAre ==
    ASSUME NEW m \in Months, NEW day \in 0 .. Week - 1, NEW s, s = MonthsWeekdays(m, day)
    PROVE  /\ s \in Seq(Int)
           /\ \A x : x \in ToSet(s) <=> x \in Dates /\ MonthOf[x] = m /\ Weekday(x) = day
           /\ \A i \in 1 .. Len(s) :
                  /\ (DayOf(s[i]) - 1) \div Week + 1 = i
                  /\ (DaysIn(MonthOf[s[i]]) - DayOf(s[i])) \div Week + 1 = Len(s) - i + 1
<1> DEFINE f == FirstDay[m]
           l == DaysIn(m)
           c == (Week + day - Weekday(f)) % Week
           first == f + c
           last == f + l - 1
           n == (last - first) \div Week + 1
<1>1. /\ f \in Nat /\ l \in Nat \ {0} /\ l >= Week /\ FirstDay[m + 1] = f + l
      /\ \A x \in Int : f <= x /\ x < f + l <=> x \in Dates /\ MonthOf[x] = m
      /\ Week \in Nat \ {0} /\ day \in Int
  BY MonthHas, CalendarAssumption DEF CalendarAssumption
<1> HIDE DEF f, l
<1>2. f = (f \div Week) * Week + Weekday(f) /\ f \div Week \in Int /\ Weekday(f) \in 0 .. Week - 1
  BY <1>1, Divided DEF Weekday
<1>3. c \in 0 .. Week - 1 /\ first % Week = day
  <2> DEFINE a == Week + day - Weekday(f)
             w == Weekday(f)
             p == f \div Week
             q == a \div Week
  <2>1. a \in Int
    BY <1>1, <1>2
  <2>2. c \in 0 .. Week - 1 /\ q \in Int /\ a = q * Week + c
    <3>1. Week \in Nat \ {0}
      BY <1>1
    <3> QED BY ONLY <2>1, <3>1, Divided
  <2>3. p \in Int /\ w \in Int /\ f = p * Week + w /\ a = Week + day - w
    BY <1>2
  <2> HIDE DEF a, c, w, p, q
  <2>4. (p + 1 - q) * Week = p * Week + Week - q * Week /\ p * Week \in Int /\ q * Week \in Int
    BY <1>1, <2>2, <2>3
  <2>5. f + c = (p + 1 - q) * Week + day
    <3> DEFINE x == p * Week
               y == q * Week
    <3>1. x \in Int /\ y \in Int /\ f = x + w /\ a = y + c /\ (p + 1 - q) * Week = x + Week - y
      BY <2>2, <2>3, <2>4
    <3> HIDE DEF x, y
    <3> QED BY <1>1, <2>2, <2>3, <3>1
  <2>6. f + c \in Int /\ p + 1 - q \in Int
    BY <1>1, <2>2, <2>3
  <2>7. (f + c) % Week = day
    BY ONLY <1>1, <2>5, <2>6, DividedOnce, day \in 0 .. Week - 1
  <2> QED BY <2>2, <2>7 DEF first
<1>4. Weekday(f) = f % Week
  BY DEF Weekday
<1> HIDE DEF c
<1>5. first \in Int /\ f <= first /\ last \in Int /\ last - first \in Nat
  BY <1>1, <1>3
<1> HIDE DEF first, last
<1>6. n \in Nat \ {0}
  BY <1>1, <1>5, Quotient
<1>7. s = Steps(first, Week, n)
  BY <1>1 DEF MonthsWeekdays, WeekdaysFrom, first, last, c, f
<1> HIDE DEF n
<1>8. /\ s \in Seq(Int) /\ \A x \in ToSet(s) : first <= x
      /\ \A x \in Int : x \in ToSet(s)
             <=> first <= x /\ (x - first) % Week = 0 /\ (x - first) \div Week < n
  <2>1. first \in Int /\ Week \in Nat \ {0} /\ n \in Int
    BY <1>1, <1>5, <1>6
  <2> QED BY ONLY <1>7, <2>1, Stepped
<1>9. Len(s) = n /\ \A i \in 1 .. n : s[i] = first + (i - 1) * Week
  BY <1>6, <1>7 DEF Steps
<1>10. ASSUME NEW x \in Int
       PROVE  x \in ToSet(s) <=> f <= x /\ x < f + l /\ Weekday(x) = day
  <2>1. Weekday(x) = day <=> (x - first) % Week = 0
    <3>1. x % Week = first % Week <=> (x - first) % Week = 0
      BY ONLY <1>1, <1>5, Congruent, x \in Int
    <3> QED BY <1>3, <3>1 DEF Weekday
  <2>2. ASSUME f <= x, x < f + l, (x - first) % Week = 0 PROVE first <= x /\ (x - first) \div Week < n
    <3> DEFINE q == (x - first) \div Week
               y == x - first
    <3>1. y \in Int /\ y < l /\ y > -Week
      BY <1>1, <1>3, <1>5, <2>2 DEF first
    <3>2. q \in Int /\ y = q * Week
      <4> HIDE DEF y
      <4> QED BY <1>1, <2>2, <3>1, Multiple, Divided DEF y
    <3>3. q >= 0
      <4> SUFFICES ASSUME q <= -1 PROVE FALSE
        BY <3>2
      <4>1. q * Week <= (-1) * Week
        BY <1>1, <3>2, Products
      <4>2. (-1) * Week = -Week
        BY <1>1
      <4> DEFINE z == q * Week
      <4>3. z \in Int /\ y = z /\ z <= -Week
        BY <1>1, <3>2, <4>1, <4>2
      <4> HIDE DEF z, y
      <4> QED BY <1>1, <3>1, <4>3
    <3>4. y \in Nat
      <4>1. q * Week >= 0
        BY <1>1, <3>2, <3>3
      <4> HIDE DEF y
      <4> QED BY <3>1, <3>2, <4>1
    <3>5. first <= x /\ y <= last - first
      BY <1>1, <1>5, <2>2, <3>4 DEF last
    <3>6. y \div Week <= (last - first) \div Week
      <4> HIDE DEF y
      <4> QED BY <1>1, <1>5, <3>4, <3>5, Quotients
    <3>7. (last - first) \div Week \in Nat
      BY <1>1, <1>5, Quotient
    <3> HIDE DEF y
    <3> QED BY <3>2, <3>5, <3>6, <3>7 DEF n, y
  <2>3. ASSUME first <= x, (x - first) % Week = 0, (x - first) \div Week < n PROVE f <= x /\ x < f + l
    <3> DEFINE q == (x - first) \div Week
               y == x - first
               t == (last - first) \div Week
    <3>1. y \in Int /\ q \in Int /\ y = q * Week
      <4>1. y \in Int
        BY <1>5
      <4> HIDE DEF y
      <4> QED BY <1>1, <2>3, <4>1, Multiple, Divided DEF y
    <3>2. t \in Nat /\ t * Week <= last - first /\ n = t + 1
      BY <1>1, <1>5, Quotient DEF n
    <3>3. q <= t
      <4> HIDE DEF q, t
      <4> QED BY <2>3, <3>1, <3>2 DEF q
    <3>4. q * Week <= t * Week
      <4> HIDE DEF q, t
      <4> QED BY <1>1, <3>1, <3>2, <3>3, Products
    <3> DEFINE u == q * Week
               v == t * Week
    <3>5. u \in Int /\ v \in Int /\ x - first = u /\ u <= v /\ v <= last - first
      BY <1>1, <3>1, <3>2, <3>4
    <3> HIDE DEF u, v, q, t
    <3>6. x <= last
      BY <1>5, <3>5
    <3> QED BY <1>1, <1>5, <2>3, <3>6 DEF last
  <2> QED BY <1>8, <2>1, <2>2, <2>3
<1>11. \A x : x \in ToSet(s) <=> x \in Dates /\ MonthOf[x] = m /\ Weekday(x) = day
  <2>1. \A x \in ToSet(s) : x \in Int
    BY <1>8 DEF ToSet
  <2>2. \A x \in Dates : x \in Int
    BY MonthIs
  <2> QED BY <1>1, <1>10, <2>1, <2>2
<1>12. ASSUME NEW i \in 1 .. n
       PROVE  /\ (DayOf(s[i]) - 1) \div Week + 1 = i
              /\ (DaysIn(MonthOf[s[i]]) - DayOf(s[i])) \div Week + 1 = n - i + 1
  <2> DEFINE x == s[i]
             t == (last - first) \div Week
             e == (last - first) % Week
  <2>1. x \in ToSet(s) /\ x \in Int
    BY <1>8, <1>9 DEF ToSet
  <2>2. MonthOf[x] = m
    BY <1>11, <2>1
  <2>3. DayOf(x) = x - f + 1 /\ DaysIn(MonthOf[x]) = l
    BY <2>2 DEF DayOf, f, l
  <2>4. x = first + (i - 1) * Week
    BY <1>9
  <2>5. t \in Int /\ e \in 0 .. Week - 1 /\ last - first = t * Week + e /\ n = t + 1
    <3>1. last - first \in Int
      BY <1>5
    <3> QED BY <1>1, <3>1, Divided DEF n
  <2> HIDE DEF x, t, e
  <2>6. (DayOf(x) - 1) \div Week = i - 1
    <3>1. DayOf(x) - 1 = (i - 1) * Week + c
      <4> DEFINE p == (i - 1) * Week
      <4>1. p \in Int /\ x = first + p
        BY <1>1, <2>4
      <4> HIDE DEF p
      <4>2. DayOf(x) - 1 = p + c
        BY <1>1, <1>3, <2>3, <4>1 DEF first
      <4> QED BY <4>2 DEF p
    <3>2. DayOf(x) - 1 \in Int /\ i - 1 \in Int
      BY <1>1, <2>1, <2>3 DEF x
    <3> QED BY ONLY <1>1, <1>3, <3>1, <3>2, DividedOnce
  <2>7. (l - DayOf(x)) \div Week = n - i
    <3>1. (n - i) * Week = t * Week - (i - 1) * Week /\ t * Week \in Int /\ (i - 1) * Week \in Int
      <4>1. n - i = t - (i - 1) /\ i - 1 \in Int
        BY <2>5
      <4> QED BY <1>1, <2>5, <4>1
    <3>2. l - DayOf(x) = (n - i) * Week + e
      <4> DEFINE p == (i - 1) * Week
                 q == t * Week
                 z == (n - i) * Week
      <4>1. p \in Int /\ q \in Int /\ x = first + p /\ last - first = q + e /\ z = q - p
        BY <2>4, <2>5, <3>1
      <4> HIDE DEF p, q, z
      <4>2. l - DayOf(x) = last - x
        BY <1>1, <1>5, <2>1, <2>3 DEF last, x
      <4>3. last - x = z + e
        BY <1>1, <1>5, <2>5, <4>1
      <4> QED BY <4>2, <4>3 DEF z
    <3>3. l - DayOf(x) \in Int /\ n - i \in Int
      BY <1>1, <1>6, <2>1, <2>3 DEF x
    <3> QED BY ONLY <1>1, <2>5, <3>2, <3>3, DividedOnce
  <2>8. (DayOf(x) - 1) \div Week + 1 = i /\ (l - DayOf(x)) \div Week + 1 = n - i + 1
    BY <1>6, <2>6, <2>7
  <2> QED BY <2>3, <2>8 DEF x
<1> QED BY <1>8, <1>9, <1>11, <1>12

\* What an entry of BYDAY asks of a date of a month.
NamedInMonth(d, bd) ==
    /\ bd.day = Weekday(d)
    /\ \/ bd.ordinal = 0
       \/ bd.ordinal = (DayOf(d) - 1) \div Week + 1
       \/ -bd.ordinal = (DaysIn(MonthOf[d]) - DayOf(d)) \div Week + 1
Entries == [day : 0 .. Week - 1, ordinal : Int]

\* The dates found for an entry are those it names.
LEMMA NthWeekdaysAre ==
    ASSUME NEW m \in Months, NEW bd \in Entries
    PROVE  /\ NthWeekdays(m, bd) \in Seq(Int)
           /\ \A x : x \in ToSet(NthWeekdays(m, bd))
                  <=> x \in Dates /\ MonthOf[x] = m /\ NamedInMonth(x, bd)
<1> DEFINE s == MonthsWeekdays(m, bd.day)
           n == bd.ordinal
<1>1. bd.day \in 0 .. Week - 1 /\ n \in Int
  BY DEF Entries
<1>2. /\ s \in Seq(Int)
      /\ \A x : x \in ToSet(s) <=> x \in Dates /\ MonthOf[x] = m /\ Weekday(x) = bd.day
      /\ \A i \in 1 .. Len(s) :
             /\ (DayOf(s[i]) - 1) \div Week + 1 = i
             /\ (DaysIn(MonthOf[s[i]]) - DayOf(s[i])) \div Week + 1 = Len(s) - i + 1
  BY <1>1, WeekdaysAre
<1>3. NthWeekdays(m, bd) = Nth(s, n)
  BY DEF NthWeekdays, MonthsWeekdays
<1> HIDE DEF s, n
<1>4. /\ Nth(s, n) \in Seq(Int)
      /\ \A x : x \in ToSet(Nth(s, n))
             <=> \E i \in 1 .. Len(s) : x = s[i] /\ (n = 0 \/ n = i \/ -n = Len(s) - i + 1)
  BY <1>1, <1>2, NthIs
<1>5. \A i \in 1 .. Len(s) :
          (n = 0 \/ n = i \/ -n = Len(s) - i + 1)
             <=> \/ n = 0 \/ n = (DayOf(s[i]) - 1) \div Week + 1
                 \/ -n = (DaysIn(MonthOf[s[i]]) - DayOf(s[i])) \div Week + 1
  BY <1>2
<1>6. \A x : x \in ToSet(s) <=> \E i \in 1 .. Len(s) : x = s[i]
  <2>1. DOMAIN s = 1 .. Len(s)
    BY <1>2
  <2> QED BY <2>1 DEF ToSet
<1>7. ASSUME NEW x
      PROVE  x \in ToSet(Nth(s, n)) <=> x \in Dates /\ MonthOf[x] = m /\ NamedInMonth(x, bd)
  <2> DEFINE P(y) == \/ n = 0 \/ n = (DayOf(y) - 1) \div Week + 1
                     \/ -n = (DaysIn(MonthOf[y]) - DayOf(y)) \div Week + 1
  <2>1. \A i \in 1 .. Len(s) : (n = 0 \/ n = i \/ -n = Len(s) - i + 1) <=> P(s[i])
    BY <1>5
  <2>2. NamedInMonth(x, bd) <=> bd.day = Weekday(x) /\ P(x)
    BY DEF NamedInMonth, n
  <2> HIDE DEF P
  <2>3. x \in ToSet(Nth(s, n)) <=> x \in ToSet(s) /\ P(x)
    BY <1>4, <1>6, <2>1
  <2> QED BY <1>2, <2>2, <2>3
<1> QED BY <1>3, <1>4, <1>7

\* A sequence is empty when nothing is in it.
LEMMA NothingIn ==
    ASSUME NEW S, NEW s \in Seq(S)
    PROVE  s = <<>> <=> ToSet(s) = {}
<1>1. Len(s) \in Nat /\ DOMAIN s = 1 .. Len(s)
  OBVIOUS
<1>2. ToSet(<<>>) = {}
  BY DEF ToSet
<1>3. ASSUME s # <<>> PROVE ToSet(s) # {}
  <2>1. 1 \in DOMAIN s
    BY <1>1, <1>3
  <2>2. s[1] \in ToSet(s)
    BY <2>1 DEF ToSet
  <2> QED BY <2>2
<1> QED BY <1>2, <1>3

\* The dates of a month the entries of BYDAY and of BYMONTHDAY ask for.
LEMMA AskedInMonth ==
    ASSUME NEW m \in Months, NEW r \in WrittenRules
    PROVE  /\ WeekdaysAsked(m, r.byDay) \in Seq(Int)
           /\ \A x : x \in ToSet(WeekdaysAsked(m, r.byDay))
                  <=> /\ x \in Dates /\ MonthOf[x] = m
                      /\ \E i \in DOMAIN r.byDay : NamedInMonth(x, r.byDay[i])
           /\ MonthDaysAsked(m, r.byMonthDay) \in Seq(Int)
           /\ \A x : x \in ToSet(MonthDaysAsked(m, r.byMonthDay))
                  <=> x \in Dates /\ MonthOf[x] = m /\ MatchesMonthDay(x, r.byMonthDay)
<1>1. r.byDay \in Seq(Entries) /\ r.byMonthDay \in Seq(Int)
  BY DEF WrittenRules, Entries
<1>2. \A S : \A t \in Seq(S) : Len(t) \in Nat /\ DOMAIN t = 1 .. Len(t) /\ \A i \in DOMAIN t : t[i] \in S
  OBVIOUS
<1>3. \A n \in Nat : \A f \in [1 .. n -> Seq(Int)] : f \in Seq(Seq(Int))
  BY SeqDef
<1>4. /\ WeekdaysAsked(m, r.byDay) \in Seq(Int)
      /\ \A x : x \in ToSet(WeekdaysAsked(m, r.byDay))
             <=> /\ x \in Dates /\ MonthOf[x] = m
                 /\ \E i \in DOMAIN r.byDay : NamedInMonth(x, r.byDay[i])
  <2> DEFINE b == r.byDay
             ss == [i \in DOMAIN b |-> NthWeekdays(m, b[i])]
  <2>1. Len(b) \in Nat /\ DOMAIN b = 1 .. Len(b) /\ \A i \in DOMAIN b : b[i] \in Entries
    BY ONLY <1>1, <1>2
  <2>2. WeekdaysAsked(m, b) = FlattenSeq(ss)
    BY DEF WeekdaysAsked
  <2> HIDE DEF b
  <2>3. \A i \in DOMAIN b : NthWeekdays(m, b[i]) \in Seq(Int)
    BY <2>1, NthWeekdaysAre
  <2>4. ss \in [1 .. Len(b) -> Seq(Int)]
    BY <2>1, <2>3
  <2>5. DOMAIN ss = DOMAIN b /\ \A i \in DOMAIN b : ss[i] = NthWeekdays(m, b[i])
    OBVIOUS
  <2> HIDE DEF ss
  <2>6. ss \in Seq(Seq(Int))
    BY ONLY <1>3, <2>1, <2>4
  <2>7. /\ FlattenSeq(ss) \in Seq(Int)
        /\ ToSet(FlattenSeq(ss)) = UNION {ToSet(ss[i]) : i \in DOMAIN ss}
    BY <2>6, FlattenedAre
  <2>8. \A i \in DOMAIN b : \A x : x \in ToSet(ss[i])
            <=> x \in Dates /\ MonthOf[x] = m /\ NamedInMonth(x, b[i])
    BY <2>1, <2>5, NthWeekdaysAre
  <2>9. \A x : x \in ToSet(FlattenSeq(ss))
            <=> \E i \in DOMAIN b : x \in Dates /\ MonthOf[x] = m /\ NamedInMonth(x, b[i])
    BY <2>5, <2>7, <2>8
  <2> QED BY <2>2, <2>7, <2>9 DEF b
<1>5. /\ MonthDaysAsked(m, r.byMonthDay) \in Seq(Int)
      /\ \A x : x \in ToSet(MonthDaysAsked(m, r.byMonthDay))
             <=> x \in Dates /\ MonthOf[x] = m /\ MatchesMonthDay(x, r.byMonthDay)
  <2> DEFINE b == r.byMonthDay
             ss == [i \in DOMAIN b |-> MonthDay(m, b[i])]
             P(x, n) == n = DayOf(x) \/ (n < 0 /\ DaysIn(MonthOf[x]) + n + 1 = DayOf(x))
  <2>1. Len(b) \in Nat /\ DOMAIN b = 1 .. Len(b) /\ \A i \in DOMAIN b : b[i] \in Int
    BY ONLY <1>1, <1>2
  <2>2. MonthDaysAsked(m, b) = FlattenSeq(ss)
    BY DEF MonthDaysAsked
  <2>3. \A x : MatchesMonthDay(x, b) <=> \E i \in DOMAIN b : P(x, b[i])
    BY DEF MatchesMonthDay, ToSet
  <2> HIDE DEF b
  <2>4. \A i \in DOMAIN b : MonthDay(m, b[i]) \in Seq(Int)
    BY <2>1, MonthDayIs
  <2>5. ss \in [1 .. Len(b) -> Seq(Int)]
    BY <2>1, <2>4
  <2>6. DOMAIN ss = DOMAIN b /\ \A i \in DOMAIN b : ss[i] = MonthDay(m, b[i])
    OBVIOUS
  <2> HIDE DEF ss
  <2>7. ss \in Seq(Seq(Int))
    BY ONLY <1>3, <2>1, <2>5
  <2>8. /\ FlattenSeq(ss) \in Seq(Int)
        /\ ToSet(FlattenSeq(ss)) = UNION {ToSet(ss[i]) : i \in DOMAIN ss}
    BY <2>7, FlattenedAre
  <2>9. \A i \in DOMAIN b : \A x : x \in ToSet(ss[i]) <=> x \in Dates /\ MonthOf[x] = m /\ P(x, b[i])
    BY <2>1, <2>6, MonthDayIs
  <2> HIDE DEF P
  <2>10. \A x : x \in ToSet(FlattenSeq(ss))
             <=> \E i \in DOMAIN b : x \in Dates /\ MonthOf[x] = m /\ P(x, b[i])
    BY <2>6, <2>8, <2>9
  <2> QED BY <2>2, <2>3, <2>8, <2>10 DEF b
<1> QED BY <1>4, <1>5

\* The candidates of a month, in order: the dates the rule's BYDAY and
\* BYMONTHDAY select, or the start's own day, as long as the month has one
\* of each.
HasDays(r, m) ==
    /\ r.byDay # <<>> => \E i \in DOMAIN r.byDay : NthWeekdays(m, r.byDay[i]) # <<>>
    /\ r.byMonthDay # <<>> => \E i \in DOMAIN r.byMonthDay : MonthDay(m, r.byMonthDay[i]) # <<>>
SelectedInMonth(start, r, d) ==
    /\ r.byDay # <<>> => \E i \in DOMAIN r.byDay : NamedInMonth(d, r.byDay[i])
    /\ r.byMonthDay # <<>> => MatchesMonthDay(d, r.byMonthDay)
    /\ r.byDay = <<>> /\ r.byMonthDay = <<>> => DayOf(d) = DayOf(start)

\* A month's candidates rise, and are its selected dates.
LEMMA MonthCandidatesAre ==
    ASSUME NEW start \in Dates, NEW r \in WrittenRules, NEW m \in Months, HasDays(r, m)
    PROVE  /\ MonthCandidates(m, start, r) \in Seq(Int) /\ Rises(MonthCandidates(m, start, r))
           /\ \A x : x \in ToSet(MonthCandidates(m, start, r))
                  <=> x \in Dates /\ MonthOf[x] = m /\ SelectedInMonth(start, r, x)
<1> DEFINE byDay == WeekdaysAsked(m, r.byDay)
           byMonthDay == MonthDaysAsked(m, r.byMonthDay)
           startDay == MonthDay(m, DayOf(start))
           s == AskedFor(byDay, byMonthDay, startDay)
           In(x) == x \in Dates /\ MonthOf[x] = m
           D(x) == \E i \in DOMAIN r.byDay : NamedInMonth(x, r.byDay[i])
           M(x) == MatchesMonthDay(x, r.byMonthDay)
           S(x) == DayOf(x) = DayOf(start)
<1>1. /\ byDay \in Seq(Int) /\ \A x : x \in ToSet(byDay) <=> In(x) /\ D(x)
      /\ byMonthDay \in Seq(Int) /\ \A x : x \in ToSet(byMonthDay) <=> In(x) /\ M(x)
  BY AskedInMonth
<1>2. startDay \in Seq(Int) /\ \A x : x \in ToSet(startDay) <=> In(x) /\ S(x)
  <2>1. MonthOf[start] \in Months /\ start \in Int /\ FirstDay[MonthOf[start]] <= start
    BY MonthIs
  <2>2. FirstDay[MonthOf[start]] \in Int
    BY <2>1, MonthHas
  <2>3. DayOf(start) \in Int /\ ~(DayOf(start) < 0)
    BY <2>1, <2>2 DEF DayOf
  <2> QED BY <2>3, MonthDayIs
<1> HIDE DEF byDay, byMonthDay, startDay, D, M, S, In
<1>3. r.byDay = <<>> <=> byDay = <<>>
  <2>1. byDay = <<>> <=> ToSet(byDay) = {}
    BY <1>1, NothingIn
  <2>2. CASE r.byDay = <<>>
    <3>1. \A x : ~D(x)
      BY <2>2 DEF D
    <3> QED BY <1>1, <2>1, <2>2, <3>1
  <2>3. CASE r.byDay # <<>>
    <3>1. PICK i \in DOMAIN r.byDay : NthWeekdays(m, r.byDay[i]) # <<>>
      BY <2>3 DEF HasDays
    <3>2. r.byDay[i] \in Entries
      <4>1. r.byDay \in Seq(Entries)
        BY DEF WrittenRules, Entries
      <4>2. \A T : \A t \in Seq(T) : \A j \in DOMAIN t : t[j] \in T
        OBVIOUS
      <4> QED BY ONLY <4>1, <4>2, i \in DOMAIN r.byDay
    <3>3. ToSet(NthWeekdays(m, r.byDay[i])) # {}
      BY <3>1, <3>2, NthWeekdaysAre, NothingIn
    <3>4. PICK x : x \in ToSet(NthWeekdays(m, r.byDay[i]))
      BY <3>3
    <3>5. x \in Dates /\ MonthOf[x] = m /\ NamedInMonth(x, r.byDay[i])
      BY <3>2, <3>4, NthWeekdaysAre
    <3>6. In(x) /\ D(x)
      BY <3>5 DEF In, D
    <3> QED BY <1>1, <2>1, <2>3, <3>6
  <2> QED BY <2>2, <2>3
<1>4. r.byMonthDay = <<>> <=> byMonthDay = <<>>
  <2>1. byMonthDay = <<>> <=> ToSet(byMonthDay) = {}
    BY <1>1, NothingIn
  <2>2. CASE r.byMonthDay = <<>>
    <3>1. \A x : ~M(x)
      BY <2>2 DEF M, MatchesMonthDay, ToSet
    <3> QED BY <1>1, <2>1, <2>2, <3>1
  <2>3. CASE r.byMonthDay # <<>>
    <3>1. PICK i \in DOMAIN r.byMonthDay : MonthDay(m, r.byMonthDay[i]) # <<>>
      BY <2>3 DEF HasDays
    <3>2. r.byMonthDay[i] \in Int
      BY DEF WrittenRules
    <3>3. ToSet(MonthDay(m, r.byMonthDay[i])) # {}
      BY <3>1, <3>2, MonthDayIs, NothingIn
    <3>4. PICK x : x \in ToSet(MonthDay(m, r.byMonthDay[i]))
      BY <3>3
    <3> DEFINE n == r.byMonthDay[i]
    <3>5. /\ x \in Dates /\ MonthOf[x] = m
          /\ n = DayOf(x) \/ (n < 0 /\ DaysIn(MonthOf[x]) + n + 1 = DayOf(x))
      BY <3>2, <3>4, MonthDayIs
    <3>6. n \in ToSet(r.byMonthDay)
      BY DEF ToSet
    <3> HIDE DEF n
    <3>7. In(x) /\ M(x)
      BY <3>5, <3>6 DEF In, M, MatchesMonthDay
    <3> QED BY <1>1, <2>1, <2>3, <3>7
  <2> QED BY <2>2, <2>3
<1>5. /\ s \in Seq(Int)
      /\ \A x : x \in ToSet(s)
             <=> /\ In(x) /\ (r.byDay # <<>> => D(x)) /\ (r.byMonthDay # <<>> => M(x))
                 /\ (r.byDay = <<>> /\ r.byMonthDay = <<>> => S(x))
  <2>1. CASE r.byDay # <<>> /\ r.byMonthDay # <<>>
    <3>1. s = Kept(byMonthDay, ToSet(byDay))
      BY <1>3, <1>4, <2>1 DEF AskedFor
    <3>2. /\ Kept(byMonthDay, ToSet(byDay)) \in Seq(Int)
          /\ ToSet(Kept(byMonthDay, ToSet(byDay))) = ToSet(byMonthDay) \intersect ToSet(byDay)
      BY <1>1, KeptAre
    <3> HIDE DEF s
    <3> QED BY <1>1, <2>1, <3>1, <3>2
  <2>2. CASE r.byDay # <<>> /\ r.byMonthDay = <<>>
    <3>1. s = byDay
      BY <1>3, <1>4, <2>2 DEF AskedFor
    <3> HIDE DEF s
    <3> QED BY <1>1, <2>2, <3>1
  <2>3. CASE r.byDay = <<>> /\ r.byMonthDay # <<>>
    <3>1. s = byMonthDay
      BY <1>3, <1>4, <2>3 DEF AskedFor
    <3> HIDE DEF s
    <3> QED BY <1>1, <2>3, <3>1
  <2>4. CASE r.byDay = <<>> /\ r.byMonthDay = <<>>
    <3>1. s = startDay
      BY <1>3, <1>4, <2>4 DEF AskedFor
    <3> HIDE DEF s
    <3> QED BY <1>2, <2>4, <3>1
  <2> QED BY <2>1, <2>2, <2>3, <2>4
<1>6. MonthCandidates(m, start, r) = Ascending(s)
  BY DEF MonthCandidates, byDay, byMonthDay, startDay
<1> HIDE DEF s
<1>7. /\ Ascending(s) \in Seq(Int) /\ ToSet(Ascending(s)) = ToSet(s) /\ Rises(Ascending(s))
  BY <1>5, AscendingIs
<1>8. \A x : SelectedInMonth(start, r, x)
          <=> /\ (r.byDay # <<>> => D(x)) /\ (r.byMonthDay # <<>> => M(x))
              /\ (r.byDay = <<>> /\ r.byMonthDay = <<>> => S(x))
  BY DEF SelectedInMonth, D, M, S
<1> QED BY <1>5, <1>6, <1>7, <1>8 DEF In

\* The candidates of several months, one month after the other.
LEMMA OfMonthsAre ==
    ASSUME NEW start \in Dates, NEW r \in WrittenRules, \A m \in Months : HasDays(r, m),
           NEW months \in Seq(Months)
    PROVE  /\ OfMonths(months, start, r) \in Seq(Int)
           /\ Climbs(months) => Rises(OfMonths(months, start, r))
           /\ \A x : x \in ToSet(OfMonths(months, start, r))
                  <=> x \in Dates /\ MonthOf[x] \in ToSet(months) /\ SelectedInMonth(start, r, x)
<1> DEFINE ss == [i \in DOMAIN months |-> MonthCandidates(months[i], start, r)]
<1>1. Len(months) \in Nat /\ DOMAIN months = 1 .. Len(months) /\ \A i \in DOMAIN months : months[i] \in Months
  OBVIOUS
<1>2. \A i \in DOMAIN months :
          /\ MonthCandidates(months[i], start, r) \in Seq(Int)
          /\ Rises(MonthCandidates(months[i], start, r))
          /\ \A x : x \in ToSet(MonthCandidates(months[i], start, r))
                 <=> x \in Dates /\ MonthOf[x] = months[i] /\ SelectedInMonth(start, r, x)
  BY <1>1, MonthCandidatesAre
<1>3. ss \in [1 .. Len(months) -> Seq(Int)]
  BY <1>1, <1>2
<1>4. DOMAIN ss = DOMAIN months /\ \A i \in DOMAIN months : ss[i] = MonthCandidates(months[i], start, r)
  OBVIOUS
<1>5. OfMonths(months, start, r) = FlattenSeq(ss)
  BY DEF OfMonths
<1> HIDE DEF ss
<1>6. ss \in Seq(Seq(Int))
  <2>1. \A n \in Nat : \A f \in [1 .. n -> Seq(Int)] : f \in Seq(Seq(Int))
    BY SeqDef
  <2> QED BY ONLY <1>1, <1>3, <2>1
<1>7. /\ FlattenSeq(ss) \in Seq(Int)
      /\ ToSet(FlattenSeq(ss)) = UNION {ToSet(ss[i]) : i \in DOMAIN ss}
  BY <1>6, FlattenedAre
<1>8. ASSUME Climbs(months) PROVE Rises(FlattenSeq(ss))
  <2>1. \A i \in DOMAIN ss : Rises(ss[i])
    BY <1>2, <1>4
  <2>2. ASSUME NEW i \in DOMAIN ss, NEW j \in DOMAIN ss, i < j, NEW x \in ToSet(ss[i]),
               NEW y \in ToSet(ss[j])
        PROVE  x <= y
    <3>1. x \in Dates /\ MonthOf[x] = months[i] /\ y \in Dates /\ MonthOf[y] = months[j]
      BY <1>2, <1>4
    <3>2. months[i] < months[j]
      BY <1>4, <1>8, <2>2 DEF Climbs
    <3>3. months[i] \in Int /\ months[j] \in Int /\ x \in Int /\ y \in Int
      <4>1. Months \subseteq Int
        BY FirstDays DEF Months
      <4>2. months[i] \in Months /\ months[j] \in Months
        BY <1>1, <1>4
      <4>3. \A d \in Dates : d \in Int
        BY MonthIs
      <4> QED BY ONLY <3>1, <4>1, <4>2, <4>3
    <3>4. y <= x => MonthOf[y] <= MonthOf[x]
      BY <3>1, MonthsInOrder
    <3> QED BY <3>1, <3>2, <3>3, <3>4
  <2> QED BY <1>6, <2>1, <2>2, FlattenedRises
<1>9. ASSUME NEW x
      PROVE  x \in ToSet(FlattenSeq(ss))
                 <=> x \in Dates /\ MonthOf[x] \in ToSet(months) /\ SelectedInMonth(start, r, x)
  <2>1. x \in ToSet(FlattenSeq(ss))
           <=> \E i \in DOMAIN months : x \in Dates /\ MonthOf[x] = months[i] /\ SelectedInMonth(start, r, x)
    BY <1>2, <1>4, <1>7
  <2>2. MonthOf[x] \in ToSet(months) <=> \E i \in DOMAIN months : MonthOf[x] = months[i]
    BY DEF ToSet
  <2> QED BY <2>1, <2>2
<1> QED BY <1>5, <1>7, <1>8, <1>9

\* What is below a quotient.
LEMMA BelowQuotient ==
    ASSUME NEW a \in Int, NEW k \in Nat \ {0}, NEW q \in Int
    PROVE  q < a \div k <=> q * k + k <= a
<1> DEFINE p == a \div k
           e == a % k
<1>1. p \in Int /\ e \in 0 .. k - 1 /\ a = p * k + e
  BY Divided
<1> HIDE DEF p, e
<1>2. ASSUME q < p PROVE q * k + k <= p * k
  <2>1. q + 1 \in Int /\ q + 1 <= p
    BY <1>1, <1>2
  <2>2. (q + 1) * k <= p * k
    BY <1>1, <2>1, Products
  <2>3. (q + 1) * k = q * k + k
    OBVIOUS
  <2> QED BY <2>2, <2>3
<1>3. ASSUME p <= q PROVE p * k <= q * k
  BY <1>1, <1>3, Products
<1> DEFINE x == p * k
           y == q * k
<1>4. x \in Int /\ y \in Int /\ a = x + e /\ (q < p => y + k <= x) /\ (p <= q => x <= y)
  BY <1>1, <1>2, <1>3
<1> HIDE DEF x, y
<1>5. q < p <=> y + k <= a
  BY <1>1, <1>4
<1> QED BY <1>5 DEF p, y

\* The periods a walk visits: those an interval apart whose next one is not
\* too late.
LEMMA PeriodsAre ==
    ASSUME NEW first \in Int, NEW k \in Nat \ {0}, NEW last \in Int
    PROVE  /\ Periods(first, k, last) \in Seq(Int) /\ Climbs(Periods(first, k, last))
           /\ \A x \in Int : x \in ToSet(Periods(first, k, last))
                  <=> first <= x /\ (x - first) % k = 0 /\ x + k <= last
<1> DEFINE n == (last - first) \div k
           s == Steps(first, k, n)
<1>1. last - first \in Int /\ n \in Int
  BY Divided
<1>2. Periods(first, k, last) = s
  BY DEF Periods
<1> HIDE DEF n
<1>3. /\ s \in Seq(Int)
      /\ \A x \in Int : x \in ToSet(s) <=> first <= x /\ (x - first) % k = 0 /\ (x - first) \div k < n
      /\ \A i, j \in DOMAIN s : i < j => s[i] + k <= s[j]
  BY ONLY <1>1, Stepped, first \in Int, k \in Nat \ {0}
<1> HIDE DEF s
<1>4. Climbs(s)
  <2> SUFFICES ASSUME NEW i \in DOMAIN s, NEW j \in DOMAIN s, i < j PROVE s[i] < s[j]
    BY DEF Climbs
  <2>1. s[i] + k <= s[j] /\ s[i] \in Int /\ s[j] \in Int
    BY <1>3
  <2> QED BY <2>1
<1>5. ASSUME NEW x \in Int, (x - first) % k = 0
      PROVE  (x - first) \div k < n <=> x + k <= last
  <2> DEFINE a == x - first
             q == a \div k
             y == q * k
  <2>1. a \in Int /\ q \in Int
    BY Divided
  <2>2. a = y
    <3> HIDE DEF a
    <3> QED BY ONLY <1>5, <2>1, Multiple, k \in Nat \ {0} DEF a
  <2>3. q < n <=> y + k <= last - first
    <3> HIDE DEF q
    <3> QED BY ONLY <1>1, <2>1, BelowQuotient, k \in Nat \ {0} DEF n
  <2>4. y \in Int
    BY <2>1, <2>2
  <2> HIDE DEF y
  <2>5. y + k <= last - first <=> x + k <= last
    BY <2>2, <2>4
  <2> QED BY <2>3, <2>5
<1>6. \A x \in Int : x \in ToSet(s) <=> first <= x /\ (x - first) % k = 0 /\ x + k <= last
  BY ONLY <1>3, <1>5
<1> QED BY <1>2, <1>3, <1>4, <1>6

\* The last period there is on the calendar.
LEMMA LastPeriodIs ==
    ASSUME NEW start \in Dates
    PROVE  /\ YearMonths \in Nat \ {0} /\ MonthOf[start] \in Nat /\ YearOf(start) \in Nat
           /\ LastPeriod(start) \in Int /\ (LastPeriod(start) + 1) * YearMonths <= Len(Lengths)
<1>1. YearMonths \in Nat \ {0} /\ MaxOccurrences \in Nat /\ Len(Lengths) \in Nat
  BY CalendarAssumption, FirstDays DEF CalendarAssumption
<1>2. MonthOf[start] \in Nat
  BY MonthIs, MonthHas
<1>3. YearOf(start) \in Nat
  BY <1>1, <1>2, Quotient DEF YearOf
<1>4. LastYear(start) \in Nat
  BY <1>1, <1>3 DEF LastYear
<1> DEFINE y == LastYear(start)
           q == Len(Lengths) \div YearMonths
<1>5. q \in Nat /\ q * YearMonths <= Len(Lengths)
  BY <1>1, Quotient
<1>6. LastPeriod(start) = IF (y + 1) * YearMonths <= Len(Lengths) THEN y ELSE q - 1
  BY DEF LastPeriod
<1> HIDE DEF y, q
<1>7. CASE (y + 1) * YearMonths <= Len(Lengths)
  <2>1. LastPeriod(start) = y
    BY <1>6, <1>7
  <2> QED BY <1>1, <1>2, <1>3, <1>4, <1>7, <2>1 DEF y
<1>8. CASE ~((y + 1) * YearMonths <= Len(Lengths))
  <2>1. LastPeriod(start) = q - 1 /\ (q - 1) + 1 = q
    BY <1>5, <1>6, <1>8
  <2>2. LastPeriod(start) \in Int /\ LastPeriod(start) + 1 = q
    BY <1>5, <2>1
  <2> QED BY <1>1, <1>2, <1>3, <1>5, <2>2
<1> QED BY <1>7, <1>8

\* The walk of each month.
LEMMA MonthlyLists ==
    ASSUME NEW start \in Dates, NEW r \in WrittenRules, r.freq = "MONTHLY",
           \A m \in Months : HasDays(r, m)
    PROVE  Lists(start, r, Monthly(start, r))
<1> DEFINE k == r.interval
           first == MonthOf[start]
           last == (LastPeriod(start) + 1) * YearMonths - 1
           months == Periods(first, k, last)
           s == OfMonths(months, start, r)
           all == start .. LastDate
<1>1. /\ first \in Nat /\ last \in Int /\ k \in Nat \ {0}
      /\ last < Len(Lengths) /\ Len(Lengths) \in Nat /\ start \in Nat /\ LastDate \in Int
  <2>1. (LastPeriod(start) + 1) * YearMonths <= Len(Lengths) /\ first \in Nat
        /\ (LastPeriod(start) + 1) * YearMonths \in Int
    BY LastPeriodIs
  <2>2. k \in Nat \ {0} /\ Len(Lengths) \in Nat /\ LastDate \in Int /\ start \in Nat
    BY FirstDays, MonthIs DEF WrittenRules
  <2> QED BY <2>1, <2>2
<1>2. LooksAt(start, r, start) \in BOOLEAN /\ \A d \in Dates : LooksAt(start, r, d) <=> MonthOf[d] + k <= last
  <2> SUFFICES ASSUME NEW d \in Dates PROVE LooksAt(start, r, d) <=> MonthOf[d] + k <= last
    BY DEF LooksAt
  <2>1. MonthOf[d] \in Int
    BY MonthIs, MonthHas
  <2>2. LooksAt(start, r, d) <=> MonthOf[d] + k < (LastPeriod(start) + 1) * YearMonths
    BY DEF LooksAt
  <2> DEFINE x == (LastPeriod(start) + 1) * YearMonths
  <2>3. x \in Int /\ last = x - 1
    BY LastPeriodIs
  <2> HIDE DEF x, last, k
  <2>4. MonthOf[d] + k < x <=> MonthOf[d] + k <= last
    BY <1>1, <2>1, <2>3
  <2> QED BY <2>2, <2>4 DEF x, k
<1> HIDE DEF last, k
<1>3. /\ months \in Seq(Int) /\ Climbs(months)
      /\ \A x \in Int : x \in ToSet(months) <=> first <= x /\ (x - first) % k = 0 /\ x + k <= last
  <2>1. first \in Int /\ last \in Int /\ k \in Nat \ {0}
    BY <1>1
  <2> QED BY ONLY <2>1, PeriodsAre
<1> HIDE DEF first, months
<1>4. months \in Seq(Months)
  <2>1. Len(months) \in Nat /\ DOMAIN months = 1 .. Len(months) /\ \A i \in DOMAIN months : months[i] \in Int
    BY <1>3
  <2>2. \A i \in DOMAIN months : months[i] \in Months
    <3> SUFFICES ASSUME NEW i \in DOMAIN months PROVE months[i] \in Months
      OBVIOUS
    <3>1. months[i] \in ToSet(months) /\ months[i] \in Int
      BY <2>1 DEF ToSet
    <3>2. first <= months[i] /\ months[i] + k <= last
      BY <1>3, <3>1
    <3> QED BY <1>1, <3>1, <3>2 DEF Months
  <2>3. months \in [1 .. Len(months) -> Months]
    BY <1>3, <2>1, <2>2
  <2>4. \A n \in Nat : \A f \in [1 .. n -> Months] : f \in Seq(Months)
    BY SeqDef
  <2> QED BY ONLY <2>1, <2>3, <2>4
<1>5. /\ s \in Seq(Int) /\ Rises(s)
      /\ \A x : x \in ToSet(s)
             <=> x \in Dates /\ MonthOf[x] \in ToSet(months) /\ SelectedInMonth(start, r, x)
  BY <1>3, <1>4, OfMonthsAre
<1>6. Monthly(start, r) = Kept(s, all)
  BY DEF Monthly, From, months, first, last, k
<1> HIDE DEF s
<1>7. /\ Kept(s, all) \in Seq(Int) /\ ToSet(Kept(s, all)) = ToSet(s) \intersect all
      /\ Rises(Kept(s, all))
  <2> HIDE DEF all
  <2> QED BY <1>5, KeptAre
<1>8. ASSUME NEW d \in all PROVE d \in ToSet(s) /\ RuleMatches(d, r) <=> Chosen(start, r, d)
  <2>1. d \in Dates /\ start <= d
    BY <1>1 DEF Dates
  <2>2. MonthOf[d] \in Int /\ first <= MonthOf[d]
    BY <2>1, MonthsInOrder, MonthIs, MonthHas DEF first
  <2>3. MonthOf[d] \in ToSet(months) <=> (MonthOf[d] - first) % k = 0 /\ LooksAt(start, r, d)
    BY <1>2, <1>3, <2>1, <2>2
  <2>4. InPeriod(start, r, d) <=> (MonthOf[d] - first) % k = 0
    BY DEF InPeriod, first, k
  <2>5. (\E i \in DOMAIN r.byDay : NamedInMonth(d, r.byDay[i]))
           <=> \E i \in DOMAIN r.byDay : Named(d, r, r.byDay[i])
    BY DEF Named, NamedInMonth
  <2>6. r.freq # "YEARLY" /\ r.freq = "MONTHLY" /\ r.freq # "WEEKLY" /\ r.freq # "DAILY"
    OBVIOUS
  <2>7. SelectedInMonth(start, r, d) /\ RuleMatches(d, r) <=> Selected(start, r, d)
    BY <2>5, <2>6 DEF SelectedInMonth, RuleMatches, Selected
  <2> QED BY <1>5, <2>1, <2>3, <2>4, <2>7 DEF Chosen
<1>9. \A d \in all : d \in ToSet(Monthly(start, r)) /\ RuleMatches(d, r) <=> Chosen(start, r, d)
  <2> HIDE DEF all
  <2> QED BY <1>6, <1>7, <1>8
<1>10. ToSet(Monthly(start, r)) \subseteq all
  <2> HIDE DEF all
  <2> QED BY <1>6, <1>7
<1> QED BY <1>6, <1>7, <1>9, <1>10 DEF Lists

\* The months of a year on the calendar.
LEMMA MonthsOfYearAre ==
    ASSUME NEW start \in Dates, NEW y \in Nat, y <= LastPeriod(start),
           NEW months \in Seq(0 .. YearMonths - 1)
    PROVE  /\ MonthsOfYear(y, months) \in Seq(Months)
           /\ \A m \in Months : m \in ToSet(MonthsOfYear(y, months))
                  <=> m \div YearMonths = y /\ m % YearMonths \in ToSet(months)
<1> DEFINE Y == YearMonths
           s == MonthsOfYear(y, months)
           last == LastPeriod(start)
<1>1. Y \in Nat \ {0} /\ last \in Int /\ (last + 1) * Y <= Len(Lengths) /\ Len(Lengths) \in Nat
  BY LastPeriodIs, FirstDays
<1>2. /\ Len(months) \in Nat /\ DOMAIN months = 1 .. Len(months)
      /\ \A i \in DOMAIN months : months[i] \in 0 .. Y - 1
  <2>1. \A S : \A u \in Seq(S) : Len(u) \in Nat /\ DOMAIN u = 1 .. Len(u) /\ \A i \in DOMAIN u : u[i] \in S
    OBVIOUS
  <2> QED BY ONLY <2>1, months \in Seq(0 .. YearMonths - 1)
<1>3. s = [i \in DOMAIN months |-> y * Y + months[i]]
  BY DEF MonthsOfYear
<1> HIDE DEF Y, last, s
<1>4. y * Y \in Nat /\ y * Y + Y <= Len(Lengths)
  <2>1. y + 1 \in Int /\ last + 1 \in Int /\ y + 1 <= last + 1
    BY <1>1 DEF last
  <2>2. (y + 1) * Y <= (last + 1) * Y
    BY <1>1, <2>1, Products
  <2>3. (y + 1) * Y = y * Y + Y /\ y * Y \in Nat /\ (last + 1) * Y \in Int
    BY <1>1
  <2> QED BY <1>1, <2>2, <2>3
<1>5. \A o \in 0 .. Y - 1 : y * Y + o \in Months
  <2> DEFINE p == y * Y
  <2>1. p \in Nat /\ p + Y <= Len(Lengths)
    BY <1>4
  <2> HIDE DEF p
  <2>2. \A o \in 0 .. Y - 1 : p + o \in Months
    BY <1>1, <2>1 DEF Months
  <2> QED BY <2>2 DEF p
<1>6. DOMAIN s = DOMAIN months /\ \A i \in DOMAIN months : s[i] = y * Y + months[i]
  BY <1>3
<1>7. s \in Seq(Months)
  <2>1. s \in [1 .. Len(months) -> Months]
    <3>1. \A i \in DOMAIN months : y * Y + months[i] \in Months
      BY <1>2, <1>5
    <3> QED BY <1>2, <1>3, <3>1
  <2>2. \A n \in Nat : \A f \in [1 .. n -> Months] : f \in Seq(Months)
    BY SeqDef
  <2> QED BY ONLY <1>2, <2>1, <2>2
<1>8. ASSUME NEW m \in Months
      PROVE  m \in ToSet(s) <=> m \div Y = y /\ m % Y \in ToSet(months)
  <2> DEFINE q == m \div Y
             o == m % Y
  <2>1. m \in Int /\ q \in Int /\ o \in 0 .. Y - 1 /\ m = q * Y + o
    <3>1. m \in Int
      BY MonthHas
    <3> QED BY ONLY <1>1, <3>1, Divided
  <2>2. \A x \in 0 .. Y - 1 : m = y * Y + x => q = y /\ o = x
    <3> HIDE DEF q, o
    <3> SUFFICES ASSUME NEW x \in 0 .. Y - 1, m = y * Y + x PROVE m \div Y = y /\ m % Y = x
      BY DEF q, o
    <3>1. m \in Int /\ y \in Int /\ Y \in Nat \ {0} /\ x \in 0 .. Y - 1
      BY <1>1, <2>1
    <3>2. m = y * Y + x
      OBVIOUS
    <3> QED BY ONLY <3>1, <3>2, DividedOnce, Zenon
  <2> HIDE DEF q, o
  <2>3. m \in ToSet(s) <=> \E i \in DOMAIN months : m = y * Y + months[i]
    BY <1>6 DEF ToSet
  <2>4. o \in ToSet(months) <=> \E i \in DOMAIN months : o = months[i]
    BY DEF ToSet
  <2>5. ASSUME NEW i \in DOMAIN months, m = y * Y + months[i] PROVE q = y /\ o = months[i]
    BY <1>2, <2>2, <2>5
  <2>6. q = y /\ o \in ToSet(months) => m \in ToSet(s)
    BY <2>1, <2>3, <2>4
  <2>7. m \in ToSet(s) => q = y /\ o \in ToSet(months)
    BY <2>3, <2>4, <2>5
  <2> QED BY <2>6, <2>7 DEF q, o
<1> QED BY <1>7, <1>8 DEF s, Y

\* The candidates of several years, one year after the other.
LEMMA OfYearsAre ==
    ASSUME NEW start \in Dates, NEW r \in WrittenRules, \A m \in Months : HasDays(r, m),
           NEW months \in Seq(0 .. YearMonths - 1), NEW years \in Seq(Nat), Climbs(years),
           \A i \in DOMAIN years : years[i] <= LastPeriod(start)
    PROVE  /\ OfYears(years, months, start, r) \in Seq(Int)
           /\ Rises(OfYears(years, months, start, r))
           /\ \A x : x \in ToSet(OfYears(years, months, start, r))
                  <=> /\ x \in Dates /\ YearOf(x) \in ToSet(years) /\ MonthInYear(x) \in ToSet(months)
                      /\ SelectedInMonth(start, r, x)
<1> DEFINE t(y) == OfMonths(MonthsOfYear(y, months), start, r)
           ss == [i \in DOMAIN years |-> Ascending(t(years[i]))]
           P(x) == MonthInYear(x) \in ToSet(months) /\ SelectedInMonth(start, r, x)
<1>1. Len(years) \in Nat /\ DOMAIN years = 1 .. Len(years) /\ \A i \in DOMAIN years : years[i] \in Nat
  OBVIOUS
<1>2. ASSUME NEW i \in DOMAIN years
      PROVE  /\ Ascending(t(years[i])) \in Seq(Int) /\ Rises(Ascending(t(years[i])))
             /\ \A x : x \in ToSet(Ascending(t(years[i]))) <=> x \in Dates /\ YearOf(x) = years[i] /\ P(x)
  <2> DEFINE y == years[i]
             u == MonthsOfYear(y, months)
  <2>1. y \in Nat /\ y <= LastPeriod(start)
    BY <1>1
  <2> HIDE DEF y
  <2>2. /\ u \in Seq(Months)
        /\ \A m \in Months : m \in ToSet(u) <=> m \div YearMonths = y /\ m % YearMonths \in ToSet(months)
    BY <2>1, MonthsOfYearAre
  <2> HIDE DEF u
  <2>3. /\ OfMonths(u, start, r) \in Seq(Int)
        /\ \A x : x \in ToSet(OfMonths(u, start, r))
               <=> x \in Dates /\ MonthOf[x] \in ToSet(u) /\ SelectedInMonth(start, r, x)
    BY <2>2, OfMonthsAre
  <2>4. \A x \in Dates : MonthOf[x] \in Months
    BY MonthIs
  <2>5. \A x \in Dates : MonthOf[x] \in ToSet(u) <=> YearOf(x) = y /\ MonthInYear(x) \in ToSet(months)
    BY <2>2, <2>4 DEF YearOf, MonthInYear
  <2>6. t(y) = OfMonths(u, start, r)
    BY DEF u
  <2> HIDE DEF t
  <2>7. /\ Ascending(t(y)) \in Seq(Int) /\ Rises(Ascending(t(y)))
        /\ ToSet(Ascending(t(y))) = ToSet(t(y))
    BY <2>3, <2>6, AscendingIs
  <2>8. \A x : x \in ToSet(t(y)) <=> x \in Dates /\ YearOf(x) = y /\ P(x)
    BY <2>3, <2>5, <2>6
  <2> HIDE DEF P
  <2> QED BY <2>7, <2>8 DEF y
<1> HIDE DEF t, P
<1>3. ss \in [1 .. Len(years) -> Seq(Int)]
  BY <1>1, <1>2
<1>4. DOMAIN ss = DOMAIN years /\ \A i \in DOMAIN years : ss[i] = Ascending(t(years[i]))
  OBVIOUS
<1>5. OfYears(years, months, start, r) = FlattenSeq(ss)
  BY DEF OfYears, t
<1> HIDE DEF ss
<1>6. ss \in Seq(Seq(Int))
  <2>1. \A n \in Nat : \A f \in [1 .. n -> Seq(Int)] : f \in Seq(Seq(Int))
    BY SeqDef
  <2> QED BY ONLY <1>1, <1>3, <2>1
<1>7. /\ FlattenSeq(ss) \in Seq(Int)
      /\ ToSet(FlattenSeq(ss)) = UNION {ToSet(ss[i]) : i \in DOMAIN ss}
  BY <1>6, FlattenedAre
<1>8. Rises(FlattenSeq(ss))
  <2>1. \A i \in DOMAIN ss : Rises(ss[i])
    BY <1>2, <1>4
  <2>2. ASSUME NEW i \in DOMAIN ss, NEW j \in DOMAIN ss, i < j, NEW x \in ToSet(ss[i]),
               NEW w \in ToSet(ss[j])
        PROVE  x <= w
    <3>1. x \in Dates /\ YearOf(x) = years[i] /\ w \in Dates /\ YearOf(w) = years[j]
      BY <1>2, <1>4
    <3>2. years[i] < years[j]
      BY <1>4, <2>2 DEF Climbs
    <3>3. years[i] \in Nat /\ years[j] \in Nat
      BY <1>1, <1>4
    <3>4. x \in Int /\ w \in Int /\ MonthOf[x] \in Nat /\ MonthOf[w] \in Nat /\ YearMonths \in Nat \ {0}
      BY <3>1, MonthIs, MonthHas, LastPeriodIs
    <3>5. ASSUME w <= x PROVE YearOf(w) <= YearOf(x)
      <4>1. MonthOf[w] <= MonthOf[x]
        BY <3>1, <3>5, MonthsInOrder
      <4> QED BY ONLY <3>4, <4>1, Quotients DEF YearOf
    <3> QED BY <3>1, <3>2, <3>3, <3>4, <3>5
  <2> QED BY <1>6, <2>1, <2>2, FlattenedRises
<1>9. ASSUME NEW x
      PROVE  x \in ToSet(FlattenSeq(ss)) <=> x \in Dates /\ YearOf(x) \in ToSet(years) /\ P(x)
  <2>1. x \in ToSet(FlattenSeq(ss)) <=> \E i \in DOMAIN years : x \in Dates /\ YearOf(x) = years[i] /\ P(x)
    BY <1>2, <1>4, <1>7
  <2>2. YearOf(x) \in ToSet(years) <=> \E i \in DOMAIN years : YearOf(x) = years[i]
    BY DEF ToSet
  <2> QED BY <2>1, <2>2
<1> QED BY <1>5, <1>7, <1>8, <1>9 DEF P

\* The walk of each year: a year's own month and day, or the months and
\* days written.
LEMMA YearlyLists ==
    ASSUME NEW start \in Dates, NEW r \in WrittenRules, r.freq = "YEARLY",
           \A m \in Months : HasDays(r, m),
           r.byMonth = <<>> => r.byDay = <<>> /\ r.byMonthDay = <<>>
    PROVE  Lists(start, r, Yearly(start, r))
<1> DEFINE k == r.interval
           first == YearOf(start)
           last == LastPeriod(start)
           years == Periods(first, k, last)
           months == YearMonthsOf(start, r)
           s == OfYears(years, months, start, r)
           all == start .. LastDate
<1>1. /\ first \in Nat /\ last \in Int /\ k \in Nat \ {0} /\ YearMonths \in Nat \ {0}
      /\ start \in Nat /\ LastDate \in Int /\ MonthOf[start] \in Nat
  BY LastPeriodIs, FirstDays, MonthIs DEF WrittenRules
<1>2. \A d \in Dates : LooksAt(start, r, d) <=> YearOf(d) + k <= last
  BY DEF LooksAt
<1> HIDE DEF last, k, first
<1>3. /\ years \in Seq(Int) /\ Climbs(years)
      /\ \A x \in Int : x \in ToSet(years) <=> first <= x /\ (x - first) % k = 0 /\ x + k <= last
  <2>1. first \in Int /\ last \in Int /\ k \in Nat \ {0}
    BY <1>1
  <2> QED BY ONLY <2>1, PeriodsAre
<1> HIDE DEF years
<1>4. years \in Seq(Nat) /\ \A i \in DOMAIN years : years[i] <= last
  <2>1. Len(years) \in Nat /\ DOMAIN years = 1 .. Len(years) /\ \A i \in DOMAIN years : years[i] \in Int
    BY <1>3
  <2>2. \A i \in DOMAIN years : years[i] \in Nat /\ years[i] <= last
    <3> SUFFICES ASSUME NEW i \in DOMAIN years PROVE years[i] \in Nat /\ years[i] <= last
      OBVIOUS
    <3>1. years[i] \in ToSet(years) /\ years[i] \in Int
      BY <2>1 DEF ToSet
    <3>2. first <= years[i] /\ years[i] + k <= last
      BY <1>3, <3>1
    <3> QED BY <1>1, <3>1, <3>2
  <2>3. years \in [1 .. Len(years) -> Nat]
    BY <1>3, <2>1, <2>2
  <2>4. \A n \in Nat : \A f \in [1 .. n -> Nat] : f \in Seq(Nat)
    BY SeqDef
  <2>5. years \in Seq(Nat)
    BY ONLY <2>1, <2>3, <2>4
  <2> QED BY <2>2, <2>5
<1>5. /\ months \in Seq(0 .. YearMonths - 1)
      /\ \A x : x \in ToSet(months) <=> IF r.byMonth = <<>> THEN x = MonthInYear(start)
                                        ELSE x \in ToSet(r.byMonth)
  <2>1. CASE r.byMonth = <<>>
    <3>1. months = <<MonthInYear(start)>>
      BY <2>1 DEF YearMonthsOf
    <3>2. MonthInYear(start) \in 0 .. YearMonths - 1
      <4>1. MonthOf[start] \in Int /\ YearMonths \in Nat \ {0}
        BY <1>1
      <4>2. MonthOf[start] % YearMonths \in 0 .. YearMonths - 1
        BY ONLY <4>1, Divided
      <4> QED BY <4>2 DEF MonthInYear
    <3>3. \A y : ToSet(<<y>>) = {y}
      BY DEF ToSet
    <3> HIDE DEF months
    <3> QED BY <2>1, <3>1, <3>2, <3>3
  <2>2. CASE r.byMonth # <<>>
    BY <2>2 DEF YearMonthsOf, WrittenRules
  <2> QED BY <2>1, <2>2
<1> HIDE DEF months
<1>6. /\ s \in Seq(Int) /\ Rises(s)
      /\ \A x : x \in ToSet(s)
             <=> /\ x \in Dates /\ YearOf(x) \in ToSet(years) /\ MonthInYear(x) \in ToSet(months)
                 /\ SelectedInMonth(start, r, x)
  BY <1>3, <1>4, <1>5, OfYearsAre DEF last
<1>7. Yearly(start, r) = Kept(s, all)
  BY DEF Yearly, From, months, years, first, last, k
<1> HIDE DEF s
<1>8. /\ Kept(s, all) \in Seq(Int) /\ ToSet(Kept(s, all)) = ToSet(s) \intersect all
      /\ Rises(Kept(s, all))
  <2> HIDE DEF all
  <2> QED BY <1>6, KeptAre
<1>9. ASSUME NEW d \in all PROVE d \in ToSet(s) /\ RuleMatches(d, r) <=> Chosen(start, r, d)
  <2>1. d \in Dates /\ start <= d
    BY <1>1 DEF Dates
  <2>2. YearOf(d) \in Int /\ first <= YearOf(d)
    <3>1. MonthOf[start] <= MonthOf[d] /\ MonthOf[d] \in Nat
      BY <2>1, MonthsInOrder, MonthIs, MonthHas
    <3>2. YearOf(d) \in Nat
      BY <2>1, LastPeriodIs
    <3>3. YearOf(start) <= YearOf(d)
      BY ONLY <1>1, <3>1, Quotients DEF YearOf
    <3> QED BY <3>2, <3>3 DEF first
  <2>3. YearOf(d) \in ToSet(years) <=> (YearOf(d) - first) % k = 0 /\ LooksAt(start, r, d)
    BY <1>2, <1>3, <2>1, <2>2
  <2>4. InPeriod(start, r, d) <=> (YearOf(d) - first) % k = 0
    BY DEF InPeriod, first, k
  <2>5. (\E i \in DOMAIN r.byDay : NamedInMonth(d, r.byDay[i]))
           <=> \E i \in DOMAIN r.byDay : Named(d, r, r.byDay[i])
    BY DEF Named, NamedInMonth
  <2>6. r.freq # "MONTHLY" /\ r.freq = "YEARLY" /\ r.freq # "WEEKLY" /\ r.freq # "DAILY"
    OBVIOUS
  <2>7. RuleMatches(d, r)
    BY <2>6 DEF RuleMatches
  <2>8. MonthInYear(d) \in ToSet(months) /\ SelectedInMonth(start, r, d) <=> Selected(start, r, d)
    <3>1. CASE r.byMonth = <<>>
      BY <1>5, <2>6, <3>1 DEF SelectedInMonth, Selected
    <3>2. CASE r.byMonth # <<>>
      BY <1>5, <2>5, <2>6, <3>2 DEF SelectedInMonth, Selected
    <3> QED BY <3>1, <3>2
  <2> QED BY <1>6, <2>1, <2>3, <2>4, <2>7, <2>8 DEF Chosen
<1>10. \A d \in all : d \in ToSet(Yearly(start, r)) /\ RuleMatches(d, r) <=> Chosen(start, r, d)
  <2> HIDE DEF all
  <2> QED BY <1>7, <1>8, <1>9
<1>11. ToSet(Yearly(start, r)) \subseteq all
  <2> HIDE DEF all
  <2> QED BY <1>7, <1>8
<1> QED BY <1>7, <1>8, <1>10, <1>11 DEF Lists

-----------------------------------------------------------------------------
(* The candidates of a rule, up to its COUNT.                              *)

\* The first n of a rising sequence: those not above the last of them.
LEMMA AtMostIs ==
    ASSUME NEW s \in Seq(Int), Rises(s), NEW n \in Nat \ {0}
    PROVE  /\ AtMost(s, n) \in Seq(Int) /\ Rises(AtMost(s, n))
           /\ \A x : x \in ToSet(AtMost(s, n))
                  <=> x \in ToSet(s) /\ (Len(AtMost(s, n)) = n => x <= AtMost(s, n)[n])
<1> DEFINE u == AtMost(s, n)
           l == Len(s)
<1>1. l \in Nat /\ DOMAIN s = 1 .. l /\ \A i \in 1 .. l : s[i] \in Int
  OBVIOUS
<1>2. \A i, j \in 1 .. l : i <= j => s[i] <= s[j]
  <2> SUFFICES ASSUME NEW i \in 1 .. l, NEW j \in 1 .. l, i <= j PROVE s[i] <= s[j]
    OBVIOUS
  <2>1. i < j => s[i] <= s[j]
    BY <1>1 DEF Rises
  <2>2. i = j => s[i] <= s[j]
    BY <1>1
  <2> QED BY <2>1, <2>2
<1>3. \A x : x \in ToSet(s) <=> \E i \in 1 .. l : x = s[i]
  BY <1>1 DEF ToSet
<1> HIDE DEF l
<1>4. CASE l > n
  <2>1. u = SubSeq(s, 1, n)
    BY <1>4 DEF AtMost, l
  <2>2. Len(u) = n /\ DOMAIN u = 1 .. n /\ (\A i \in 1 .. n : u[i] = s[i]) /\ u \in Seq(Int)
    <3>1. 1 \in 1 .. l + 1 /\ n \in 0 .. l
      BY <1>1, <1>4
    <3>2. SubSeq(s, 1, n) = [i \in 1 .. n |-> s[i]]
      BY <1>1, <1>4 DEF l
    <3>3. u \in [1 .. n -> Int]
      <4>1. \A i \in 1 .. n : s[i] \in Int
        BY <1>1, <1>4
      <4> HIDE DEF u
      <4> QED BY ONLY <2>1, <3>2, <4>1
    <3> HIDE DEF u
    <3>4. DOMAIN u = 1 .. n /\ \A i \in 1 .. n : u[i] = s[i]
      BY <2>1, <3>2
    <3>5. \A m \in Nat : \A f \in [1 .. m -> Int] : f \in Seq(Int) /\ Len(f) = m
      BY SeqDef
    <3>6. u \in Seq(Int) /\ Len(u) = n
      BY ONLY <3>3, <3>5, n \in Nat \ {0}
    <3> QED BY <3>4, <3>6
  <2> HIDE DEF u
  <2>3. \A i \in 1 .. n : i \in 1 .. l
    BY <1>1, <1>4
  <2>4. Rises(u)
    <3>1. \A i, j \in 1 .. n : i < j => i <= j
      OBVIOUS
    <3> QED BY <1>2, <2>2, <2>3, <3>1 DEF Rises
  <2>5. \A x : x \in ToSet(u) <=> \E i \in 1 .. n : x = s[i]
    BY <2>2 DEF ToSet
  <2>6. n \in 1 .. n /\ n \in 1 .. l /\ u[n] = s[n]
    BY <2>2, <2>3
  <2>7. ASSUME NEW i \in 1 .. l, s[i] <= s[n] PROVE \E j \in 1 .. n : s[i] = s[j]
    <3>1. CASE i <= n
      BY <3>1
    <3>2. CASE n <= i
      <4>1. s[n] <= s[i] /\ s[n] \in Int /\ s[i] \in Int
        BY <1>1, <1>2, <2>6, <3>2
      <4>2. s[i] = s[n]
        BY <2>7, <4>1
      <4> QED BY <2>6, <4>2
    <3> QED BY <1>1, <3>1, <3>2
  <2>8. ASSUME NEW i \in 1 .. n PROVE i \in 1 .. l /\ s[i] <= s[n]
    BY <1>2, <2>3, <2>6
  <2>9. \A x : x \in ToSet(u) <=> x \in ToSet(s) /\ x <= u[n]
    <3>1. ASSUME NEW x \in ToSet(u) PROVE x \in ToSet(s) /\ x <= u[n]
      <4>1. PICK i \in 1 .. n : x = s[i]
        BY <2>5
      <4> QED BY <1>3, <2>6, <2>8, <4>1
    <3>2. ASSUME NEW x \in ToSet(s), x <= u[n] PROVE x \in ToSet(u)
      <4>1. PICK i \in 1 .. l : x = s[i]
        BY <1>3
      <4>2. s[i] <= s[n]
        BY <2>6, <3>2, <4>1
      <4> QED BY <2>5, <2>7, <4>1, <4>2
    <3> QED BY <3>1, <3>2
  <2> QED BY <2>2, <2>4, <2>9 DEF u
<1>5. CASE ~(l > n)
  <2>1. u = s
    BY <1>5 DEF AtMost, l
  <2>2. l = n => \A x \in ToSet(s) : x <= s[n]
    <3> SUFFICES ASSUME l = n, NEW i \in 1 .. l PROVE s[i] <= s[n]
      BY <1>3
    <3>1. n \in 1 .. l /\ i <= n
      OBVIOUS
    <3> QED BY <1>2, <3>1
  <2> QED BY <2>1, <2>2 DEF l
<1> QED BY <1>4, <1>5

\* What is asked of the parts of a rule.
ReadAlike(r) ==
    /\ r.unknown = {}
    /\ r.freq \in Frequencies
    /\ r.freq \in {"MONTHLY", "YEARLY"} => \A m \in Months : HasDays(r, m)
    /\ r.freq = "YEARLY" /\ r.byMonth = <<>> => r.byDay = <<>> /\ r.byMonthDay = <<>>

\* The dates the rule selects, without its ends.
AllOf(start, r) == {d \in start .. LastDate : InPeriod(start, r, d) /\ Selected(start, r, d)}

\* The candidates are in order, from the start on, and the rule matches
\* those it selects that the walk gets to.
LEMMA CandidatesAre ==
    ASSUME NEW start \in Dates, NEW r \in WrittenRules, ReadAlike(r)
    PROVE  /\ Candidates(start, r) \in Seq(Int) /\ Rises(Candidates(start, r))
           /\ ToSet(Candidates(start, r)) \subseteq start .. LastDate
           /\ \A d \in start .. LastDate : d \in ToSet(Candidates(start, r)) /\ RuleMatches(d, r)
                  <=> d \in AllOf(start, r) /\ GetsTo(start, r, Candidates(start, r), d)
<1> DEFINE s == CASE r.freq = "DAILY" -> Daily(start, r)
                  [] r.freq = "WEEKLY" -> Weekly(start, r)
                  [] r.freq = "MONTHLY" -> Monthly(start, r)
                  [] r.freq = "YEARLY" -> Yearly(start, r)
           c == Candidates(start, r)
<1>1. Lists(start, r, s)
  <2>1. CASE r.freq = "DAILY"
    <3>1. s = Daily(start, r)
      BY <2>1
    <3> QED BY <2>1, <3>1, DailyLists
  <2>2. CASE r.freq = "WEEKLY"
    <3>1. s = Weekly(start, r)
      BY <2>2
    <3> QED BY <2>2, <3>1, WeeklyLists
  <2>3. CASE r.freq = "MONTHLY"
    <3>1. s = Monthly(start, r)
      BY <2>3
    <3> QED BY <2>3, <3>1, MonthlyLists DEF ReadAlike
  <2>4. CASE r.freq = "YEARLY"
    <3>1. s = Yearly(start, r)
      BY <2>4
    <3> QED BY <2>4, <3>1, YearlyLists DEF ReadAlike
  <2> QED BY <2>1, <2>2, <2>3, <2>4 DEF ReadAlike, Frequencies
<1>2. c = AtMost(s, MaxCandidates)
  BY DEF Candidates
<1> HIDE DEF s, c
<1>3. /\ c \in Seq(Int) /\ Rises(c)
      /\ \A x : x \in ToSet(c)
             <=> x \in ToSet(s) /\ (Len(c) = MaxCandidates => x <= c[MaxCandidates])
  <2>1. s \in Seq(Int) /\ Rises(s) /\ MaxCandidates \in Nat \ {0}
    BY <1>1, CalendarAssumption DEF Lists, CalendarAssumption
  <2> QED BY ONLY <1>2, <2>1, AtMostIs
<1>4. ToSet(c) \subseteq start .. LastDate
  BY <1>1, <1>3 DEF Lists
<1>5. ASSUME NEW d \in start .. LastDate
      PROVE  d \in ToSet(c) /\ RuleMatches(d, r) <=> d \in AllOf(start, r) /\ GetsTo(start, r, c, d)
  <2>1. d \in ToSet(s) /\ RuleMatches(d, r) <=> Chosen(start, r, d)
    BY <1>1 DEF Lists
  <2>2. d \in AllOf(start, r) <=> InPeriod(start, r, d) /\ Selected(start, r, d)
    BY DEF AllOf
  <2> QED BY <1>3, <2>1, <2>2 DEF Chosen, GetsTo
<1> QED BY <1>3, <1>4, <1>5 DEF c

\* A walk that gets to a date gets to those before it.
LEMMA GetsThere ==
    ASSUME NEW start \in Dates, NEW r \in WrittenRules, NEW c \in Dates, NEW d \in Dates, c <= d,
           NEW s \in Seq(Int), GetsTo(start, r, s, d)
    PROVE  GetsTo(start, r, s, c)
<1>1. MonthOf[c] <= MonthOf[d] /\ MonthOf[c] \in Nat /\ MonthOf[d] \in Nat /\ YearMonths \in Nat \ {0}
  BY MonthsInOrder, MonthIs, MonthHas, LastPeriodIs
<1>2. YearOf(c) <= YearOf(d) /\ YearOf(c) \in Nat /\ YearOf(d) \in Nat
  <2>1. YearOf(c) <= YearOf(d)
    BY ONLY <1>1, Quotients DEF YearOf
  <2> QED BY <2>1, LastPeriodIs
<1>3. /\ LastYear(start) \in Int /\ LastPeriod(start) \in Int /\ r.interval \in Int
      /\ (LastPeriod(start) + 1) * YearMonths \in Int /\ c \in Int /\ d \in Int
  <2>1. YearOf(start) \in Nat /\ LastPeriod(start) \in Int /\ YearMonths \in Nat
    BY LastPeriodIs
  <2>2. MaxOccurrences \in Nat /\ r.interval \in Int
    BY CalendarAssumption DEF CalendarAssumption, WrittenRules
  <2>3. LastYear(start) \in Int
    BY <2>1, <2>2 DEF LastYear
  <2>4. (LastPeriod(start) + 1) * YearMonths \in Int
    BY <2>1
  <2>5. c \in Int /\ d \in Int
    BY MonthIs
  <2> QED BY <2>1, <2>2, <2>3, <2>4, <2>5
<1> DEFINE y == (LastPeriod(start) + 1) * YearMonths
<1>4. y \in Int
  BY <1>3
<1> HIDE DEF y
<1>5. LooksAt(start, r, c)
  <2>1. r.freq = "DAILY" => YearOf(c) <= LastYear(start)
    BY <1>2, <1>3 DEF GetsTo, LooksAt
  <2>2. r.freq = "MONTHLY" => MonthOf[c] + r.interval < y
    <3>1. r.freq = "MONTHLY" => MonthOf[d] + r.interval < y
      BY DEF GetsTo, LooksAt, y
    <3> QED BY <1>1, <1>3, <1>4, <3>1
  <2>3. r.freq = "YEARLY" => YearOf(c) + r.interval <= LastPeriod(start)
    BY <1>2, <1>3 DEF GetsTo, LooksAt
  <2> QED BY <2>1, <2>2, <2>3 DEF LooksAt, y
<1>6. Len(s) = MaxCandidates => c <= s[MaxCandidates]
  <2> SUFFICES ASSUME Len(s) = MaxCandidates PROVE c <= s[MaxCandidates]
    OBVIOUS
  <2>1. d <= s[MaxCandidates]
    BY DEF GetsTo
  <2>2. MaxCandidates \in 1 .. Len(s)
    BY CalendarAssumption DEF CalendarAssumption
  <2>3. s[MaxCandidates] \in Int
    BY <2>2
  <2> QED BY <1>3, <2>1, <2>3
<1> QED BY <1>5, <1>6 DEF GetsTo

-----------------------------------------------------------------------------
(* The readings of a clock, and the instants they stand for.               *)

\* A clock of a zone that moves by an hour or not at all.
Clocks == {z \in [before : -Day .. Day, after : -Day .. Day, at : Int] :
              z.after - z.before \in {-Hour, 0, Hour}}
\* The two instants a reading may be of.
Before(z, x) == x - z.before < z.at
After(z, x) == x - z.after >= z.at

\* An instant read from a clock is one or the other.
LEMMA WallIs ==
    ASSUME NEW z \in Clocks, NEW x \in Int
    PROVE  Wall(z, x) \in Int /\ (Wall(z, x) = x - z.before \/ Wall(z, x) = x - z.after)
<1>1. z.before \in Int /\ z.after \in Int /\ z.at \in Int
  BY ClockAssumption DEF Clocks, ClockAssumption
<1> QED BY <1>1 DEF Wall, Offset

\* What the clock has once is called unique, and nothing else.
LEMMA AmbiguityIs ==
    ASSUME NEW z \in Clocks, NEW x \in Int
    PROVE  Ambiguity(z, x) = "unique" <=> ~(Before(z, x) <=> After(z, x))
<1> DEFINE b == z.before
           a == z.after
           at == z.at
           t == Wall(z, x)
           Off(y) == IF y < at THEN b ELSE a
<1>1. /\ b \in Int /\ a \in Int /\ at \in Int /\ Hour \in Nat \ {0}
      /\ a = b - Hour \/ a = b \/ a = b + Hour
  <2>1. b \in Int /\ a \in Int /\ at \in Int /\ Hour \in Nat \ {0} /\ a - b \in {-Hour, 0, Hour}
    BY ClockAssumption, ZoneAssumption DEF Clocks, ClockAssumption
  <2> QED BY <2>1
<1>2. t \in Int /\ t = x - (IF (x - Off(x) < at) = (x < at) THEN Off(x) ELSE Off(x - Off(x)))
  BY <1>1, WallIs DEF Wall, Offset
<1> DEFINE moves == Off(t + Hour) # Off(t) \/ Off(t - Hour) # Off(t)
           again == t + Hour + Off(t + Hour) = x \/ t - Hour + Off(t - Hour) = x
<1>3. Ambiguity(z, x) = "unique" <=> t + Off(t) = x /\ ~(moves /\ again)
  BY DEF Ambiguity, Local, Offset
<1>4. (Before(z, x) <=> x - b < at) /\ (After(z, x) <=> x - a >= at)
  BY DEF Before, After
<1> HIDE DEF b, a, at, t
<1>5. CASE a = b
  <2>1. t = x - b /\ \A y : Off(y) = b
    BY <1>1, <1>2, <1>5
  <2> QED BY <1>1, <1>3, <1>4, <1>5, <2>1
<1>6. CASE a = b - Hour
  BY <1>1, <1>2, <1>3, <1>4, <1>6
<1>7. CASE a = b + Hour
  BY <1>1, <1>2, <1>3, <1>4, <1>7
<1> QED BY <1>1, <1>5, <1>6, <1>7

\* A series whose start is on the calendar.
Placed(s) ==
    /\ s.allDay \in BOOLEAN /\ s.start \in Int
    /\ ~s.allDay => s.zone \in DOMAIN Zones
    /\ StartDate(s) \in Dates

\* A reading is the time of day of the start, on a date.
LEMMA ReadingIs ==
    ASSUME NEW s, Placed(s), ~s.allDay, NEW d \in Int
    PROVE  /\ ZoneOf(s) \in Clocks /\ Day \in Nat \ {0} /\ Hour < Day /\ Hour \in Nat \ {0}
           /\ Local(ZoneOf(s), s.start) % Day \in 0 .. Day - 1
           /\ Reading(s, d) = d * Day + (Local(ZoneOf(s), s.start) % Day)
<1>1. Day \in Nat \ {0} /\ Hour < Day /\ Hour \in Nat \ {0}
  BY ClockAssumption, ZoneAssumption DEF ClockAssumption, ZoneAssumption
<1>2. ZoneOf(s) \in Clocks
  BY ZoneAssumption DEF ZoneAssumption, Clocks, ZoneOf, Placed
<1>3. Local(ZoneOf(s), s.start) \in Int
  <2>1. /\ ZoneOf(s).before \in Int /\ ZoneOf(s).after \in Int /\ ZoneOf(s).at \in Int
        /\ s.start \in Int
    BY <1>1, <1>2 DEF Clocks, Placed
  <2> QED BY <2>1 DEF Local, Offset
<1>4. Local(ZoneOf(s), s.start) % Day \in 0 .. Day - 1
  BY ONLY <1>1, <1>3, Divided
<1> QED BY <1>1, <1>2, <1>4 DEF Reading

\* A later date becomes something later.
LEMMA LaterDates ==
    ASSUME NEW s, Placed(s), NEW c \in Int, NEW d \in Int
    PROVE  At(s, c) \in Int /\ (c < d => At(s, c) < At(s, d))
<1>1. CASE s.allDay
  BY <1>1 DEF At
<1>2. CASE ~s.allDay
  <2> DEFINE z == ZoneOf(s)
             o == Local(z, s.start) % Day
             x == c * Day
             y == d * Day
  <2>1. z \in Clocks /\ Day \in Nat \ {0} /\ Hour < Day /\ Hour \in Nat \ {0} /\ o \in 0 .. Day - 1
    BY <1>2, ReadingIs
  <2>2. Reading(s, c) = x + o /\ Reading(s, d) = y + o
    BY <1>2, ReadingIs
  <2>3. x \in Int /\ y \in Int
    BY <2>1
  <2>4. c < d => x + Day <= y
    <3> SUFFICES ASSUME c < d PROVE c * Day + Day <= d * Day
      OBVIOUS
    <3>1. c + 1 \in Int /\ c + 1 <= d /\ Day \in Nat
      BY <2>1
    <3>2. (c + 1) * Day <= d * Day
      BY <3>1, Products
    <3>3. (c + 1) * Day = c * Day + Day
      BY <2>1
    <3> QED BY <3>2, <3>3
  <2> DEFINE v == x + o
             w == y + o
  <2>5. v \in Int /\ w \in Int /\ (c < d => v + Day <= w)
    <3> HIDE DEF x, y, o
    <3> QED BY <2>1, <2>3, <2>4
  <2>9. At(s, c) = Wall(z, v) /\ At(s, d) = Wall(z, w)
    BY <1>2, <2>2 DEF At
  <2> HIDE DEF v, w, z
  <2>6. /\ Wall(z, v) \in Int /\ Wall(z, w) \in Int
        /\ Wall(z, v) = v - z.before \/ Wall(z, v) = v - z.after
        /\ Wall(z, w) = w - z.before \/ Wall(z, w) = w - z.after
    <3>1. z \in Clocks
      BY <2>1
    <3> QED BY ONLY <2>5, <3>1, WallIs
  <2>7. /\ z.before \in Int /\ z.after \in Int /\ z.after - z.before <= Hour
        /\ z.before - z.after <= Hour /\ Hour \in Int /\ Day \in Int /\ Hour < Day
    <3>1. z.before \in Int /\ z.after \in Int /\ z.after - z.before \in {-Hour, 0, Hour}
      BY <2>1 DEF Clocks
    <3> QED BY <2>1, <3>1
  <2>8. c < d => Wall(z, v) < Wall(z, w)
    BY ONLY <2>5, <2>6, <2>7
  <2> QED BY <2>6, <2>8, <2>9
<1> QED BY <1>1, <1>2 DEF Placed

\* The instants a clock shows a reading at.
LEMMA ReadAt ==
    ASSUME NEW z \in Clocks, NEW x \in Int, NEW t \in Int
    PROVE  Local(z, t) = x
             <=> (t = x - z.before /\ Before(z, x)) \/ (t = x - z.after /\ After(z, x))
<1>1. z.before \in Int /\ z.after \in Int /\ z.at \in Int
  BY ClockAssumption DEF Clocks, ClockAssumption
<1> QED BY <1>1 DEF Local, Offset, Before, After

\* An occurrence is unclear when its reading is not one instant's.
LEMMA UnclearIs ==
    ASSUME NEW s, Placed(s), ~s.allDay, NEW d \in Int
    PROVE  Unclear(s, d) <=> ~OneInstant(s, d)
<1> DEFINE z == ZoneOf(s)
           x == Reading(s, d)
           low == (d - 1) * Day
           high == (d + 2) * Day
           T == {t \in low .. high : Local(z, t) = x}
           b == x - z.before
           a == x - z.after
<1>1. z \in Clocks /\ x \in Int /\ Day \in Nat \ {0} /\ low \in Int /\ high \in Int
  BY ReadingIs
<1>2. z.before \in -Day .. Day /\ z.after \in -Day .. Day
  BY <1>1 DEF Clocks
<1>3. low + Day <= x /\ x + Day < high
  <2>1. Local(z, s.start) % Day \in 0 .. Day - 1 /\ x = d * Day + (Local(z, s.start) % Day)
    BY ReadingIs
  <2>2. low = d * Day - Day /\ high = d * Day + Day + Day /\ d * Day \in Int
    BY <1>1
  <2> DEFINE o == Local(z, s.start) % Day
             p == d * Day
  <2>3. o \in 0 .. Day - 1 /\ x = p + o /\ low = p - Day /\ high = p + Day + Day /\ p \in Int
    BY <2>1, <2>2
  <2> HIDE DEF o, p, x, low, high
  <2> QED BY <1>1, <2>3
<1>4. OneInstant(s, d) <=> Cardinality(T) = 1
  BY DEF OneInstant
<1>5. Unclear(s, d) <=> (Before(z, x) <=> After(z, x))
  <2>1. Ambiguity(z, x) = "unique" <=> ~(Before(z, x) <=> After(z, x))
    <3> HIDE DEF z, x
    <3> QED BY <1>1, AmbiguityIs
  <2> QED BY <2>1 DEF Unclear
<1>6. \A t : t \in T <=> (t = b /\ Before(z, x)) \/ (t = a /\ After(z, x))
  <2>1. b \in low .. high /\ a \in low .. high
    <3> HIDE DEF x, low, high, z
    <3> QED BY <1>1, <1>2, <1>3
  <2> HIDE DEF z, x, low, high
  <2>2. \A t \in Int : Local(z, t) = x
                     <=> (t = b /\ Before(z, x)) \/ (t = a /\ After(z, x))
    BY <1>1, ReadAt
  <2>3. \A t \in low .. high : t \in Int
    BY <1>1
  <2> QED BY <2>1, <2>2, <2>3
<1>7. a = b => (Before(z, x) <=> ~After(z, x))
  <2>1. Before(z, x) <=> b < z.at
    BY DEF Before
  <2>2. After(z, x) <=> a >= z.at
    BY DEF After
  <2>3. z.at \in Int /\ b \in Int /\ a \in Int
    <3> HIDE DEF x, z
    <3> QED BY <1>1, <1>2 DEF Clocks
  <2> HIDE DEF a, b, z, x
  <2> QED BY <2>1, <2>2, <2>3
<1> HIDE DEF T, a, b, z, x
<1>8. CASE Before(z, x) /\ After(z, x)
  <2>1. T = {b, a} /\ a # b
    BY <1>6, <1>7, <1>8
  <2>2. Cardinality(T) = 2
    <3>1. IsFiniteSet({b}) /\ Cardinality({b}) = 1
      BY FS_Singleton
    <3>2. Cardinality({b} \union {a}) = Cardinality({b}) + 1
      BY <2>1, <3>1, FS_AddElement
    <3>3. T = {b} \union {a}
      BY <2>1
    <3> QED BY <3>1, <3>2, <3>3
  <2> QED BY <1>4, <1>5, <1>8, <2>2
<1>9. CASE ~Before(z, x) /\ ~After(z, x)
  <2>1. T = {}
    BY <1>6, <1>9
  <2>2. Cardinality(T) = 0
    BY <2>1, FS_EmptySet
  <2> QED BY <1>4, <1>5, <1>9, <2>2
<1>10. CASE ~(Before(z, x) <=> After(z, x))
  <2>1. T = {b} \/ T = {a}
    BY <1>6, <1>10
  <2>2. Cardinality(T) = 1
    BY <2>1, FS_Singleton
  <2> QED BY <1>4, <1>5, <1>10, <2>2
<1> QED BY <1>8, <1>9, <1>10

-----------------------------------------------------------------------------
(* The walk over the candidates.                                           *)

\* Where a walk stands, and the ends it keeps to.
Standings == [over : BOOLEAN, emitted : Nat, out : Seq(Int), noted : SUBSET Int]
Ranges == [from : Int, to : Int, limit : Nat, until : Int, excluded : SUBSET Int]

\* A date visited leaves the walk somewhere.
LEMMA VisitedIs ==
    ASSUME NEW s, NEW r \in WrittenRules, NEW range \in Ranges, NEW w \in Standings,
           NEW d \in Int, NEW m \in Int
    PROVE  Visited(s, r, range, w, d, m) \in Standings
<1> DEFINE v == Visited(s, r, range, w, d, m)
           noted == w.noted \union {x \in {m} : Unclear(s, d)}
           out == Append(w.out, m)
<1>1. w.over \in BOOLEAN /\ w.emitted \in Nat /\ w.out \in Seq(Int) /\ w.noted \in SUBSET Int
  BY DEF Standings
<1>2. noted \in SUBSET Int /\ out \in Seq(Int) /\ w.emitted + 1 \in Nat
  BY <1>1
<1> HIDE DEF noted, out
<1>3. /\ w \in Standings /\ [w EXCEPT !.over = TRUE] \in Standings
      /\ [w EXCEPT !.emitted = @ + 1] \in Standings
      /\ [w EXCEPT !.emitted = @ + 1, !.out = out, !.noted = noted] \in Standings
  BY <1>1, <1>2 DEF Standings
<1>4. \/ v = w \/ v = [w EXCEPT !.over = TRUE] \/ v = [w EXCEPT !.emitted = @ + 1]
      \/ v = [w EXCEPT !.emitted = @ + 1, !.out = out, !.noted = noted]
  BY DEF Visited, out, noted
<1> QED BY <1>3, <1>4

\* The walk over the dates, one after the other.
WalksBy(s, r, range, dates, walk) ==
    /\ WalkOver(s, r, range, dates) = walk[Len(dates)]
    /\ walk[0] = AtTheStart /\ \A n \in 0 .. Len(dates) : walk[n] \in Standings
    /\ \A n \in 1 .. Len(dates) :
          walk[n] = Visited(s, r, range, walk[n - 1], dates[n], At(s, dates[n]))

\* Every walk is one of its steps.
LEMMA WalkRuns ==
    ASSUME NEW s, Placed(s), NEW r \in WrittenRules, NEW range \in Ranges, NEW dates \in Seq(Int)
    PROVE  \E walk : WalksBy(s, r, range, dates, walk)
<1> DEFINE N == Len(dates)
           E(g) == g = [n \in 0 .. N |->
                           IF n = 0 THEN AtTheStart
                           ELSE Visited(s, r, range, g[n - 1], dates[n], At(s, dates[n]))]
           walk == CHOOSE g : E(g)
<1>0. WalkOver(s, r, range, dates) = walk[N]
  BY DEF WalkOver
<1>1. N \in Nat /\ \A i \in 1 .. N : dates[i] \in Int /\ At(s, dates[i]) \in Int
  <2>1. N \in Nat /\ \A i \in 1 .. N : dates[i] \in Int
    OBVIOUS
  <2>2. \A d \in Int : At(s, d) \in Int
    BY LaterDates
  <2> QED BY <2>1, <2>2
<1> DEFINE none == AtTheStart
           step == [k \in Nat |-> [w \in Standings |->
                       IF k \in 1 .. N THEN Visited(s, r, range, w, dates[k], At(s, dates[k])) ELSE w]]
<1>2. none \in Standings /\ step \in [Nat -> [Standings -> Standings]]
  <2>1. AtTheStart \in Standings
    BY DEF AtTheStart, Standings
  <2>2. \A k \in 1 .. N, w \in Standings :
            Visited(s, r, range, w, dates[k], At(s, dates[k])) \in Standings
    BY <1>1, VisitedIs
  <2> QED BY <2>1, <2>2
<1>3. \A k \in 1 .. N, w \in Standings :
          step[k][w] = Visited(s, r, range, w, dates[k], At(s, dates[k]))
  BY <1>1
<1>4. \E g \in [0 .. N -> Standings] : E(g)
  <2> HIDE DEF step, none, E, N
  <2>1. Loops(Standings, none, step, N)
    BY <1>1, <1>2, LoopRuns
  <2>2. PICK g \in [0 .. N -> Standings] :
            g = [k \in 0 .. N |-> IF k = 0 THEN none ELSE step[k][g[k - 1]]]
    BY <2>1 DEF Loops
  <2>3. \A k \in 0 .. N : k # 0 => k \in 1 .. N /\ k - 1 \in 0 .. N
    BY <1>1
  <2>4. \A k \in 0 .. N : g[k] = IF k = 0 THEN none
                                ELSE Visited(s, r, range, g[k - 1], dates[k], At(s, dates[k]))
    BY <1>3, <2>2, <2>3
  <2>5. E(g)
    BY <2>2, <2>4 DEF none, E
  <2> QED BY <2>5
<1>5. E(walk)
  BY <1>4
<1> HIDE DEF walk, N, step
<1>6. \A n \in 0 .. N : walk[n] = IF n = 0 THEN AtTheStart
                        ELSE Visited(s, r, range, walk[n - 1], dates[n], At(s, dates[n]))
  BY <1>5
<1> HIDE DEF E
<1>7. \A n \in 1 .. N : /\ n \in 0 .. N /\ n # 0
  BY <1>1
<1>8. /\ walk[0] = AtTheStart
      /\ \A n \in 1 .. N :
            walk[n] = Visited(s, r, range, walk[n - 1], dates[n], At(s, dates[n]))
  BY <1>1, <1>6, <1>7
<1> DEFINE X == {n \in Nat : n <= N => walk[n] \in Standings}
<1>9. 0 \in X
  BY <1>2, <1>8
<1>10. \A k \in Nat : k \in X => k + 1 \in X
  <2> SUFFICES ASSUME NEW k \in Nat, k + 1 <= N, walk[k] \in Standings PROVE walk[k + 1] \in Standings
    BY <1>1
  <2>1. k + 1 \in 1 .. N /\ (k + 1) - 1 = k
    BY <1>1
  <2>2. walk[k + 1] = Visited(s, r, range, walk[k], dates[k + 1], At(s, dates[k + 1]))
    BY <1>8, <2>1
  <2>3. dates[k + 1] \in Int /\ At(s, dates[k + 1]) \in Int
    BY <1>1, <2>1
  <2> DEFINE d == dates[k + 1]
             m == At(s, dates[k + 1])
             w == walk[k]
  <2> HIDE DEF d, m, w
  <2>4. w \in Standings /\ d \in Int /\ m \in Int
    BY <2>3 DEF d, m, w
  <2>5. Visited(s, r, range, w, d, m) \in Standings
    BY <2>4, VisitedIs
  <2> QED BY <2>2, <2>5 DEF d, m, w
<1> HIDE DEF X
<1>11. \A n \in Nat : n \in X
  BY ONLY <1>9, <1>10, CountedUp
<1>12. \A n \in 0 .. N : walk[n] \in Standings
  BY <1>1, <1>11 DEF X
<1> QED BY <1>0, <1>8, <1>12 DEF WalksBy, N

\* The dates visited that the rule matches.
Matched(r, dates, n) == {d \in {dates[i] : i \in 1 .. n} : RuleMatches(d, r)}

\* What a walk has done by a date: what it has put out is kept, in order,
\* with a note where it must; nothing kept is left out while it goes on,
\* and once it is over all that is left is behind the limit.
Behindhand(s, range, keeps, w) ==
    \A d \in keeps : At(s, d) \notin ToSet(w.out) =>
        Len(w.out) > range.limit /\ \A m \in ToSet(w.out) : m < At(s, d)
Noted(s, w) ==
    \A d \in Int : At(s, d) \in w.noted <=> At(s, d) \in ToSet(w.out) /\ Unclear(s, d)
PutOut(s, w, keeps) == \A m \in ToSet(w.out) : \E d \in keeps : m = At(s, d)
InTime(s, r, w, matched, keeps) ==
    /\ \A d \in matched \intersect keeps : At(s, d) \in ToSet(w.out)
    /\ r.count > 0 => w.emitted = Cardinality(matched)
WalkedTo(s, r, range, w, matched, keeps) ==
    /\ w \in Standings /\ Climbs(w.out) /\ Noted(s, w) /\ PutOut(s, w, matched \intersect keeps)
    /\ ~w.over => InTime(s, r, w, matched, keeps)
    /\ w.over => Behindhand(s, range, keeps, w)

\* What a date is before it is visited: nothing before it is left to visit.
Next1(r, dates, n, d) ==
    /\ d \in Int /\ IsFiniteSet(Matched(r, dates, n))
    /\ \A e \in Matched(r, dates, n) : e <= d
    /\ \A e \in Matched(r, dates, Len(dates)) : e \in Matched(r, dates, n) \/ d <= e
    /\ Matched(r, dates, n + 1) = Matched(r, dates, n) \union {e \in {d} : RuleMatches(e, r)}
    /\ Matched(r, dates, n + 1) \subseteq Matched(r, dates, Len(dates))
    /\ r.count > 0 /\ IsInjective(dates) => d \notin Matched(r, dates, n)

\* The dates of a rising sequence come up so.
LEMMA NextIs ==
    ASSUME NEW r, NEW dates \in Seq(Int), Rises(dates), NEW n \in Nat, n + 1 <= Len(dates)
    PROVE  Next1(r, dates, n, dates[n + 1])
<1> DEFINE N == Len(dates)
           d == dates[n + 1]
<1>1. /\ N \in Nat /\ DOMAIN dates = 1 .. N /\ \A i \in 1 .. N : dates[i] \in Int
      /\ n + 1 \in 1 .. N
  OBVIOUS
<1>2. d \in Int
  BY <1>1
<1>3. IsFiniteSet(Matched(r, dates, n))
  <2>1. IsFiniteSet(ToSet(dates))
    BY SeqFinite
  <2>2. Matched(r, dates, n) \subseteq ToSet(dates)
    <3>1. 1 .. n \subseteq 1 .. N
      BY <1>1
    <3> QED BY <1>1, <3>1 DEF Matched, ToSet
  <2> QED BY <2>1, <2>2, FS_Subset
<1>4. \A e \in Matched(r, dates, n) : e <= d
  <2> SUFFICES ASSUME NEW i \in 1 .. n PROVE dates[i] <= dates[n + 1]
    BY DEF Matched
  <2>1. i \in 1 .. N /\ i < n + 1
    BY <1>1
  <2> QED BY <1>1, <2>1 DEF Rises
<1>5. ASSUME NEW e \in Matched(r, dates, N) PROVE e \in Matched(r, dates, n) \/ d <= e
  <2>1. PICK i \in 1 .. N : e = dates[i] /\ RuleMatches(e, r)
    BY DEF Matched
  <2>2. CASE i \in 1 .. n
    BY <2>1, <2>2 DEF Matched
  <2>3. CASE i > n
    <3>1. i = n + 1 \/ n + 1 < i
      BY <1>1, <2>3
    <3>2. n + 1 < i => d <= e
      BY <1>1, <2>1 DEF Rises
    <3>3. i = n + 1 => d <= e
      BY <1>1, <2>1
    <3> QED BY <3>1, <3>2, <3>3
  <2> QED BY <1>1, <2>2, <2>3
<1>6. Matched(r, dates, n + 1) = Matched(r, dates, n) \union {e \in {d} : RuleMatches(e, r)}
  <2>1. 1 .. n + 1 = (1 .. n) \union {n + 1}
    OBVIOUS
  <2> QED BY <2>1 DEF Matched
<1>7. Matched(r, dates, n + 1) \subseteq Matched(r, dates, N)
  <2>1. 1 .. n + 1 \subseteq 1 .. N
    BY <1>1
  <2> QED BY <2>1 DEF Matched
<1>8. IsInjective(dates) => d \notin Matched(r, dates, n)
  <2> SUFFICES ASSUME IsInjective(dates), NEW i \in 1 .. n PROVE dates[i] # d
    BY DEF Matched
  <2>1. i \in 1 .. N /\ i # n + 1
    BY <1>1
  <2> QED BY <1>1, <2>1 DEF IsInjective
<1> QED BY <1>2, <1>3, <1>4, <1>5, <1>6, <1>7, <1>8 DEF Next1, N, d

KeptOf(s, r, range, all) == {d \in Bounded(all, r) : Wanted(range, At(s, d))}
\* A date about to be visited, between those visited and those that are left.
ToVisit(r, all, old, new, d) ==
    /\ d \in Int /\ all \in SUBSET Int /\ IsFiniteSet(all) /\ old \subseteq all /\ new \subseteq all
    /\ new = old \union {e \in {d} : RuleMatches(e, r)}
    /\ \A e \in old : e <= d
    /\ \A e \in all : e \in old \/ d <= e
    /\ r.count > 0 => d \notin old

\* What is late, all that follows is.
LEMMA LaterIsLate ==
    ASSUME NEW range \in Ranges, NEW m \in Int, NEW l \in Int, m <= l, Late(range, m)
    PROVE  Late(range, l)
BY DEF Late, Ranges

\* One date visited.
LEMMA VisitKeeps ==
    ASSUME NEW s, Placed(s), NEW r \in WrittenRules, NEW range \in Ranges, NEW w \in Standings,
           NEW all, NEW old, NEW new, NEW d, ToVisit(r, all, old, new, d),
           WalkedTo(s, r, range, w, old, KeptOf(s, r, range, all))
    PROVE  WalkedTo(s, r, range, Visited(s, r, range, w, d, At(s, d)), new, KeptOf(s, r, range, all))
<1> DEFINE m == At(s, d)
           keeps == KeptOf(s, r, range, all)
           v == Visited(s, r, range, w, d, m)
<1>0. SUFFICES WalkedTo(s, r, range, v, new, keeps)
  OBVIOUS
<1>1. /\ d \in Int /\ all \in SUBSET Int /\ IsFiniteSet(all) /\ old \subseteq all /\ new \subseteq all
      /\ new = old \union {e \in {d} : RuleMatches(e, r)}
      /\ \A e \in old : e <= d
      /\ \A e \in all : e \in old \/ d <= e
      /\ r.count > 0 => d \notin old
  BY DEF ToVisit
<1>2. \A c, e \in Int : /\ At(s, c) \in Int /\ (c < e => At(s, c) < At(s, e))
                        /\ At(s, c) = At(s, e) => c = e
                        /\ c <= e => At(s, c) <= At(s, e)
  <2>1. \A c, e \in Int : At(s, c) \in Int /\ (c < e => At(s, c) < At(s, e))
    BY LaterDates
  <2>2. \A c, e \in Int : c = e \/ c < e \/ e < c
    OBVIOUS
  <2> SUFFICES ASSUME NEW c \in Int, NEW e \in Int
               PROVE  /\ At(s, c) = At(s, e) => c = e
                      /\ c <= e => At(s, c) <= At(s, e)
    BY <2>1
  <2>3. At(s, c) \in Int /\ At(s, e) \in Int
    BY <2>1
  <2>4. CASE c = e
    BY <2>3, <2>4
  <2>5. CASE c < e
    BY <2>1, <2>3, <2>5
  <2>6. CASE e < c
    BY <2>1, <2>3, <2>6
  <2> QED BY <2>2, <2>4, <2>5, <2>6
<1>3. /\ \A e \in keeps : /\ e \in all /\ e \in Int /\ Wanted(range, At(s, e))
                          /\ r.count > 0 => Cardinality({x \in all : x < e}) < r.count
                          /\ r.untilDate # Zero => e <= r.untilDate
      /\ \A e \in all : /\ Wanted(range, At(s, e))
                        /\ r.count > 0 => Cardinality({x \in all : x < e}) < r.count
                        /\ r.untilDate # Zero => e <= r.untilDate
                        => e \in keeps
  BY <1>1 DEF KeptOf, Bounded
<1>4. /\ Climbs(w.out) /\ Noted(s, w) /\ PutOut(s, w, old \intersect keeps)
      /\ ~w.over => InTime(s, r, w, old, keeps)
      /\ w.over => Behindhand(s, range, keeps, w)
  BY DEF WalkedTo
<1>5. /\ w.over \in BOOLEAN /\ w.emitted \in Nat /\ w.out \in Seq(Int) /\ w.noted \in SUBSET Int
  BY DEF Standings
<1>6. v \in Standings /\ m \in Int
  BY <1>1, <1>2, VisitedIs
<1>7. \A e \in all \ old : d <= e
  BY <1>1
<1>8. old \subseteq new /\ old \intersect keeps \subseteq new \intersect keeps
  BY <1>1
<1>9. /\ r.count \in Nat /\ r.untilDate \in Int /\ range.limit \in Nat
  BY DEF WrittenRules, Ranges
<1> HIDE DEF keeps, m
<1>10. PutOut(s, w, new \intersect keeps)
  BY <1>4, <1>8 DEF PutOut
\* The walk is over: nothing more is put out.
<1>11. ASSUME v = [w EXCEPT !.over = TRUE], Behindhand(s, range, keeps, w)
       PROVE  WalkedTo(s, r, range, v, new, keeps)
  <2>1. v.over = TRUE /\ v.out = w.out /\ v.noted = w.noted
    BY <1>11 DEF Standings
  <2> HIDE DEF v
  <2>2. Climbs(v.out) /\ Noted(s, v) /\ PutOut(s, v, new \intersect keeps)
        /\ Behindhand(s, range, keeps, v)
    BY <1>4, <1>10, <1>11, <2>1 DEF Noted, PutOut, Behindhand
  <2> QED BY <1>6, <2>1, <2>2 DEF WalkedTo, v
\* What is left when it is not over comes after all that is out.
<1>12. ASSUME ~w.over, NEW e \in keeps, At(s, e) \notin ToSet(w.out)
       PROVE  /\ e \in all /\ e \notin old /\ d <= e
              /\ \A c \in old : c < e
              /\ \A l \in ToSet(w.out) : l < At(s, e)
  <2>1. e \in all /\ e \notin old
    BY <1>3, <1>4, <1>12 DEF InTime
  <2>2. d <= e /\ e \in Int
    BY <1>1, <1>7, <2>1
  <2>3. ASSUME NEW c \in old PROVE c < e
    <3>1. c \in Int /\ c <= d /\ c # e
      BY <1>1, <2>1
    <3> QED BY <1>1, <2>2, <3>1
  <2>4. ASSUME NEW l \in ToSet(w.out) PROVE l < At(s, e)
    <3>1. PICK c \in old \intersect keeps : l = At(s, c)
      BY <1>4 DEF PutOut
    <3>2. c \in Int /\ c < e
      BY <1>1, <2>3
    <3> QED BY <1>2, <2>2, <3>1, <3>2
  <2> QED BY <2>1, <2>2, <2>3, <2>4
<1>13. CASE w.over
  <2>1. v = [w EXCEPT !.over = TRUE]
    BY <1>13 DEF Visited
  <2> QED BY <1>4, <1>11, <1>13, <2>1
<1>14. CASE ~w.over /\ Len(w.out) > range.limit
  <2>1. v = [w EXCEPT !.over = TRUE]
    BY <1>14 DEF Visited
  <2>2. Behindhand(s, range, keeps, w)
    BY <1>12, <1>14 DEF Behindhand
  <2> QED BY <1>11, <2>1, <2>2
<1>15. CASE ~w.over /\ r.count > 0 /\ w.emitted >= r.count
  <2>1. v = [w EXCEPT !.over = TRUE]
    BY <1>15 DEF Visited
  <2>2. ASSUME NEW e \in keeps PROVE At(s, e) \in ToSet(w.out)
    <3> SUFFICES ASSUME At(s, e) \notin ToSet(w.out) PROVE FALSE
      OBVIOUS
    <3> DEFINE before == {x \in all : x < e}
    <3>1. old \subseteq before
      BY <1>1, <1>12, <1>15
    <3>2. IsFiniteSet(before)
      BY <1>1, FS_Subset
    <3>3. Cardinality(old) <= Cardinality(before) /\ Cardinality(old) \in Nat /\ Cardinality(before) \in Nat
      <4>1. IsFiniteSet(old)
        BY <3>1, <3>2, FS_Subset
      <4> HIDE DEF before
      <4> QED BY <3>1, <3>2, <4>1, FS_Subset, FS_CardinalityType
    <3>4. Cardinality(before) < r.count
      BY <1>3, <1>15
    <3>5. w.emitted = Cardinality(old)
      BY <1>4, <1>15 DEF InTime
    <3> HIDE DEF before
    <3> QED BY <1>5, <1>9, <1>15, <3>3, <3>4, <3>5
  <2>3. Behindhand(s, range, keeps, w)
    BY <2>2 DEF Behindhand
  <2> QED BY <1>11, <2>1, <2>3
<1>16. CASE ~w.over /\ r.untilDate # Zero /\ d > r.untilDate
  <2>1. v = [w EXCEPT !.over = TRUE]
    BY <1>16 DEF Visited
  <2>2. ASSUME NEW e \in keeps PROVE At(s, e) \in ToSet(w.out)
    <3> SUFFICES ASSUME At(s, e) \notin ToSet(w.out) PROVE FALSE
      OBVIOUS
    <3>1. d <= e /\ e \in Int /\ e <= r.untilDate
      BY <1>3, <1>12, <1>16
    <3> QED BY <1>1, <1>9, <1>16, <3>1
  <2>3. Behindhand(s, range, keeps, w)
    BY <2>2 DEF Behindhand
  <2> QED BY <1>11, <2>1, <2>3
<1> DEFINE Goes == /\ ~w.over /\ ~(Len(w.out) > range.limit)
                   /\ ~(r.count > 0 /\ w.emitted >= r.count)
                   /\ ~(r.untilDate # Zero /\ d > r.untilDate)
<1>17. CASE Goes /\ ~RuleMatches(d, r)
  <2>1. v = w /\ new = old
    BY <1>1, <1>17 DEF Visited
  <2> QED BY <2>1 DEF keeps
<1>18. CASE Goes /\ RuleMatches(d, r) /\ Late(range, m)
  <2>1. v = [w EXCEPT !.over = TRUE]
    BY <1>18 DEF Visited
  <2>2. ASSUME NEW e \in keeps PROVE At(s, e) \in ToSet(w.out)
    <3> SUFFICES ASSUME At(s, e) \notin ToSet(w.out) PROVE FALSE
      OBVIOUS
    <3>1. d <= e /\ e \in Int /\ Wanted(range, At(s, e))
      BY <1>3, <1>12, <1>18
    <3>2. m <= At(s, e) /\ At(s, e) \in Int
      BY <1>1, <1>2, <3>1 DEF m
    <3>3. Late(range, At(s, e))
      BY <1>6, <1>18, <3>2, LaterIsLate
    <3> QED BY <3>1, <3>3 DEF Wanted
  <2>3. Behindhand(s, range, keeps, w)
    BY <2>2 DEF Behindhand
  <2> QED BY <1>11, <2>1, <2>3
<1> DEFINE Counts == Goes /\ RuleMatches(d, r) /\ ~Late(range, m)
<1>19. ASSUME Counts
       PROVE  /\ new = old \union {d} /\ d \in all
              /\ r.count > 0 => w.emitted + 1 = Cardinality(new)
  <2>1. new = old \union {d}
    BY <1>1, <1>19
  <2>2. d \in all
    BY <1>1, <2>1
  <2>3. ASSUME r.count > 0 PROVE w.emitted + 1 = Cardinality(new)
    <3>1. IsFiniteSet(old) /\ d \notin old
      BY <1>1, <2>3, FS_Subset
    <3>2. Cardinality(new) = Cardinality(old) + 1
      BY <2>1, <3>1, FS_AddElement
    <3> QED BY <1>4, <1>19, <2>3, <3>2 DEF InTime
  <2> QED BY <2>1, <2>2, <2>3
<1>20. CASE Counts /\ (~Wanted(range, m) \/ m \in ToSet(w.out))
  <2>1. v = [w EXCEPT !.emitted = @ + 1]
    BY <1>20 DEF Visited
  <2>2. v.over = FALSE /\ v.out = w.out /\ v.noted = w.noted /\ v.emitted = w.emitted + 1
    BY <1>5, <1>20, <2>1 DEF Standings
  <2> HIDE DEF v
  <2>3. Climbs(v.out) /\ Noted(s, v) /\ PutOut(s, v, new \intersect keeps)
    BY <1>4, <1>10, <2>2 DEF Noted, PutOut
  <2>4. \A e \in new \intersect keeps : At(s, e) \in ToSet(v.out)
    <3>1. d \in keeps => m \in ToSet(w.out)
      BY <1>3, <1>20 DEF m
    <3>2. \A e \in old \intersect keeps : At(s, e) \in ToSet(w.out)
      BY <1>4, <1>20 DEF InTime
    <3> QED BY <1>19, <1>20, <2>2, <3>1, <3>2 DEF m
  <2>5. InTime(s, r, v, new, keeps)
    BY <1>19, <1>20, <2>2, <2>4 DEF InTime
  <2> QED BY <1>6, <2>2, <2>3, <2>5 DEF WalkedTo, v
<1>21. CASE Counts /\ Wanted(range, m) /\ m \notin ToSet(w.out)
  <2> DEFINE out == Append(w.out, m)
             noted == w.noted \union {x \in {m} : Unclear(s, d)}
  <2>1. v = [w EXCEPT !.emitted = @ + 1, !.out = out, !.noted = noted]
    BY <1>21 DEF Visited
  <2>2. v.over = FALSE /\ v.out = out /\ v.noted = noted /\ v.emitted = w.emitted + 1
    <3> HIDE DEF out, noted
    <3> QED BY <1>5, <1>21, <2>1 DEF Standings
  <2>3. ToSet(out) = ToSet(w.out) \union {m}
    BY <1>5, <1>6, Appended
  <2>4. d \in keeps
    <3> DEFINE before == {x \in all : x < d}
    <3>1. r.count > 0 => Cardinality(before) < r.count
      <4> SUFFICES ASSUME r.count > 0 PROVE Cardinality(before) < r.count
        OBVIOUS
      <4>1. before \subseteq old
        <5> SUFFICES ASSUME NEW x \in all, x < d PROVE x \in old
          OBVIOUS
        <5>1. x \in Int /\ ~(d <= x)
          BY <1>1
        <5> QED BY <1>1, <5>1
      <4>2. IsFiniteSet(old)
        BY <1>1, FS_Subset
      <4>3. Cardinality(before) <= Cardinality(old) /\ Cardinality(old) \in Nat
            /\ Cardinality(before) \in Nat
        <5>1. IsFiniteSet(before)
          BY <4>1, <4>2, FS_Subset
        <5> HIDE DEF before
        <5> QED BY <4>1, <4>2, <5>1, FS_Subset, FS_CardinalityType
      <4>4. w.emitted = Cardinality(old) /\ ~(w.emitted >= r.count)
        BY <1>4, <1>21 DEF InTime
      <4> HIDE DEF before
      <4> QED BY <1>5, <1>9, <4>3, <4>4
    <3>2. r.untilDate # Zero => d <= r.untilDate
      BY <1>1, <1>9, <1>21
    <3>3. d \in all
      BY <1>19, <1>21
    <3> QED BY <1>3, <1>21, <3>1, <3>2, <3>3 DEF m
  <2>5. \A l \in ToSet(w.out) : l < m
    <3> SUFFICES ASSUME NEW l \in ToSet(w.out) PROVE l < m
      OBVIOUS
    <3>1. PICK c \in old \intersect keeps : l = At(s, c)
      BY <1>4 DEF PutOut
    <3>2. c \in Int /\ c <= d /\ c # d
      BY <1>1, <1>21, <3>1 DEF m
    <3>3. c < d
      BY <1>1, <3>2
    <3> QED BY <1>1, <1>2, <3>1, <3>2, <3>3 DEF m
  <2>6. Climbs(out)
    <3>1. /\ Len(w.out) \in Nat /\ DOMAIN w.out = 1 .. Len(w.out) /\ DOMAIN out = 1 .. Len(w.out) + 1
          /\ \A i \in 1 .. Len(w.out) : out[i] = w.out[i] /\ w.out[i] \in ToSet(w.out)
          /\ out[Len(w.out) + 1] = m
      BY <1>5 DEF ToSet
    <3> HIDE DEF out
    <3>2. SUFFICES ASSUME NEW i \in DOMAIN out, NEW j \in DOMAIN out, i < j PROVE out[i] < out[j]
      BY DEF Climbs
    <3>3. i \in 1 .. Len(w.out) /\ (j = Len(w.out) + 1 \/ j \in 1 .. Len(w.out))
      BY <3>1, <3>2
    <3>4. CASE j = Len(w.out) + 1
      BY <2>5, <3>1, <3>3, <3>4
    <3>5. CASE j \in 1 .. Len(w.out)
      BY <1>4, <3>1, <3>2, <3>3, <3>5 DEF Climbs
    <3> QED BY <3>3, <3>4, <3>5
  <2>7. ASSUME NEW e \in Int
        PROVE  At(s, e) \in noted <=> At(s, e) \in ToSet(out) /\ Unclear(s, e)
    <3>1. At(s, e) \in w.noted <=> At(s, e) \in ToSet(w.out) /\ Unclear(s, e)
      BY <1>4 DEF Noted
    <3>2. At(s, e) = m <=> e = d
      BY <1>1, <1>2 DEF m
    <3>3. CASE e = d
      BY <1>21, <2>3, <3>1, <3>2, <3>3
    <3>4. CASE e # d
      BY <2>3, <3>1, <3>2, <3>4
    <3> QED BY <3>3, <3>4
  <2> HIDE DEF v, out, noted
  <2>8. Noted(s, v)
    BY <2>2, <2>7 DEF Noted
  <2>9. PutOut(s, v, new \intersect keeps)
    BY <1>10, <1>19, <1>21, <2>2, <2>3, <2>4 DEF PutOut, m
  <2>10. \A e \in new \intersect keeps : At(s, e) \in ToSet(v.out)
    <3>1. \A e \in old \intersect keeps : At(s, e) \in ToSet(w.out)
      BY <1>4, <1>21 DEF InTime
    <3> QED BY <1>19, <1>21, <2>2, <2>3, <3>1 DEF m
  <2>11. InTime(s, r, v, new, keeps)
    BY <1>19, <1>21, <2>2, <2>10 DEF InTime
  <2>12. Climbs(v.out)
    BY <2>2, <2>6
  <2> QED BY <1>6, <2>2, <2>8, <2>9, <2>11, <2>12 DEF WalkedTo, v
<1> QED BY <1>13, <1>14, <1>15, <1>16, <1>17, <1>18, <1>20, <1>21

\* A walk over all the candidates: what it puts out is kept, in order, and
\* what it leaves out is behind the limit.
Walked(s, range, w, keeps) ==
    /\ w \in Standings /\ Climbs(w.out) /\ Noted(s, w) /\ PutOut(s, w, keeps)
    /\ Behindhand(s, range, keeps, w)

\* A whole walk ends so.
LEMMA WalkGives ==
    ASSUME NEW s, Placed(s), NEW r \in WrittenRules, NEW range \in Ranges, NEW dates \in Seq(Int),
           Rises(dates), r.count > 0 => IsInjective(dates)
    PROVE  Walked(s, range, WalkOver(s, r, range, dates),
                  KeptOf(s, r, range, Matched(r, dates, Len(dates))))
<1> DEFINE N == Len(dates)
           all == Matched(r, dates, N)
           keeps == KeptOf(s, r, range, all)
           M(n) == Matched(r, dates, n)
<1>1. PICK walk : WalksBy(s, r, range, dates, walk)
  BY WalkRuns
<1>2. /\ WalkOver(s, r, range, dates) = walk[N]
      /\ walk[0] = AtTheStart /\ \A n \in 0 .. N : walk[n] \in Standings
      /\ \A n \in 1 .. N : walk[n] = Visited(s, r, range, walk[n - 1], dates[n], At(s, dates[n]))
  BY <1>1 DEF WalksBy
<1>3. N \in Nat /\ DOMAIN dates = 1 .. N
  OBVIOUS
<1>4. all \in SUBSET Int /\ IsFiniteSet(all) /\ all \subseteq ToSet(dates)
  <2>1. all \subseteq ToSet(dates)
    BY <1>3 DEF Matched, ToSet
  <2>2. ToSet(dates) \subseteq Int /\ IsFiniteSet(ToSet(dates))
    BY SeqFinite DEF ToSet
  <2> QED BY <2>1, <2>2, FS_Subset
<1>5. \A n \in 0 .. N : M(n) \subseteq all
  <2>1. \A n \in 0 .. N : 1 .. n \subseteq 1 .. N
    BY <1>3
  <2> QED BY <2>1 DEF Matched
<1>6. M(0) = {}
  BY DEF Matched
<1> HIDE DEF all, N
<1> DEFINE Good(n) == WalkedTo(s, r, range, walk[n], M(n), keeps)
           X == {n \in Nat : n <= N => Good(n)}
<1>7. 0 \in X
  <2> DEFINE w == walk[0]
  <2>1. w.over = FALSE /\ w.emitted = 0 /\ w.out = <<>> /\ w.noted = {} /\ w \in Standings
    BY <1>2, <1>3 DEF AtTheStart
  <2> HIDE DEF w
  <2>2. ToSet(<<>>) = {} /\ Climbs(<<>>)
    BY DEF ToSet, Climbs
  <2>3. Climbs(w.out) /\ Noted(s, w) /\ PutOut(s, w, M(0) \intersect keeps)
    BY <2>1, <2>2 DEF Noted, PutOut
  <2>4. InTime(s, r, w, M(0), keeps)
    BY <1>6, <2>1, FS_EmptySet DEF InTime
  <2>5. Good(0)
    BY <2>1, <2>3, <2>4 DEF WalkedTo, w
  <2> QED BY <2>5
<1>8. \A k \in Nat : k \in X => k + 1 \in X
  <2> SUFFICES ASSUME NEW k \in Nat, k + 1 <= N, Good(k) PROVE Good(k + 1)
    <3> HIDE DEF Good
    <3> QED BY <1>3
  <2> DEFINE d == dates[k + 1]
             w == walk[k]
             old == M(k)
             new == M(k + 1)
  <2>1. k + 1 \in 1 .. N /\ (k + 1) - 1 = k /\ k \in 0 .. N /\ k + 1 \in 0 .. N
    BY <1>3
  <2>2. walk[k + 1] = Visited(s, r, range, w, d, At(s, d)) /\ w \in Standings
    BY <1>2, <2>1
  <2>3. Next1(r, dates, k, d)
    BY <2>1, NextIs DEF N
  <2>4. ToVisit(r, all, old, new, d)
    <3>1. /\ d \in Int
          /\ \A e \in old : e <= d
          /\ \A e \in all : e \in old \/ d <= e
          /\ new = old \union {e \in {d} : RuleMatches(e, r)}
          /\ r.count > 0 /\ IsInjective(dates) => d \notin old
      BY <2>3 DEF Next1, all, N
    <3>2. old \subseteq all /\ new \subseteq all
      BY <1>5, <2>1
    <3> QED BY <1>4, <3>1, <3>2 DEF ToVisit
  <2> HIDE DEF d, w, old, new
  <2>5. WalkedTo(s, r, range, w, old, keeps)
    BY DEF w, old
  <2>6. WalkedTo(s, r, range, Visited(s, r, range, w, d, At(s, d)), new, keeps)
    BY <2>2, <2>4, <2>5, VisitKeeps
  <2> QED BY <2>2, <2>6 DEF new
<1> HIDE DEF X, Good
<1>9. \A n \in Nat : n \in X
  BY ONLY <1>7, <1>8, CountedUp
<1>10. Good(N)
  BY <1>3, <1>9 DEF X
<1> DEFINE w == walk[N]
<1>11. WalkedTo(s, r, range, w, all, keeps)
  BY <1>10 DEF Good, all, N
<1>12. all \intersect keeps = keeps
  BY DEF KeptOf, Bounded
<1> HIDE DEF w, keeps
<1>13. Behindhand(s, range, keeps, w)
  BY <1>11, <1>12 DEF WalkedTo, InTime, Behindhand, Standings
<1>14. Walked(s, range, w, keeps)
  BY <1>11, <1>12, <1>13 DEF WalkedTo, Walked
<1> QED BY <1>2, <1>14 DEF w, keeps, all, N

-----------------------------------------------------------------------------
(* What is added to the walk, and asked of a series.                       *)

\* A finite set made a sequence: each element once.
LEMMA SetToSeqIs ==
    ASSUME NEW S, IsFiniteSet(S)
    PROVE  SetToSeq(S) \in Seq(S) /\ IsInjective(SetToSeq(S)) /\ ToSet(SetToSeq(S)) = S
<1> DEFINE n == Cardinality(S)
           f == SetToSeq(S)
<1>1. n \in Nat /\ ExistsBijection(1 .. n, S)
  BY FS_CardinalityType
<1>2. \E g \in [1 .. n -> S] : IsInjective(g)
  BY <1>1 DEF ExistsBijection, Bijection, Injection, IsInjective
<1>3. f \in [1 .. n -> S] /\ IsInjective(f)
  <2>1. f = CHOOSE g \in [1 .. n -> S] : IsInjective(g)
    BY DEF SetToSeq
  <2> HIDE DEF f, n
  <2> QED BY <1>2, <2>1
<1> HIDE DEF f
<1>4. f \in Injection(1 .. n, S)
  BY <1>3 DEF Injection, IsInjective
<1>5. Cardinality(1 .. n) = n
  BY <1>1, FS_Interval
<1> HIDE DEF n
<1>6. f \in Surjection(1 .. n, S)
  <2>1. Cardinality(1 .. n) = Cardinality(S)
    BY <1>5 DEF n
  <2> QED BY <1>4, <2>1, FS_Injection
<1>7. DOMAIN f = 1 .. n /\ ToSet(f) = S
  BY <1>3, <1>6 DEF Surjection, ToSet
<1>8. f \in Seq(S)
  <2>1. \A m \in Nat : \A g \in [1 .. m -> S] : g \in Seq(S)
    BY SeqDef
  <2> QED BY ONLY <1>1, <1>3, <2>1
<1> QED BY <1>3, <1>7, <1>8 DEF f

\* One injective sequence behind another with nothing in common.
LEMMA ConcatInjective ==
    ASSUME NEW S, NEW s \in Seq(S), NEW t \in Seq(S), IsInjective(s), IsInjective(t),
           ToSet(s) \intersect ToSet(t) = {}
    PROVE  IsInjective(s \o t)
<1> DEFINE n == Len(s)
           k == Len(t)
           u == s \o t
<1>1. /\ n \in Nat /\ k \in Nat /\ DOMAIN s = 1 .. n /\ DOMAIN t = 1 .. k /\ DOMAIN u = 1 .. n + k
      /\ \A i \in 1 .. n + k : u[i] = IF i <= n THEN s[i] ELSE t[i - n]
  OBVIOUS
<1> HIDE DEF n, k, u
<1>2. ASSUME NEW i \in 1 .. n + k
      PROVE  \/ i \in 1 .. n /\ u[i] = s[i] /\ u[i] \in ToSet(s)
             \/ i - n \in 1 .. k /\ ~(i \in 1 .. n) /\ u[i] = t[i - n] /\ u[i] \in ToSet(t)
  <2>1. CASE i <= n
    <3>1. i \in 1 .. n /\ u[i] = s[i]
      BY <1>1, <2>1
    <3> QED BY <1>1, <3>1 DEF ToSet
  <2>2. CASE ~(i <= n)
    <3>1. i - n \in 1 .. k /\ ~(i \in 1 .. n) /\ u[i] = t[i - n]
      BY <1>1, <2>2
    <3> QED BY <1>1, <3>1 DEF ToSet
  <2> QED BY <2>1, <2>2
<1>3. SUFFICES ASSUME NEW i \in 1 .. n + k, NEW j \in 1 .. n + k, u[i] = u[j] PROVE i = j
  BY <1>1 DEF IsInjective, u
<1>4. CASE i \in 1 .. n /\ j \in 1 .. n
  BY <1>1, <1>2, <1>3, <1>4 DEF IsInjective
<1>5. CASE ~(i \in 1 .. n) /\ ~(j \in 1 .. n)
  <2>1. i - n = j - n
    BY <1>1, <1>2, <1>3, <1>5 DEF IsInjective
  <2> QED BY <1>1, <2>1
<1>6. CASE i \in 1 .. n /\ ~(j \in 1 .. n)
  BY <1>2, <1>3, <1>6
<1>7. CASE ~(i \in 1 .. n) /\ j \in 1 .. n
  BY <1>2, <1>3, <1>7
<1> QED BY <1>4, <1>5, <1>6, <1>7

\* What a walk put out, with the dates added, cut at the limit: the first of
\* all, when what is missing comes after all the walk put out.
LEMMA WithAddedIs ==
    ASSUME NEW w \in Standings, Climbs(w.out), NEW added \in SUBSET Int, IsFiniteSet(added),
           NEW limit \in Nat, NEW F \in SUBSET Int, IsFiniteSet(F),
           ToSet(w.out) \subseteq F, added \subseteq F,
           \A y \in F : y \notin ToSet(w.out) /\ y \notin added =>
               Len(w.out) > limit /\ \A m \in ToSet(w.out) : m < y
    PROVE  /\ WithAdded(w, added, limit).at = FirstIn(F, limit).at
           /\ WithAdded(w, added, limit).truncated = FirstIn(F, limit).truncated
           /\ WithAdded(w, added, limit).noted = w.noted
           /\ \A y \in ToSet(WithAdded(w, added, limit).at) :
                  y \in F /\ ~(Len(w.out) > limit /\ \A m \in ToSet(w.out) : m < y)
<1> DEFINE s == w.out
           rest == added \ ToSet(s)
           t == SetToSeq(rest)
           u == Ascending(s \o t)
<1>1. s \in Seq(Int)
  BY DEF Standings
<1>2. WithAdded(w, added, limit)
        = [at |-> AtMost(u, limit), truncated |-> Len(u) > limit, noted |-> w.noted]
  BY DEF WithAdded, Limited
<1>3. t \in Seq(Int) /\ IsInjective(t) /\ ToSet(t) = rest
  <2>1. IsFiniteSet(rest)
    BY FS_Subset
  <2>2. rest \subseteq Int
    OBVIOUS
  <2> HIDE DEF rest
  <2>3. t \in Seq(rest) /\ IsInjective(t) /\ ToSet(t) = rest
    BY <2>1, SetToSeqIs
  <2> HIDE DEF t
  <2>4. t \in Seq(Int)
    <3>1. \A A, B : A \subseteq B => \A q \in Seq(A) : q \in Seq(B)
      BY SeqDef
    <3> QED BY ONLY <2>2, <2>3, <3>1
  <2> QED BY <2>3, <2>4
<1>4. IsInjective(s) /\ Len(s) = Cardinality(ToSet(s)) /\ IsFiniteSet(ToSet(s))
  <2> HIDE DEF s
  <2>1. /\ Cardinality(ToSet(s)) = Len(s) /\ IsFiniteSet(ToSet(s))
        /\ \A i, j \in 1 .. Len(s) : s[i] = s[j] => i = j
    BY <1>1, Climbed DEF s
  <2> QED BY <1>1, <2>1 DEF IsInjective
<1>5. s \o t \in Seq(Int) /\ ToSet(s \o t) = ToSet(s) \union ToSet(t)
  <2> HIDE DEF s, t
  <2> QED BY <1>1, <1>3, Behind
<1>6. IsInjective(s \o t)
  <2>1. ToSet(s) \intersect ToSet(t) = {}
    BY <1>3
  <2> HIDE DEF s, t
  <2> QED BY <1>1, <1>3, <1>4, <2>1, ConcatInjective
<1>7. u \in Seq(Int) /\ Climbs(u) /\ ToSet(u) = ToSet(s) \union added
  <2>1. ToSet(s \o t) = ToSet(s) \union added
    BY <1>3, <1>5
  <2> DEFINE v == s \o t
  <2>2. v \in Seq(Int) /\ IsInjective(v)
    BY <1>5, <1>6
  <2> HIDE DEF v
  <2>3. Ascending(v) \in Seq(Int) /\ ToSet(Ascending(v)) = ToSet(v) /\ Climbs(Ascending(v))
    BY <2>2, AscendingIs
  <2> QED BY <2>1, <2>3 DEF v
<1> HIDE DEF u, s, t
<1>8. /\ IsFiniteSet(ToSet(u)) /\ Cardinality(ToSet(u)) = Len(u) /\ Len(u) \in Nat
      /\ DOMAIN u = 1 .. Len(u)
      /\ \A i \in 1 .. Len(u) : /\ IsFiniteSet({x \in ToSet(u) : x <= u[i]})
                                /\ Cardinality({x \in ToSet(u) : x <= u[i]}) = i
                                /\ u[i] \in Int
  <2>1. u \in Seq(Int) /\ Climbs(u)
    BY <1>7
  <2>2. Len(u) \in Nat /\ DOMAIN u = 1 .. Len(u) /\ \A i \in 1 .. Len(u) : u[i] \in Int
    BY ONLY <2>1
  <2> QED BY ONLY <2>1, <2>2, Climbed
<1>12. Len(s) \in Nat /\ Len(s) <= Len(u)
  BY <1>1, <1>4, <1>7, <1>8, FS_Subset
<1>11. ASSUME NEW i \in 1 .. limit, i \in 1 .. Len(u), Len(s) > limit
       PROVE  ~(\A m \in ToSet(s) : m < u[i])
  <2> SUFFICES ASSUME \A m \in ToSet(s) : m < u[i] PROVE FALSE
    OBVIOUS
  <2> DEFINE upTo == {x \in ToSet(u) : x <= u[i]}
  <2>1. ToSet(s) \subseteq upTo
    <3> SUFFICES ASSUME NEW m \in ToSet(s) PROVE m \in ToSet(u) /\ m <= u[i]
      OBVIOUS
    <3>1. m < u[i] /\ m \in Int /\ u[i] \in Int
      BY <1>8, <1>11 DEF s
    <3> QED BY <1>7, <3>1
  <2>2. IsFiniteSet(upTo) /\ Cardinality(upTo) = i
    BY <1>8, <1>11
  <2> HIDE DEF upTo
  <2>3. Cardinality(ToSet(s)) <= i
    BY <2>1, <2>2, FS_Subset
  <2> QED BY <1>4, <1>11, <1>12, <2>3
<1>13. ASSUME NEW y \in ToSet(AtMost(u, limit))
       PROVE  y \in F /\ ~(Len(s) > limit /\ \A m \in ToSet(s) : m < y)
  <2>1. \E i \in 1 .. Len(u) : y = u[i] /\ (Len(s) > limit => i <= limit)
    <3>1. CASE Len(u) > limit
      <4>1. AtMost(u, limit) = SubSeq(u, 1, limit)
        BY <3>1 DEF AtMost
      <4>2. SubSeq(u, 1, limit) = [i \in 1 .. limit |-> u[i]]
        <5>1. u \in Seq(Int) /\ limit <= Len(u)
          BY <1>7, <1>8, <3>1
        <5> QED BY ONLY <5>1, limit \in Nat
      <4>3. PICK i \in 1 .. limit : y = u[i]
        BY <4>1, <4>2 DEF ToSet
      <4>4. i \in 1 .. Len(u) /\ i <= limit
        BY <1>8, <3>1
      <4> QED BY <4>3, <4>4
    <3>2. CASE ~(Len(u) > limit)
      <4>1. AtMost(u, limit) = u
        BY <3>2 DEF AtMost
      <4>2. ~(Len(s) > limit)
        BY <1>8, <1>12, <3>2
      <4> QED BY <1>8, <4>1, <4>2 DEF ToSet
    <3> QED BY <3>1, <3>2
  <2>2. PICK i \in 1 .. Len(u) : y = u[i] /\ (Len(s) > limit => i <= limit)
    BY <2>1
  <2>3. y \in ToSet(u)
    BY <1>8, <2>2 DEF ToSet
  <2>4. y \in F
    BY <1>7, <2>3 DEF s
  <2>5. Len(s) > limit => i \in 1 .. limit
    BY <2>2
  <2> QED BY <1>11, <2>2, <2>4, <2>5
<1>9. ASSUME NEW y \in F \ ToSet(u)
      PROVE  Len(u) > limit /\ \A i \in 1 .. limit : u[i] < y
  <2>1. Len(s) > limit /\ \A m \in ToSet(s) : m < y
    BY <1>7, <1>9 DEF s
  <2>2. Len(s) \in Nat /\ Len(s) <= Len(u)
    BY <1>1, <1>4, <1>7, <1>8, FS_Subset
  <2>3. ASSUME NEW i \in 1 .. limit PROVE u[i] < y
    <3> SUFFICES ASSUME ~(u[i] < y) PROVE FALSE
      OBVIOUS
    <3> DEFINE upTo == {x \in ToSet(u) : x <= u[i]}
    <3>1. i \in 1 .. Len(u) /\ u[i] \in Int /\ y \in Int
      <4>1. limit \in Nat /\ i \in 1 .. limit /\ Len(s) > limit /\ Len(s) <= Len(u) /\ Len(s) \in Nat
        BY <2>1, <2>2
      <4>2. i \in 1 .. Len(u) /\ y \in Int
        BY ONLY <1>8, <4>1, F \in SUBSET Int, y \in F \ ToSet(u)
      <4> QED BY <1>8, <4>2
    <3>2. ToSet(s) \subseteq upTo
      <4> SUFFICES ASSUME NEW m \in ToSet(s) PROVE m \in ToSet(u) /\ m <= u[i]
        OBVIOUS
      <4>1. m \in Int /\ m < y
        BY <2>1 DEF s
      <4> QED BY <1>7, <3>1, <4>1
    <3>3. IsFiniteSet(upTo) /\ Cardinality(upTo) = i
      BY <1>8, <3>1
    <3> HIDE DEF upTo
    <3>4. Cardinality(ToSet(s)) <= i
      BY <3>2, <3>3, FS_Subset
    <3> QED BY <1>4, <2>1, <2>2, <3>1, <3>4
  <2> QED BY <2>1, <2>2, <2>3
<1>10. /\ AtMost(u, limit) = FirstIn(F, limit).at
       /\ (Len(u) > limit) = FirstIn(F, limit).truncated
  <2>1. ToSet(u) \subseteq F
    BY <1>7 DEF s
  <2> QED BY <1>7, <1>9, <2>1, FirstsOf
<1> QED BY <1>2, <1>10, <1>13 DEF s

\* The values of a function on a finite set are finitely many.
Values(f, S) == {f[x] : x \in S}

\* They are finitely many.
LEMMA ValuesFinite ==
    ASSUME NEW S, IsFiniteSet(S), NEW f
    PROVE  IsFiniteSet(Values(f, S))
<1> DEFINE g == [x \in S |-> f[x]]
<1>1. g \in Surjection(S, Values(f, S))
  BY DEF Surjection, Values
<1> QED BY <1>1, FS_Surjection

\* Points that are written become dates or instants, finitely many.
LEMMA PointsAre ==
    ASSUME NEW s, Placed(s), NEW ps \in SUBSET WrittenPoints, IsFiniteSet(ps)
    PROVE  Points(s, ps) \in SUBSET Int /\ IsFiniteSet(Points(s, ps))
<1>1. CASE s.allDay
  <2> DEFINE S == {q \in ps : q.allDay}
             f == [p \in S |-> p.at]
  <2>1. IsFiniteSet(S)
    BY FS_Subset
  <2>2. Points(s, ps) = Values(f, S)
    BY <1>1 DEF Points, Values
  <2>3. Points(s, ps) \in SUBSET Int
    BY <1>1 DEF Points, WrittenPoints
  <2> HIDE DEF S, f
  <2> QED BY <2>1, <2>2, <2>3, ValuesFinite
<1>2. CASE ~s.allDay
  <2> DEFINE S == {q \in ps : HasInstant(q)}
             z == ZoneOf(s)
             f == [p \in S |-> Instant(p, z)]
  <2>1. IsFiniteSet(S)
    BY FS_Subset
  <2>2. Points(s, ps) = Values(f, S)
    BY <1>2 DEF Points, Values
  <2>3. ASSUME NEW p \in S PROVE Instant(p, z) \in Int
    <3>1. p.at \in Int /\ p.zone \in {"own", "utc", "unknown"} \union DOMAIN Zones /\ p.zone # "unknown"
      BY DEF WrittenPoints, HasInstant
    <3>2. z \in Clocks
      BY <1>2, 0 \in Int, ReadingIs
    <3>3. p.zone \notin {"own", "utc"} => Zones[p.zone] \in Clocks
      BY <3>1, ZoneAssumption DEF Clocks, ZoneAssumption
    <3>4. \A c \in Clocks : Wall(c, p.at) \in Int
      BY <3>1, WallIs
    <3> HIDE DEF z
    <3> QED BY <3>1, <3>2, <3>3, <3>4 DEF Instant
  <2>4. Points(s, ps) \in SUBSET Int
    <3>1. Points(s, ps) = {Instant(p, z) : p \in S}
      BY <1>2 DEF Points
    <3> HIDE DEF S, z
    <3> QED BY <2>3, <3>1
  <2> HIDE DEF S, f
  <2> QED BY <2>1, <2>2, <2>4, ValuesFinite
<1> QED BY <1>1, <1>2 DEF Placed

\* The UNTIL an expansion compares with.
LEMMA UntilIs ==
    ASSUME NEW s, NEW r \in WrittenRules
    PROVE  UntilOf(s, r) \in Int /\ (UntilOf(s, r) # Zero => r.until # Zero)
<1>1. r.until \in Int /\ Day \in Nat \ {0}
  BY ClockAssumption DEF WrittenRules, ClockAssumption
<1>2. r.until \div Day \in Int
  BY <1>1
<1> QED BY <1>1, <1>2 DEF UntilOf

\* The candidates the rule matches, within its ends, are the rule's dates
\* that the walk gets to.
LEMMA GotToAre ==
    ASSUME NEW start \in Dates, NEW r \in WrittenRules, ReadAlike(r)
    PROVE  LET C == Candidates(start, r)
           IN  Bounded(Matched(r, C, Len(C)), r) = GotTo(start, r, C)
<1> DEFINE C == Candidates(start, r)
           all == Matched(r, C, Len(C))
<1>1. /\ C \in Seq(Int) /\ ToSet(C) \subseteq start .. LastDate
      /\ \A d \in start .. LastDate : d \in ToSet(C) /\ RuleMatches(d, r)
             <=> d \in AllOf(start, r) /\ GetsTo(start, r, C, d)
  BY CandidatesAre
<1> HIDE DEF C
<1>2. \A d : d \in all <=> d \in AllOf(start, r) /\ GetsTo(start, r, C, d)
  <2>1. \A d : d \in all <=> d \in ToSet(C) /\ RuleMatches(d, r)
    BY <1>1 DEF Matched, ToSet
  <2>2. AllOf(start, r) \subseteq start .. LastDate
    BY DEF AllOf
  <2> HIDE DEF all
  <2> QED BY <1>1, <2>1, <2>2
<1>3. start .. LastDate \subseteq Dates
  <2>1. start \in Int /\ 0 <= start /\ LastDate \in Int
    BY FirstDays DEF Dates
  <2> QED BY <2>1 DEF Dates
<1>4. AllOf(start, r) \subseteq Dates
  BY <1>3 DEF AllOf
<1> HIDE DEF all
<1>5. ASSUME NEW d \in all
      PROVE  {x \in all : x < d} = {x \in AllOf(start, r) : x < d}
  <2>1. ASSUME NEW x \in AllOf(start, r), x < d PROVE x \in all
    <3>1. x \in Dates /\ d \in Dates /\ GetsTo(start, r, C, d)
      BY <1>2, <1>4
    <3>2. x <= d
      BY <2>1, <3>1, MonthIs
    <3>3. GetsTo(start, r, C, x)
      BY <1>1, <3>1, <3>2, GetsThere
    <3> QED BY <1>2, <3>3
  <2> QED BY <1>2, <2>1
<1>6. GotTo(start, r, C) = {d \in Bounded(AllOf(start, r), r) : GetsTo(start, r, C, d)}
  <2>1. AllOf(start, r) = {d \in start .. LastDate :
            d \notin r.unknown <=> InPeriod(start, r, d) /\ Selected(start, r, d)}
    BY DEF AllOf, ReadAlike
  <2> QED BY <2>1 DEF GotTo, RuleDates
<1>7. Bounded(all, r) = GotTo(start, r, C)
  BY <1>2, <1>5, <1>6 DEF Bounded
<1> QED BY <1>7 DEF C, all

\* What a series' lines say, as they are read.
Readings == [rules : Seq(WrittenRules), excluded : SUBSET WrittenPoints, added : SUBSET WrittenPoints,
             unsupported : BOOLEAN]
Read(set) ==
    /\ set \in Readings /\ IsFiniteSet(set.excluded) /\ IsFiniteSet(set.added) /\ set.rules # <<>>
RangeOf(s, set, from, to, limit) ==
    [from |-> from, to |-> to, limit |-> limit, until |-> UntilOf(s, set.rules[1]),
     excluded |-> Points(s, set.excluded)]
OccurringAs(s, set) == OccurringOf(s, set, UntilOf(s, set.rules[1]))

\* A series read alike, the range of an expansion, and what is asked of it.
Comparable(s, set) ==
    /\ Placed(s) /\ Read(set) /\ ReadAlike(set.rules[1])
    /\ set.rules[1].count > 0 => IsInjective(Candidates(StartDate(s), set.rules[1]))
    /\ set.rules[1].until # Zero =>
          \A m \in Points(s, set.added) : m <= UntilOf(s, set.rules[1])

\* Rules, ranges and added points are then of their types.
LEMMA ComparableIs ==
    ASSUME NEW s, NEW set, Comparable(s, set), NEW from \in Int, NEW to \in Int, NEW limit \in Nat
    PROVE  /\ set.rules[1] \in WrittenRules
           /\ RangeOf(s, set, from, to, limit) \in Ranges
           /\ Points(s, set.added) \in SUBSET Int /\ IsFiniteSet(Points(s, set.added))
<1>1. set.rules \in Seq(WrittenRules) /\ set.rules # <<>>
  BY DEF Comparable, Read, Readings
<1>2. set.rules[1] \in WrittenRules
  <2> DEFINE q == set.rules
  <2>1. q \in Seq(WrittenRules) /\ q # <<>>
    BY <1>1
  <2> HIDE DEF q
  <2>2. 1 \in DOMAIN q /\ \A i \in DOMAIN q : q[i] \in WrittenRules
    BY ONLY <2>1
  <2>3. q[1] \in WrittenRules
    BY <2>2
  <2> QED BY <2>3 DEF q
<1>3. Points(s, set.excluded) \in SUBSET Int
  BY PointsAre DEF Comparable, Read, Readings
<1>4. Points(s, set.added) \in SUBSET Int /\ IsFiniteSet(Points(s, set.added))
  BY PointsAre DEF Comparable, Read, Readings
<1>5. UntilOf(s, set.rules[1]) \in Int
  BY <1>2, UntilIs
<1>6. RangeOf(s, set, from, to, limit) \in Ranges
  BY <1>3, <1>5 DEF RangeOf, Ranges
<1> QED BY <1>2, <1>4, <1>6

\* What is asked of a series is what an expansion wants of the rule's dates
\* and of the dates added.
LEMMA AskedIs ==
    ASSUME NEW s, NEW set, Comparable(s, set), NEW from \in Int, NEW to \in Int, NEW limit \in Nat
    PROVE  LET dates == RuleDates(StartDate(s), set.rules[1])
           IN  \A m : m \in Asked(OccurringAs(s, set), from, to)
                   <=> /\ Wanted(RangeOf(s, set, from, to, limit), m)
                       /\ m \in Points(s, set.added) \/ \E d \in dates : m = At(s, d)
<1> DEFINE r == set.rules[1]
           until == UntilOf(s, r)
           range == RangeOf(s, set, from, to, limit)
           dates == RuleDates(StartDate(s), r)
           added == Points(s, set.added)
           gone == Points(s, set.excluded)
           ats == {At(s, d) : d \in dates}
<1>1. r \in WrittenRules /\ added \in SUBSET Int /\ range \in Ranges
  BY ComparableIs
<1>2. until # Zero => \A m \in added : m <= until
  BY <1>1, UntilIs DEF Comparable
<1>3. ats \subseteq Int /\ until \in Int
  <2>1. dates \subseteq Int
    BY DEF RuleDates, Bounded
  <2>2. \A d \in Int : At(s, d) \in Int
    BY LaterDates DEF Comparable
  <2>3. until \in Int
    BY <1>1, UntilIs
  <2> HIDE DEF dates
  <2> QED BY <2>1, <2>2, <2>3
<1>4. /\ range.from = from /\ range.to = to /\ range.until = until /\ range.excluded = gone
  BY DEF RangeOf
<1>5. OccurringAs(s, set) = ({m \in ats : until = Zero \/ m <= until} \union added) \ gone
  BY DEF OccurringAs, OccurringOf
<1>6. \A m : m \in Asked(OccurringAs(s, set), from, to)
        <=> /\ (m \in ats /\ (until = Zero \/ m <= until)) \/ m \in added
            /\ m \notin gone /\ (from = Zero \/ m >= from) /\ (to = Zero \/ m < to)
  BY <1>5 DEF Asked
<1>7. \A m : (\E d \in dates : m = At(s, d)) <=> m \in ats
  OBVIOUS
<1> HIDE DEF range, until, added, gone, ats, dates
<1>8. ASSUME NEW m
      PROVE  m \in Asked(OccurringAs(s, set), from, to)
               <=> Wanted(range, m) /\ (m \in added \/ m \in ats)
  <2>1. CASE m \in Int
    <3>1. Late(range, m) <=> (until # Zero /\ m > until) \/ (to # Zero /\ m >= to)
      BY <1>4 DEF Late
    <3>2. Wanted(range, m) <=> /\ m \notin gone /\ (from = Zero \/ m >= from)
                               /\ ~(until # Zero /\ m > until) /\ ~(to # Zero /\ m >= to)
      BY <1>4, <3>1 DEF Wanted
    <3>3. m \in added => until = Zero \/ m <= until
      BY <1>2
    <3> QED BY <1>3, <1>6, <2>1, <3>2, <3>3
  <2>2. CASE m \notin Int
    BY <1>1, <1>3, <1>6, <2>2 DEF added
  <2> QED BY <2>1, <2>2
<1> QED BY <1>7, <1>8 DEF range, added, dates

\* A rule has finitely many dates, and what is asked of a series is finite.
LEMMA AskedFinite ==
    ASSUME NEW s, NEW set, Comparable(s, set), NEW from \in Int, NEW to \in Int
    PROVE  /\ Asked(OccurringAs(s, set), from, to) \in SUBSET Int
           /\ IsFiniteSet(Asked(OccurringAs(s, set), from, to))
           /\ OccurringAs(s, set) \in SUBSET Int /\ IsFiniteSet(OccurringAs(s, set))
<1> DEFINE r == set.rules[1]
           dates == RuleDates(StartDate(s), r)
           f == [d \in dates |-> At(s, d)]
           added == Points(s, set.added)
           occurring == OccurringAs(s, set)
<1>1. /\ added \in SUBSET Int /\ IsFiniteSet(added)
  BY 0 \in Int, 0 \in Nat, ComparableIs
<1>2. dates \in SUBSET Int /\ IsFiniteSet(dates)
  <2>1. StartDate(s) \in Int /\ LastDate \in Int
    BY FirstDays, MonthIs DEF Comparable, Placed
  <2>2. IsFiniteSet(StartDate(s) .. LastDate)
    BY <2>1, FS_Interval
  <2>3. dates \subseteq StartDate(s) .. LastDate
    BY DEF RuleDates, Bounded
  <2> QED BY <2>1, <2>2, <2>3, FS_Subset
<1>3. Values(f, dates) \in SUBSET Int /\ IsFiniteSet(Values(f, dates))
  <2>1. \A d \in Int : At(s, d) \in Int
    BY LaterDates DEF Comparable
  <2> HIDE DEF dates
  <2> QED BY <1>2, <2>1, ValuesFinite DEF Values
<1>4. occurring \subseteq Values(f, dates) \union added
  <2>1. {At(s, d) : d \in dates} \subseteq Values(f, dates)
    BY DEF Values
  <2> HIDE DEF f, dates
  <2>2. occurring \subseteq {At(s, d) : d \in dates} \union added
    BY DEF OccurringAs, OccurringOf, dates
  <2> QED BY <2>1, <2>2
<1>5. IsFiniteSet(Values(f, dates) \union added)
  BY <1>1, <1>3, FS_Union
<1> HIDE DEF added, f, dates, occurring
<1>6. occurring \in SUBSET Int /\ IsFiniteSet(occurring)
  BY <1>1, <1>3, <1>4, <1>5, FS_Subset
<1>7. Asked(occurring, from, to) \subseteq occurring
  BY DEF Asked
<1> QED BY <1>6, <1>7, FS_Subset DEF occurring

\* What the walk over a series' candidates does, in the words of the rule.
LEMMA WalkIs ==
    ASSUME NEW s, NEW set, Comparable(s, set), NEW from \in Int, NEW to \in Int, NEW limit \in Nat
    PROVE  LET r == set.rules[1]
               range == RangeOf(s, set, from, to, limit)
           IN  Walked(s, range, Walk(s, r, range), {d \in DatesOf(s, r) : Wanted(range, At(s, d))})
<1> DEFINE r == set.rules[1]
           range == RangeOf(s, set, from, to, limit)
           start == StartDate(s)
           C == Candidates(start, r)
<1>1. r \in WrittenRules /\ range \in Ranges /\ start \in Dates /\ Placed(s) /\ ReadAlike(r)
  BY ComparableIs DEF Comparable, Placed
<1>2. r.count > 0 => IsInjective(C)
  BY DEF Comparable
<1>3. DatesOf(s, r) = GotTo(start, r, C)
  BY DEF DatesOf
<1>4. Walk(s, r, range) = WalkOver(s, r, range, C)
  BY DEF Walk
<1> HIDE DEF r, range, start
<1>5. C \in Seq(Int) /\ Rises(C)
  BY <1>1, CandidatesAre
<1>6. Bounded(Matched(r, C, Len(C)), r) = GotTo(start, r, C)
  BY <1>1, GotToAre
<1> HIDE DEF C
<1>7. Walked(s, range, WalkOver(s, r, range, C), KeptOf(s, r, range, Matched(r, C, Len(C))))
  BY <1>1, <1>2, <1>5, WalkGives
<1>8. KeptOf(s, r, range, Matched(r, C, Len(C))) = {d \in DatesOf(s, r) : Wanted(range, At(s, d))}
  BY <1>3, <1>6 DEF KeptOf
<1> QED BY <1>4, <1>7, <1>8 DEF r, range

\* An expansion that gets far enough is the first of what is asked.
LEMMA ExpandsIt ==
    ASSUME NEW s, NEW set, Comparable(s, set), NEW from \in Int, NEW to \in Int, NEW limit \in Nat,
           FarEnough(Reached(s, DatesOf(s, set.rules[1])), Points(s, set.added),
                     Asked(OccurringAs(s, set), from, to), limit)
    PROVE  ExpandsTo(s, ExpandSet(s, set, from, to, limit),
                     FirstIn(Asked(OccurringAs(s, set), from, to), limit), DatesOf(s, set.rules[1]))
<1> DEFINE r == set.rules[1]
           range == RangeOf(s, set, from, to, limit)
           start == StartDate(s)
           all == RuleDates(start, r)
           dates == DatesOf(s, r)
           reached == Reached(s, dates)
           added == Points(s, set.added)
           more == {m \in added : Wanted(range, m)}
           asked == Asked(OccurringAs(s, set), from, to)
           keeps == {d \in dates : Wanted(range, At(s, d))}
           w == Walk(s, r, range)
           out == ToSet(w.out)
           occ == ExpandSet(s, set, from, to, limit)
<1>1. /\ r \in WrittenRules /\ range \in Ranges /\ range.limit = limit
      /\ added \in SUBSET Int /\ IsFiniteSet(added) /\ Placed(s) /\ start \in Dates
  BY ComparableIs DEF Comparable, Placed, RangeOf
<1>2. asked \in SUBSET Int /\ IsFiniteSet(asked)
  BY AskedFinite
<1>3. occ = WithAdded(w, more, limit)
  BY DEF ExpandSet, ExpandWithin, RangeOf
<1>4. Walked(s, range, w, keeps)
  BY WalkIs
<1>5. \A m : m \in asked <=> Wanted(range, m) /\ (m \in added \/ \E d \in all : m = At(s, d))
  BY AskedIs
<1>6. FarEnough(reached, added, asked, limit)
  OBVIOUS
<1>7. \A d : d \in dates <=> d \in all /\ GetsTo(start, r, Candidates(start, r), d)
  BY DEF DatesOf, GotTo
<1>8. all \subseteq Dates /\ Dates \subseteq Int
  <2>1. start \in Int /\ 0 <= start /\ LastDate \in Int
    BY <1>1, FirstDays DEF Dates
  <2>2. all \subseteq start .. LastDate
    BY DEF RuleDates, Bounded
  <2>3. start .. LastDate \subseteq Dates
    <3> HIDE DEF start
    <3> QED BY <2>1 DEF Dates
  <2> QED BY <2>2, <2>3 DEF Dates
<1>9. \A m : m \in reached <=> \E d \in dates : m = At(s, d)
  BY DEF Reached
<1>10. \A c, e \in Int : At(s, c) \in Int /\ (c < e => At(s, c) < At(s, e))
  BY <1>1, LaterDates
<1> HIDE DEF range, all, dates, reached, added, asked, w, occ
<1>11. /\ w \in Standings /\ Climbs(w.out) /\ Noted(s, w)
       /\ \A m \in out : \E d \in keeps : m = At(s, d)
       /\ \A d \in keeps : At(s, d) \notin out =>
             Len(w.out) > limit /\ \A m \in out : m < At(s, d)
  BY <1>1, <1>4 DEF Walked, PutOut, Behindhand
<1>12. out \in SUBSET Int /\ IsFiniteSet(out) /\ Cardinality(out) = Len(w.out)
  <2>1. w.out \in Seq(Int)
    BY <1>11 DEF Standings
  <2> DEFINE q == w.out
  <2>2. q \in Seq(Int) /\ Climbs(q)
    BY <1>11, <2>1
  <2> HIDE DEF q
  <2>3. ToSet(q) \in SUBSET Int
    BY <2>2 DEF ToSet
  <2>4. IsFiniteSet(ToSet(q)) /\ Cardinality(ToSet(q)) = Len(q)
    BY <2>2, Climbed
  <2> QED BY <2>3, <2>4 DEF q
<1> HIDE DEF out
<1>13. out \subseteq asked /\ more \subseteq asked /\ more \in SUBSET Int /\ IsFiniteSet(more)
  <2>1. out \subseteq asked
    BY <1>5, <1>7, <1>11
  <2>2. more \subseteq asked
    BY <1>5
  <2>3. more \in SUBSET Int /\ IsFiniteSet(more)
    BY <1>1, FS_Subset
  <2> QED BY <2>1, <2>2, <2>3
<1>14. \A m : m \in asked \intersect reached <=> \E d \in keeps : m = At(s, d)
  BY <1>5, <1>7, <1>9
<1>15. ASSUME NEW y \in asked, y \notin out, y \notin more
       PROVE  Len(w.out) > limit /\ \A m \in out : m < y
  <2>1. y \notin added /\ Wanted(range, y)
    BY <1>5, <1>15
  <2>2. CASE y \in reached
    <3>1. PICK d \in keeps : y = At(s, d)
      BY <1>14, <2>2
    <3> QED BY <1>11, <1>15, <3>1
  <2>3. CASE y \notin reached
    <3>1. Cardinality(asked \intersect reached) > limit
      BY <1>6, <2>1, <2>3 DEF FarEnough
    <3>2. PICK d \in all : y = At(s, d)
      BY <1>5, <2>1
    <3>3. d \notin dates /\ d \in Dates /\ d \in Int
      BY <1>8, <1>9, <2>3, <3>2
    <3>4. Len(w.out) > limit
      <4> SUFFICES ASSUME ~(Len(w.out) > limit) PROVE FALSE
        OBVIOUS
      <4>1. \A e \in keeps : At(s, e) \in out
        BY <1>11
      <4>2. asked \intersect reached \subseteq out
        BY <1>14, <4>1
      <4>3. out \subseteq asked \intersect reached
        BY <1>11, <1>14
      <4>4. asked \intersect reached = out
        BY <4>2, <4>3
      <4> QED BY <1>12, <3>1, <4>4
    <3>5. ASSUME NEW m \in out PROVE m < y
      <4>1. PICK e \in keeps : m = At(s, e)
        BY <1>11
      <4>2. e \in all /\ e \in Dates /\ e \in Int /\ GetsTo(start, r, Candidates(start, r), e)
        BY <1>7, <1>8
      <4>3. ~(d <= e)
        <5>1. Candidates(start, r) \in Seq(Int)
          BY <1>1, CandidatesAre DEF Comparable
        <5>2. d <= e => GetsTo(start, r, Candidates(start, r), d)
          BY <1>1, <3>3, <4>2, <5>1, GetsThere
        <5> QED BY <1>7, <3>2, <3>3, <5>2
      <4>4. e < d
        BY <3>3, <4>2, <4>3
      <4> QED BY <1>10, <3>2, <3>3, <4>1, <4>2, <4>4
    <3> QED BY <3>4, <3>5
  <2> QED BY <2>2, <2>3
<1> DEFINE given == WithAdded(w, more, limit)
<1>16. /\ given.at = FirstIn(asked, limit).at /\ given.truncated = FirstIn(asked, limit).truncated
       /\ given.noted = w.noted
       /\ \A y \in ToSet(given.at) :
              y \in asked /\ ~(Len(w.out) > limit /\ \A m \in out : m < y)
  <2> HIDE DEF more
  <2>1. /\ w \in Standings /\ Climbs(w.out) /\ more \in SUBSET Int /\ IsFiniteSet(more)
        /\ limit \in Nat /\ asked \in SUBSET Int /\ IsFiniteSet(asked)
        /\ ToSet(w.out) \subseteq asked /\ more \subseteq asked
    BY <1>2, <1>11, <1>13 DEF out
  <2>2. \A y \in asked : y \notin ToSet(w.out) /\ y \notin more =>
            Len(w.out) > limit /\ \A m \in ToSet(w.out) : m < y
    BY <1>15 DEF out
  <2>3. /\ given.at = FirstIn(asked, limit).at /\ given.truncated = FirstIn(asked, limit).truncated
        /\ given.noted = w.noted
        /\ \A y \in ToSet(given.at) :
               y \in asked /\ ~(Len(w.out) > limit /\ \A m \in ToSet(w.out) : m < y)
    BY ONLY <2>1, <2>2, WithAddedIs
  <2> QED BY <2>3 DEF out
<1> HIDE DEF keeps, more
<1>17. ASSUME NEW d \in dates PROVE NoteIsTrue(s, occ, d, At(s, d))
  <2> DEFINE m == At(s, d)
  <2> SUFFICES ASSUME m \in ToSet(occ.at) PROVE m \in occ.noted <=> ~s.allDay /\ ~OneInstant(s, d)
    BY DEF NoteIsTrue
  <2>1. d \in Int
    BY <1>7, <1>8
  <2>2. m \in asked /\ ~(Len(w.out) > limit /\ \A l \in out : l < m)
    BY <1>3, <1>16
  <2>3. d \in keeps
    BY <1>5, <2>2 DEF keeps
  <2>4. m \in out
    BY <1>11, <2>2, <2>3
  <2>5. m \in w.noted <=> Unclear(s, d)
    BY <1>11, <2>1, <2>4 DEF Noted, out
  <2>6. CASE s.allDay
    BY <1>3, <1>16, <2>5, <2>6 DEF Unclear
  <2>7. CASE ~s.allDay
    <3>1. Unclear(s, d) <=> ~OneInstant(s, d)
      BY <1>1, <2>1, <2>7, UnclearIs
    <3> QED BY <1>3, <1>16, <2>5, <2>7, <3>1
  <2> QED BY <1>1, <2>6, <2>7 DEF Placed
<1>18. ExpandsTo(s, occ, FirstIn(asked, limit), dates)
  BY <1>3, <1>16, <1>17 DEF ExpandsTo
<1> QED BY <1>18 DEF occ, asked, dates

-----------------------------------------------------------------------------
(* The lines of a series, as they are read.                                *)

\* What reading lines leads to.
Parsed == {set \in Readings : IsFiniteSet(set.excluded) /\ IsFiniteSet(set.added)}

\* Reading one more line keeps what is read of its type.
LEMMA ReadLineIs ==
    ASSUME NEW set \in Parsed, NEW l \in WrittenLines
    PROVE  ReadLine(set, l) \in Parsed
<1>1. /\ set.rules \in Seq(WrittenRules) /\ set.excluded \in SUBSET WrittenPoints
      /\ set.added \in SUBSET WrittenPoints /\ set.unsupported \in BOOLEAN
      /\ IsFiniteSet(set.excluded) /\ IsFiniteSet(set.added) /\ set \in Readings
  BY DEF Parsed, Readings
<1>2. /\ l.name = "RRULE" => l.rule \in WrittenRules
      /\ l.name # "RRULE" => l.points \in SUBSET WrittenPoints /\ IsFiniteSet(l.points)
  <2> HIDE DEF WrittenRules, WrittenPoints
  <2>1. CASE l \in [name : {"RRULE"}, rule : WrittenRules]
    BY <2>1
  <2>2. CASE l \in {k \in [name : STRING \ {"RRULE"}, points : SUBSET WrittenPoints] :
                        IsFiniteSet(k.points)}
    BY <2>2
  <2> QED BY <2>1, <2>2 DEF WrittenLines
<1>3. CASE l.name = "RRULE" /\ set.rules = <<>>
  <2>1. ReadLine(set, l) = [set EXCEPT !.rules = <<l.rule>>]
    BY <1>3 DEF ReadLine
  <2>2. <<l.rule>> \in Seq(WrittenRules)
    BY <1>2, <1>3
  <2> QED BY <1>1, <2>1, <2>2 DEF Parsed, Readings
<1>4. CASE l.name = "EXDATE"
  <2>1. ReadLine(set, l) = [set EXCEPT !.excluded = @ \union l.points]
    BY <1>4 DEF ReadLine
  <2> DEFINE ps == set.excluded \union l.points
  <2>2. ps \in SUBSET WrittenPoints /\ IsFiniteSet(ps)
    BY <1>1, <1>2, <1>4, FS_Union
  <2> HIDE DEF ps
  <2>3. [set EXCEPT !.excluded = ps] \in Parsed
    BY <1>1, <2>2 DEF Parsed, Readings
  <2> QED BY <2>1, <2>3 DEF ps
<1>5. CASE l.name = "RDATE"
  <2>1. ReadLine(set, l) = [set EXCEPT !.added = @ \union l.points]
    BY <1>5 DEF ReadLine
  <2> DEFINE ps == set.added \union l.points
  <2>2. ps \in SUBSET WrittenPoints /\ IsFiniteSet(ps)
    BY <1>1, <1>2, <1>5, FS_Union
  <2> HIDE DEF ps
  <2>3. [set EXCEPT !.added = ps] \in Parsed
    BY <1>1, <2>2 DEF Parsed, Readings
  <2> QED BY <2>1, <2>3 DEF ps
<1>6. CASE ~(l.name = "RRULE" /\ set.rules = <<>>) /\ l.name # "EXDATE" /\ l.name # "RDATE"
  <2>1. ReadLine(set, l) = [set EXCEPT !.unsupported = TRUE]
    BY <1>6 DEF ReadLine
  <2> QED BY <1>1, <2>1 DEF Parsed, Readings
<1> QED BY <1>3, <1>4, <1>5, <1>6

\* Lines that are written are read.
LEMMA ParseIs ==
    ASSUME NEW lines \in Seq(WrittenLines)
    PROVE  Parse(lines) \in Parsed
<1> DEFINE N == Len(lines)
           E(g) == g = [n \in 0 .. N |->
                           IF n = 0 THEN NothingRead ELSE ReadLine(g[n - 1], lines[n])]
           read == CHOOSE g : E(g)
           none == NothingRead
           step == [k \in Nat |-> [p \in Parsed |->
                       IF k \in 1 .. N THEN ReadLine(p, lines[k]) ELSE p]]
<1>0. Parse(lines) = read[N]
  BY DEF Parse
<1>1. N \in Nat /\ \A i \in 1 .. N : lines[i] \in WrittenLines
  <2>1. \A S : \A t \in Seq(S) : Len(t) \in Nat /\ \A i \in 1 .. Len(t) : t[i] \in S
    OBVIOUS
  <2> QED BY ONLY <2>1, lines \in Seq(WrittenLines)
<1>2. none \in Parsed
  <2>1. <<>> \in Seq(WrittenRules) /\ {} \in SUBSET WrittenPoints /\ FALSE \in BOOLEAN
    OBVIOUS
  <2>2. NothingRead \in Readings
    BY <2>1 DEF NothingRead, Readings
  <2>3. NothingRead.excluded = {} /\ NothingRead.added = {}
    BY DEF NothingRead
  <2> QED BY <2>2, <2>3, FS_EmptySet DEF Parsed
<1>3. step \in [Nat -> [Parsed -> Parsed]]
  <2>1. \A k \in 1 .. N, p \in Parsed : ReadLine(p, lines[k]) \in Parsed
    BY <1>1, ReadLineIs
  <2> QED BY <2>1
<1>4. \A k \in 1 .. N, p \in Parsed : step[k][p] = ReadLine(p, lines[k])
  BY <1>1
<1>5. \E g : E(g)
  <2> HIDE DEF step, none, E, N
  <2>1. Loops(Parsed, none, step, N)
    BY <1>1, <1>2, <1>3, LoopRuns
  <2>2. PICK g \in [0 .. N -> Parsed] :
            g = [k \in 0 .. N |-> IF k = 0 THEN none ELSE step[k][g[k - 1]]]
    BY <2>1 DEF Loops
  <2>3. \A k \in 0 .. N : k # 0 => k \in 1 .. N /\ k - 1 \in 0 .. N
    BY <1>1
  <2>4. \A k \in 0 .. N : g[k] = IF k = 0 THEN none ELSE ReadLine(g[k - 1], lines[k])
    BY <1>4, <2>2, <2>3
  <2>5. E(g)
    BY <2>2, <2>4 DEF none, E
  <2> QED BY <2>5
<1>6. E(read)
  BY <1>5
<1> HIDE DEF read, N, step
<1>7. \A n \in 0 .. N : read[n] = IF n = 0 THEN NothingRead ELSE ReadLine(read[n - 1], lines[n])
  BY <1>6
<1> HIDE DEF E
<1> DEFINE X == {n \in Nat : n <= N => read[n] \in Parsed}
<1>8. 0 \in X
  BY <1>1, <1>2, <1>7
<1>9. \A k \in Nat : k \in X => k + 1 \in X
  <2> SUFFICES ASSUME NEW k \in Nat, k + 1 <= N, read[k] \in Parsed PROVE read[k + 1] \in Parsed
    BY <1>1
  <2>1. k + 1 \in 1 .. N /\ k + 1 \in 0 .. N /\ (k + 1) - 1 = k /\ k + 1 # 0
    BY <1>1
  <2>2. read[k + 1] = ReadLine(read[k], lines[k + 1])
    BY <1>7, <2>1
  <2>3. lines[k + 1] \in WrittenLines
    BY <1>1, <2>1
  <2> QED BY <2>2, <2>3, ReadLineIs
<1> HIDE DEF X
<1>10. \A n \in Nat : n \in X
  BY ONLY <1>8, <1>9, CountedUp
<1>11. read[N] \in Parsed
  BY <1>1, <1>10 DEF X
<1> QED BY <1>0, <1>11

\* An event the model has is placed, and its lines are read.
LEMMA SoundIsPlaced ==
    ASSUME NEW e, SoundEvent(e)
    PROVE  Placed(e) /\ Parse(e.lines) \in Parsed
<1>1. Parse(e.lines) \in Parsed
  BY ParseIs DEF SoundEvent
<1>2. e.allDay \in BOOLEAN /\ e.start \in Int /\ (~e.allDay => e.zone \in DOMAIN Zones)
  BY DEF SoundEvent
<1>3. StartDate(e) \in Dates
  <2>1. OnCalendar(e.allDay, e.start)
    BY DEF SoundEvent
  <2>2. CASE e.allDay
    BY <2>1, <2>2 DEF StartDate, OnCalendar, Dates
  <2>3. CASE ~e.allDay
    BY <1>2, <2>1, <2>3 DEF StartDate, OnCalendar, Dates, ZoneOf
  <2> QED BY <1>2, <2>2, <2>3
<1> QED BY <1>1, <1>2, <1>3 DEF Placed

\* A series that is described is one this server and RFC 5545 read alike.
LEMMA DescribedIs ==
    ASSUME NEW e, SoundEvent(e), Described(e)
    PROVE  Comparable(e, Parse(e.lines))
<1> DEFINE set == Parse(e.lines)
           r == set.rules[1]
<1>1. Placed(e) /\ set \in Parsed
  BY SoundIsPlaced
<1>2. Expandable(set) /\ DescribedBy(e, set, r)
  BY DEF Described, DescribedIn
<1> HIDE DEF set
<1>3. set.rules # <<>> /\ r.freq \in Frequencies
  BY <1>2 DEF Expandable
<1>4. Read(set)
  BY <1>1, <1>3 DEF Parsed, Read
<1>5. ReadAlike(r)
  BY <1>2, <1>3 DEF DescribedBy, ReadAlike, HasDays, Months
<1> QED BY <1>1, <1>2, <1>4, <1>5 DEF Comparable, DescribedBy, set

\* A series that is described expands as its rule says.
LEMMA ExpandsAsItSays ==
    ASSUME NEW e, SoundEvent(e), Described(e)
    PROVE  ExpandsAsRule(e, Parse(e.lines))
<1> DEFINE set == Parse(e.lines)
           r == set.rules[1]
           dates == DatesOf(e, r)
           added == Points(e, set.added)
           reached == Reached(e, dates)
           occurring == OccurringAs(e, set)
<1>1. Comparable(e, set)
  BY DescribedIs
<1>2. Ends(e) \subseteq Int
  <2>1. e.start \in Int /\ Day \in Int
    BY ClockAssumption DEF ClockAssumption, SoundEvent
  <2>2. 7 * Day \in Int
    BY <2>1
  <2> QED BY <2>1, <2>2 DEF Ends, Zero
<1>3. \A limit \in Limits : limit \in Nat /\ ClampLimit(limit) = limit
  BY StatusAssumption, CalendarAssumption DEF StatusAssumption, CalendarAssumption, ClampLimit
<1> HIDE DEF set
<1>4. ASSUME NEW limit \in Limits, NEW from \in Ends(e), NEW to \in Ends(e),
             FarEnough(reached, added, Asked(occurring, from, to), limit)
      PROVE  ExpandsTo(e, Expand(e, from, to, limit), FirstIn(Asked(occurring, from, to), limit), dates)
  <2>1. ExpandsTo(e, ExpandSet(e, set, from, to, limit),
                  FirstIn(Asked(occurring, from, to), limit), dates)
    BY <1>1, <1>2, <1>3, <1>4, ExpandsIt
  <2> QED BY <1>3, <2>1 DEF Expand, set
<1> HIDE DEF reached, dates, added
<1>5. ExpandsAlike(e, dates, reached, added, occurring)
  BY <1>4 DEF ExpandsAlike
<1> QED BY <1>5 DEF ExpandsAsRule, ExpandsAsDates, OccurringAs, set, reached, dates, added

\* What an expansion without ends tells of a series that is described.
TellsOf(reach, e, set) ==
    LET open == Open(set.rules[1])
        occurring == OccurringOf(e, set, UntilOf(e, set.rules[1]))
    IN  IF open THEN reach.says = "no end"
        ELSE Cardinality(occurring) <= MaxOccurrences
                 /\ occurring \subseteq Reached(e, DatesOf(e, set.rules[1])) \union Points(e, set.added) =>
             reach = [says |-> "ends", count |-> Cardinality(occurring)]

\* The reach that is told is that.
LEMMA TellsTheReach ==
    ASSUME NEW e, SoundEvent(e), Described(e)
    PROVE  TellsOf(ReachTold(e, 0), e, Parse(e.lines))
<1> DEFINE set == Parse(e.lines)
           r == set.rules[1]
           dates == DatesOf(e, r)
           added == Points(e, set.added)
           reached == Reached(e, dates)
           occurring == OccurringAs(e, set)
           occ == ExpandSet(e, set, Zero, Zero, MaxOccurrences)
           n == Cardinality(occurring)
           told == ReachTold(e, 0)
<1>1. Comparable(e, set) /\ Expandable(set) /\ set.rules # <<>>
  BY DescribedIs DEF Described, DescribedIn, Expandable
<1>2. MaxOccurrences \in Nat /\ Zero \in Int /\ ClampLimit(0) = MaxOccurrences
  BY CalendarAssumption DEF CalendarAssumption, ClampLimit, Zero
<1>3. Expand(e, Zero, Zero, 0) = occ
  BY <1>2 DEF Expand
<1>4. told = [says |-> IF occ.truncated \/ Open(r) THEN "no end" ELSE "ends", count |-> Len(occ.at)]
  BY <1>1, <1>3 DEF ReachTold, ReachOf
<1>5. Asked(occurring, Zero, Zero) = occurring /\ IsFiniteSet(occurring)
  <2>1. IsFiniteSet(occurring)
    BY <1>1, <1>2, AskedFinite
  <2> QED BY <2>1 DEF Asked
<1>6. n \in Nat
  BY <1>5, FS_CardinalityType
<1> HIDE DEF set, told, occ, n
<1>7. ASSUME n <= MaxOccurrences, occurring \subseteq reached \union added
      PROVE  occ.truncated = FALSE /\ Len(occ.at) = n
  <2>1. FarEnough(reached, added, Asked(occurring, Zero, Zero), MaxOccurrences)
    BY <1>5, <1>7 DEF FarEnough
  <2>2. ExpandsTo(e, occ, FirstIn(occurring, MaxOccurrences), dates)
    BY <1>1, <1>2, <1>5, <2>1, ExpandsIt DEF occ
  <2>3. /\ occ.at = FirstIn(occurring, MaxOccurrences).at
        /\ occ.truncated = FirstIn(occurring, MaxOccurrences).truncated
    BY <2>2 DEF ExpandsTo
  <2> DEFINE f == FirstIn(occurring, MaxOccurrences)
  <2>4. f.truncated = FALSE /\ DOMAIN f.at = 1 .. n
    <3>1. ~(n > MaxOccurrences)
      BY <1>2, <1>6, <1>7
    <3>2. f.truncated = (n > MaxOccurrences)
      BY DEF FirstIn, n
    <3>3. f.truncated = FALSE
      <4>1. (n > MaxOccurrences) = FALSE
        BY <3>1
      <4> QED BY ONLY <3>2, <4>1, Zenon
    <3>4. DOMAIN f.at = 1 .. IF n > MaxOccurrences THEN MaxOccurrences ELSE n
      BY DEF FirstIn, n
    <3>5. DOMAIN f.at = 1 .. n
      BY <3>1, <3>4
    <3> QED BY <3>3, <3>5
  <2>5. DOMAIN occ.at = 1 .. n
    BY <2>3, <2>4
  <2>6. Len(occ.at) = n
    BY <1>6, <2>5
  <2> QED BY <2>3, <2>4, <2>6
<1>8. CASE Open(r)
  <2>1. told.says = "no end"
    BY <1>4, <1>8
  <2> QED BY <1>8, <2>1 DEF TellsOf, told, set
<1>9. CASE ~Open(r)
  <2>1. n <= MaxOccurrences /\ occurring \subseteq reached \union added =>
            told = [says |-> "ends", count |-> n]
    BY <1>4, <1>7, <1>9
  <2> QED BY <1>9, <2>1 DEF TellsOf, told, set, n, OccurringAs
<1> QED BY <1>8, <1>9

-----------------------------------------------------------------------------
(* The warning that a change declines more.                                *)

\* What an expansion lists is an occurrence of the rule, however far it gets.
LEMMA ListsOccurrences ==
    ASSUME NEW s, NEW set, Comparable(s, set), NEW from \in Int, NEW to \in Int, NEW limit \in Nat
    PROVE  ToSet(ExpandSet(s, set, from, to, limit).at) \subseteq OccurringAs(s, set)
<1> DEFINE r == set.rules[1]
           range == RangeOf(s, set, from, to, limit)
           dates == RuleDates(StartDate(s), r)
           added == Points(s, set.added)
           more == {m \in added : Wanted(range, m)}
           asked == Asked(OccurringAs(s, set), from, to)
           keeps == {d \in DatesOf(s, r) : Wanted(range, At(s, d))}
           w == Walk(s, r, range)
           all == ToSet(w.out) \union more
<1>1. ExpandSet(s, set, from, to, limit) = WithAdded(w, more, limit)
  BY DEF ExpandSet, ExpandWithin, RangeOf
<1>2. w \in Standings /\ Climbs(w.out) /\ PutOut(s, w, keeps)
  BY WalkIs DEF Walked
<1>3. \A m : m \in asked <=> Wanted(range, m) /\ (m \in added \/ \E d \in dates : m = At(s, d))
  BY AskedIs
<1>4. DatesOf(s, r) \subseteq dates
  BY DEF DatesOf, GotTo
<1>5. asked \subseteq OccurringAs(s, set) /\ asked \in SUBSET Int /\ IsFiniteSet(asked)
  BY AskedFinite DEF Asked
<1>6. more \in SUBSET Int /\ IsFiniteSet(more)
  <2>1. added \in SUBSET Int /\ IsFiniteSet(added)
    BY ComparableIs
  <2> HIDE DEF added
  <2> QED BY <2>1, FS_Subset
<1> HIDE DEF range, dates, asked, w
<1>7. all \subseteq asked
  BY <1>2, <1>3, <1>4 DEF PutOut
<1>8. all \in SUBSET Int /\ IsFiniteSet(all) /\ ToSet(w.out) \subseteq all /\ more \subseteq all
  BY <1>5, <1>7, FS_Subset
<1>9. \A y \in all : y \notin ToSet(w.out) /\ y \notin more =>
          Len(w.out) > limit /\ \A m \in ToSet(w.out) : m < y
  OBVIOUS
<1> HIDE DEF more, all
<1>10. ToSet(WithAdded(w, more, limit).at) \subseteq all
  BY ONLY <1>2, <1>6, <1>8, <1>9, limit \in Nat, WithAddedIs
<1> QED BY <1>1, <1>5, <1>7, <1>10

\* The first of some numbers: all, when there are no more than the limit,
\* and in any case the least, to begin with.
LEMMA FirstIs ==
    ASSUME NEW F \in SUBSET Int, IsFiniteSet(F), F # {}, NEW limit \in Nat \ {0}
    PROVE  LET at == FirstIn(F, limit).at
           IN  /\ Cardinality(F) <= limit => F \subseteq ToSet(at)
               /\ 1 \in DOMAIN at /\ Len(at) \in DOMAIN at
               /\ at # <<>> /\ at[1] \in F /\ \A y \in F : at[1] <= y
<1> DEFINE c == Cardinality(F)
           k == IF c > limit THEN limit ELSE c
           upTo(m) == {x \in F : x <= m}
           place(m) == Cardinality(upTo(m))
           at == FirstIn(F, limit).at
<1>1. c \in Nat /\ c # 0
  BY FS_CardinalityType, FS_EmptySet
<1>2. k \in Nat /\ 1 \in 1 .. k /\ (c <= limit => k = c)
  BY <1>1
<1>3. at = [i \in 1 .. k |-> CHOOSE m \in F : place(m) = i]
  BY DEF FirstIn
<1>4. ASSUME NEW m \in F
      PROVE  IsFiniteSet(upTo(m)) /\ place(m) \in 1 .. c
  <2>1. upTo(m) \subseteq F /\ m \in upTo(m)
    OBVIOUS
  <2> HIDE DEF upTo
  <2>2. IsFiniteSet(upTo(m)) /\ Cardinality(upTo(m)) <= c /\ Cardinality(upTo(m)) \in Nat
    BY <2>1, FS_Subset, FS_CardinalityType
  <2>3. Cardinality(upTo(m)) # 0
    BY <2>1, <2>2, FS_EmptySet
  <2> QED BY <1>1, <2>2, <2>3
<1>5. ASSUME NEW m \in F, NEW y \in F, y < m
      PROVE  place(y) < place(m)
  <2>1. upTo(y) \subseteq upTo(m) /\ m \in upTo(m) /\ m \notin upTo(y)
    <3>1. m \in Int /\ y \in Int /\ m <= m /\ ~(m <= y)
      BY <1>5
    <3>2. \A x \in F : x <= y => x <= m
      BY <1>5, <3>1
    <3> QED BY <3>1, <3>2
  <2>2. IsFiniteSet(upTo(m)) /\ place(m) \in 1 .. c /\ place(y) \in 1 .. c
    BY <1>4
  <2> HIDE DEF upTo
  <2>3. Cardinality(upTo(y)) <= Cardinality(upTo(m))
    BY <2>1, <2>2, FS_Subset
  <2>4. Cardinality(upTo(y)) # Cardinality(upTo(m))
    BY <2>1, <2>2, FS_Subset
  <2> QED BY <1>1, <2>2, <2>3, <2>4
<1>6. \A m \in F : place(m) \in Nat
  <2> HIDE DEF place, c
  <2>1. \A i \in 1 .. c : i \in Nat
    BY <1>1
  <2> QED BY <1>4, <2>1
<1> HIDE DEF place, k, c, at
<1>7. \A m, y \in F : place(m) = place(y) => m = y
  <2> SUFFICES ASSUME NEW m \in F, NEW y \in F, place(m) = place(y), m # y PROVE FALSE
    OBVIOUS
  <2>1. place(m) \in Int /\ place(y) \in Int
    BY <1>6
  <2>2. m \in Int /\ y \in Int
    OBVIOUS
  <2>3. m < y \/ y < m
    BY ONLY <2>2, m # y
  <2> QED BY <1>5, <2>1, <2>3
<1>8. ASSUME NEW m \in F, place(m) \in 1 .. k
      PROVE  at[place(m)] = m
  <2>1. at[place(m)] = CHOOSE x \in F : place(x) = place(m)
    BY <1>3, <1>8
  <2> QED BY <1>7, <2>1
<1>9. DOMAIN at = 1 .. k /\ Len(at) \in 1 .. k
  BY <1>2, <1>3
<1>10. c <= limit => F \subseteq ToSet(at)
  BY <1>2, <1>4, <1>8, <1>9 DEF ToSet
<1>11. PICK m \in F : \A y \in F : m <= y
  <2> DEFINE T == {place(x) : x \in F}
  <2>1. T \in SUBSET Nat /\ T # {}
    BY <1>6
  <2>2. PICK t \in T : \A x \in T : t <= x
    BY <2>1, LeastOf
  <2>3. PICK m \in F : t = place(m)
    BY <2>2
  <2>4. ASSUME NEW y \in F PROVE m <= y
    <3>1. place(m) <= place(y) /\ place(m) \in Int /\ place(y) \in Int
      BY <1>6, <2>2, <2>3
    <3>2. ~(place(y) < place(m))
      BY ONLY <3>1
    <3>3. ~(y < m)
      BY <1>5, <3>2
    <3>4. m \in Int /\ y \in Int
      OBVIOUS
    <3> QED BY ONLY <3>3, <3>4
  <2> QED BY <2>4
<1>12. place(m) = 1
  <2>1. upTo(m) = {m}
    <3>1. \A x \in Int : x <= m /\ m <= x => x = m
      BY ONLY m \in F, F \in SUBSET Int
    <3>2. m <= m
      BY <1>11
    <3> QED BY <1>11, <3>1, <3>2
  <2> QED BY <2>1, FS_Singleton DEF place
<1>13. at[1] = m
  BY <1>2, <1>8, <1>12
<1>14. at # <<>>
  BY <1>2, <1>9
<1> QED BY <1>2, <1>9, <1>10, <1>11, <1>13, <1>14 DEF c, at

\* Where an event stands: its start, or the occurrences of its series.
StandsAt(e) == IF e.lines = <<>> THEN {e.start} ELSE Occurring(e)
Hours(e, m) == m .. m + LengthOf(e) - 1

\* Two events that start alike stand at the same places.
SameStarts(e, f) ==
    e.allDay = f.allDay /\ e.start = f.start /\ e.zone = f.zone /\ e.lines = f.lines

\* They do.
LEMMA SameStartsAs ==
    ASSUME NEW e, NEW f, SameStarts(e, f)
    PROVE  StandsAt(e) = StandsAt(f)
<1> DEFINE set == Parse(e.lines)
<1>1. e.allDay = f.allDay /\ e.start = f.start /\ e.zone = f.zone /\ e.lines = f.lines
  BY DEF SameStarts
<1>2. StartDate(e) = StartDate(f) /\ \A ps : Points(e, ps) = Points(f, ps)
  BY <1>1 DEF StartDate, ZoneOf, Points
<1>3. \A d : At(e, d) = At(f, d)
  BY <1>1 DEF At, ZoneOf, Reading
<1>4. \A r : UntilOf(e, r) = UntilOf(f, r)
  BY <1>1 DEF UntilOf
<1>5. Occurring(e) = Occurring(f)
  BY <1>1, <1>2, <1>3, <1>4 DEF Occurring, OccurringOf
<1> QED BY <1>1, <1>5 DEF StandsAt

\* What an event covers, from where it stands.
LEMMA CoveredIs ==
    ASSUME NEW e
    PROVE  Covered(e) = UNION {Hours(e, m) : m \in StandsAt(e)}
BY DEF Covered, StandsAt, Hours

\* A series is described, and listed by the longest expansion there is as far
\* as that goes.
ListedBy(e, set) ==
    FarEnough(Reached(e, DatesOf(e, set.rules[1])), Points(e, set.added), OccurringAs(e, set),
              MaxOccurrences)
Repeats(e) == e.lines # <<>>
Listed(e) == Described(e) /\ ListedBy(e, Parse(e.lines))

\* The spans of a timed event are some of the places it stands at.
LEMMA SpansAre ==
    ASSUME NEW e, SoundEvent(e), ~e.allDay, Repeats(e) => Described(e), NEW stop \in Int
    PROVE  /\ StandsAt(e) \in SUBSET Int
           /\ ToSet(Spans(e, stop).at) \subseteq StandsAt(e)
<1>1. CASE ~Repeats(e)
  <2>1. Spans(e, stop).at = <<e.start>> /\ StandsAt(e) = {e.start}
    BY <1>1 DEF Spans, StandsAt, Repeats
  <2>2. ToSet(<<e.start>>) = {e.start}
    BY DEF ToSet
  <2> QED BY <2>1, <2>2 DEF SoundEvent
<1>2. CASE Repeats(e)
  <2> DEFINE set == Parse(e.lines)
  <2>1. Comparable(e, set) /\ ~ParseRefused(e.lines) /\ Expandable(set)
    BY <1>2, DescribedIs DEF Described, DescribedIn
  <2>2. MaxOccurrences \in Nat /\ Zero \in Int /\ ClampLimit(MaxOccurrences) = MaxOccurrences
    BY CalendarAssumption DEF CalendarAssumption, ClampLimit, Zero
  <2>3. Spans(e, stop).at = ExpandSet(e, set, Zero, stop, MaxOccurrences).at
    <3>1. Spans(e, stop) = Starts(Expand(e, Zero, stop, MaxOccurrences))
      BY <1>2, <2>1 DEF Spans, Repeats
    <3> QED BY <2>2, <3>1 DEF Starts, Expand
  <2>4. StandsAt(e) = OccurringAs(e, set)
    BY <1>2 DEF StandsAt, Repeats, Occurring, OccurringAs
  <2> HIDE DEF set
  <2>5. ToSet(ExpandSet(e, set, Zero, stop, MaxOccurrences).at) \subseteq OccurringAs(e, set)
    BY <2>1, <2>2, ListsOccurrences
  <2>6. OccurringAs(e, set) \in SUBSET Int
    BY <2>1, <2>2, AskedFinite
  <2> QED BY <2>3, <2>4, <2>5, <2>6
<1> QED BY <1>1, <1>2

\* The spans of one that is listed are all the places, when they are no more
\* than the longest expansion has, and begin with the first.
LEMMA SpansList ==
    ASSUME NEW e, SoundEvent(e), ~e.allDay, Repeats(e) => Listed(e), StandsAt(e) # {}
    PROVE  LET at == Spans(e, Zero).at
           IN  /\ ~Repeats(e) \/ Cardinality(StandsAt(e)) <= MaxOccurrences =>
                     StandsAt(e) \subseteq ToSet(at)
               /\ 1 \in DOMAIN at /\ Len(at) \in DOMAIN at /\ at # <<>> /\ at[1] \in StandsAt(e)
               /\ \A y \in StandsAt(e) : at[1] <= y
<1>1. CASE ~Repeats(e)
  <2>1. Spans(e, Zero).at = <<e.start>> /\ StandsAt(e) = {e.start}
    BY <1>1 DEF Spans, StandsAt, Repeats
  <2>2. ToSet(<<e.start>>) = {e.start}
    BY DEF ToSet
  <2>3. e.start \in Int
    BY DEF SoundEvent
  <2>4. 1 \in DOMAIN <<e.start>> /\ Len(<<e.start>>) = 1 /\ <<e.start>> # <<>> /\ <<e.start>>[1] = e.start
    OBVIOUS
  <2>5. e.start <= e.start
    BY <2>3
  <2> QED BY <2>1, <2>2, <2>4, <2>5
<1>2. CASE Repeats(e)
  <2> DEFINE set == Parse(e.lines)
             F == OccurringAs(e, set)
             occ == ExpandSet(e, set, Zero, Zero, MaxOccurrences)
  <2>1. Comparable(e, set) /\ ~ParseRefused(e.lines) /\ Expandable(set) /\ ListedBy(e, set)
    BY <1>2, DescribedIs DEF Listed, Described, DescribedIn
  <2>2. /\ MaxOccurrences \in Nat \ {0} /\ Zero \in Int
        /\ ClampLimit(MaxOccurrences) = MaxOccurrences
    BY CalendarAssumption DEF CalendarAssumption, ClampLimit, Zero
  <2>3. Spans(e, Zero).at = occ.at
    <3>1. Spans(e, Zero) = Starts(Expand(e, Zero, Zero, MaxOccurrences))
      BY <1>2, <2>1 DEF Spans, Repeats
    <3> QED BY <2>2, <3>1 DEF Starts, Expand
  <2>4. StandsAt(e) = F
    BY <1>2 DEF StandsAt, Repeats, Occurring, OccurringAs
  <2> HIDE DEF set
  <2>5. F \in SUBSET Int /\ IsFiniteSet(F) /\ Asked(F, Zero, Zero) = F
    <3>1. F \in SUBSET Int /\ IsFiniteSet(F)
      BY <2>1, <2>2, AskedFinite
    <3> QED BY <3>1 DEF Asked
  <2>6. FarEnough(Reached(e, DatesOf(e, set.rules[1])), Points(e, set.added),
                  Asked(F, Zero, Zero), MaxOccurrences)
    BY <2>1, <2>5 DEF ListedBy
  <2>7. occ.at = FirstIn(F, MaxOccurrences).at
    BY <2>1, <2>2, <2>5, <2>6, ExpandsIt DEF ExpandsTo
  <2> HIDE DEF F, occ
  <2> QED BY <1>2, <2>2, <2>3, <2>4, <2>5, <2>7, FirstIs
<1> QED BY <1>1, <1>2

\* A change this server can compare: of a series it reads as RFC 5545 does,
\* before, and of one it also lists whole, after, unless the change leaves
\* the starts where they were.
Comparing(before, after) ==
    /\ Repeats(before) => Described(before)
    /\ Repeats(after) => Listed(after)
    /\ \/ ~Repeats(after) \/ Cardinality(StandsAt(after)) <= MaxOccurrences
       \/ SameStarts(before, after)

\* What the event stands at after a change within what it covered is covered.
LEMMA WithinCovers ==
    ASSUME NEW before, SoundEvent(before), ~before.allDay, NEW after, SoundEvent(after), ~after.allDay,
           Comparing(before, after), Within(before, after), NEW m \in StandsAt(after)
    PROVE  \E c \in StandsAt(before) :
               c <= m /\ c + LengthOf(before) >= m + LengthOf(after)
<1> DEFINE a == Spans(after, Zero)
           stop == StopsAtLast(after, a)
           b == Spans(before, stop)
           la == LengthOf(after)
           lb == LengthOf(before)
<1>1. /\ Repeats(after) => Listed(after) /\ Described(after)
      /\ Repeats(before) => Described(before)
  BY DEF Comparing, Listed
<1>2. AllWithin(before, after, a, b)
  BY DEF Within, WithinThese
<1>3. /\ ~Repeats(after) \/ Cardinality(StandsAt(after)) <= MaxOccurrences =>
            StandsAt(after) \subseteq ToSet(a.at)
      /\ 1 \in DOMAIN a.at /\ Len(a.at) \in DOMAIN a.at
      /\ a.at # <<>> /\ a.at[1] \in StandsAt(after)
      /\ \A y \in StandsAt(after) : a.at[1] <= y
  BY <1>1, SpansList
<1>4. StandsAt(after) \in SUBSET Int /\ ToSet(a.at) \subseteq StandsAt(after)
  <2>1. Zero \in Int
    BY DEF Zero
  <2> QED BY <1>1, <2>1, SpansAre
<1>5. la \in Int /\ lb \in Int
  BY DEF LengthOf, SoundEvent
<1>6. \A i \in DOMAIN a.at : a.at[i] \in ToSet(a.at)
  BY DEF ToSet
<1>7. StandsAt(before) \in SUBSET Int /\ ToSet(b.at) \subseteq StandsAt(before)
  <2>1. stop \in Int
    BY <1>3, <1>4, <1>5, <1>6 DEF StopsAtLast
  <2> HIDE DEF stop
  <2> QED BY <1>1, <2>1, SpansAre
<1>8. \A x \in ToSet(a.at) : CoveredBy(b, x, la, lb)
  BY <1>2, <1>3 DEF AllWithin
<1> HIDE DEF a, b, la, lb
<1>9. ASSUME NEW x \in ToSet(a.at)
      PROVE  \E c \in StandsAt(before) : c <= x /\ c + lb >= x + la
  <2>1. PICK i \in DOMAIN b.at : b.at[i] <= x /\ b.at[i] + lb >= x + la
    BY <1>8, <1>9 DEF CoveredBy
  <2>2. b.at[i] \in ToSet(b.at)
    BY DEF ToSet
  <2> QED BY <1>7, <2>1, <2>2
<1>10. CASE m \in ToSet(a.at)
  BY <1>9, <1>10 DEF la, lb
<1>11. CASE m \notin ToSet(a.at)
  <2>1. StandsAt(before) = StandsAt(after)
    <3>1. SameStarts(before, after)
      BY <1>3, <1>11 DEF Comparing
    <3> QED BY <3>1, SameStartsAs
  <2> DEFINE x == a.at[1]
  <2>2. x \in ToSet(a.at) /\ x \in Int
    BY <1>3, <1>4, <1>6
  <2>3. PICK c \in StandsAt(before) : c <= x /\ c + lb >= x + la
    BY <1>9, <2>2
  <2>4. c \in Int /\ x <= c
    BY <1>3, <1>7, <2>1
  <2> HIDE DEF x
  <2>5. lb >= la
    BY <1>5, <2>2, <2>3, <2>4
  <2>6. m \in StandsAt(before) /\ m \in Int
    BY <1>4, <2>1
  <2>7. m <= m /\ m + lb >= m + la
    BY <1>5, <2>5, <2>6
  <2> QED BY <2>6, <2>7 DEF la, lb
<1> QED BY <1>10, <1>11

\* A change that is not found to decline more covers no more.
LEMMA CoversNoMore ==
    ASSUME NEW before, SoundEvent(before), ~GoogleRefuses(before), DeclinesAll(before),
           NEW after, SoundEvent(after), ~GoogleRefuses(after), DeclinesAll(after),
           Comparing(before, after), ~DeclinesMore(before, after)
    PROVE  Covered(after) \subseteq Covered(before)
<1>1. ~before.allDay /\ ~after.allDay
  BY DEF DeclinesAll, GoogleRefuses, StatusTypes
<1>2. SameWhen(before, after) \/ Within(before, after)
  BY DEF DeclinesMore
<1>3. ASSUME NEW m \in StandsAt(after)
      PROVE  \E c \in StandsAt(before) : Hours(after, m) \subseteq Hours(before, c)
  <2>1. CASE SameWhen(before, after)
    <3>1. StandsAt(before) = StandsAt(after)
      BY <2>1, SameStartsAs DEF SameWhen, SameStarts
    <3>2. Hours(after, m) = Hours(before, m)
      BY <2>1 DEF SameWhen, Hours, LengthOf
    <3> QED BY <3>1, <3>2
  <2>2. CASE Within(before, after)
    <3>1. PICK c \in StandsAt(before) : c <= m /\ c + LengthOf(before) >= m + LengthOf(after)
      BY <1>1, <2>2, WithinCovers
    <3>2. c \in Int /\ m \in Int
      <4>1. /\ Repeats(after) => Described(after)
            /\ Repeats(before) => Described(before)
        BY DEF Comparing, Listed
      <4>2. Zero \in Int
        BY DEF Zero
      <4> QED BY <1>1, <4>1, <4>2, SpansAre
    <3>3. LengthOf(before) \in Int /\ LengthOf(after) \in Int
      BY DEF LengthOf, SoundEvent
    <3>4. Hours(after, m) \subseteq Hours(before, c)
      BY <3>1, <3>2, <3>3 DEF Hours
    <3> QED BY <3>4
  <2> QED BY <1>2, <2>1, <2>2
<1>4. Covered(before) = UNION {Hours(before, c) : c \in StandsAt(before)}
  BY CoveredIs
<1>5. Covered(after) = UNION {Hours(after, m) : m \in StandsAt(after)}
  BY CoveredIs
<1> QED BY <1>3, <1>4, <1>5

-----------------------------------------------------------------------------
(* StatusEvents: what this server makes and changes, and what it tells.    *)

\* An event Google has keeps Google's rules, whoever made it, and its series
\* is on the calendar; the refusal of a write without a scope tells how far
\* the event that stands goes.
StandsAtGoogle ==
    event.there => SoundEvent(event) /\ ~GoogleRefuses(event)
TellsOfTheEvent ==
    answer.how = "no scope" => event.there /\ answer.reach = ReachTold(event, 0)
StatusInv == StandsAtGoogle /\ GoogleTakesIt /\ TellsOfTheEvent

\* The times of a draft that is not refused are dates of the calendar.
LEMMA TimesAreSound ==
    ASSUME NEW d, SoundDraft(d), NEW e, SoundEvent(e), ~TimesRefused(d, e)
    PROVE  LET after == WithTimes(e, d)
           IN  /\ DOMAIN after = EventFields /\ after.allDay \in BOOLEAN /\ after.start \in Int
               /\ after.end \in Int
               /\ after.allDay \/ after.zone \in DOMAIN Zones
               /\ OnCalendar(after.allDay, after.start) /\ after.lines = e.lines
<1> DEFINE after == WithTimes(e, d)
           sentStart == d.start.given
               /\ ~SameMoment(KindGiven(d), d.zone, d.start.at, e.allDay, e.zone, e.start)
<1>1. /\ d.start.given \in BOOLEAN /\ d.end.given \in BOOLEAN /\ d.start.allDay \in BOOLEAN
      /\ d.end.allDay \in BOOLEAN /\ d.start.at \in Int /\ d.end.at \in Int
      /\ d.start.given => OnCalendar(d.start.allDay, d.start.at)
  BY DEF SoundDraft, Sides
<1>2. /\ DOMAIN e = EventFields /\ e.allDay \in BOOLEAN /\ e.start \in Int
      /\ e.end \in Int
      /\ e.allDay \/ e.zone \in DOMAIN Zones
      /\ OnCalendar(e.allDay, e.start)
  BY DEF SoundEvent
<1>3. /\ DOMAIN after = EventFields /\ after.allDay = NewAllDay(d, e) /\ after.start = NewStart(d, e)
      /\ after.zone = IF sentStart /\ ~KindGiven(d) THEN d.zone ELSE e.zone
      /\ after.lines = e.lines /\ after.end = NewEnd(d, e)
  BY <1>2 DEF WithTimes, EventFields
<1>7. NewEnd(d, e) \in Int
  BY <1>1, <1>2 DEF NewEnd, EndOf
<1> HIDE DEF after
<1>4. CASE ~d.start.given /\ ~d.end.given
  <2>1. after.allDay = e.allDay /\ after.start = e.start /\ after.zone = e.zone
    BY <1>3, <1>4 DEF NewAllDay, NewStart
  <2> QED BY <1>2, <1>3, <1>7, <2>1 DEF after
<1>5. CASE ~d.start.given /\ d.end.given
  <2>1. d.end.allDay = e.allDay
    BY <1>1, <1>5 DEF TimesRefused, OneSide, KindGiven
  <2>2. after.allDay = e.allDay /\ after.start = e.start /\ after.zone = e.zone
    BY <1>3, <1>5, <2>1 DEF NewAllDay, NewStart, KindGiven
  <2> QED BY <1>2, <1>3, <1>7, <2>2 DEF after
<1>6. CASE d.start.given
  <2>1. /\ after.allDay = d.start.allDay /\ after.start = d.start.at
        /\ KindGiven(d) = d.start.allDay
    BY <1>3, <1>6 DEF NewAllDay, NewStart, KindGiven
  <2>2. ~d.start.allDay => after.zone \in DOMAIN Zones
    <3> SUFFICES ASSUME ~d.start.allDay PROVE after.zone \in DOMAIN Zones
      OBVIOUS
    <3>1. d.zone \in DOMAIN Zones
      BY <1>6, <2>1 DEF TimesRefused
    <3>2. ~sentStart => e.allDay = FALSE
      BY <1>6, <2>1 DEF SameMoment
    <3>3. ~sentStart => e.zone \in DOMAIN Zones
      BY <1>2, <3>2
    <3> HIDE DEF sentStart
    <3> QED BY <1>3, <2>1, <3>1, <3>3
  <2> QED BY <1>1, <1>3, <1>6, <1>7, <2>1, <2>2 DEF after
<1> QED BY <1>1, <1>4, <1>5, <1>6

\* What is inserted without a refusal is an event Google takes.
LEMMA InsertIsTaken ==
    ASSUME NEW s, NEW d, SoundDraft(d), ~InsertRefused(s, d)
    PROVE  /\ ~GoogleRefuses(Inserted(s, d))
           /\ SoundEvent(Inserted(s, d))
<1> DEFINE e == Plain(d)
           made == Inserted(s, d)
<1>1. DOMAIN e = EventFields /\ e.type = "default"
  BY DEF Plain, EventFields
<1>2. ~ApplyRefused(s, d, e) /\ made = AppliedStatus(s, e)
  BY DEF InsertRefused, Inserted
<1>6. SoundEvent(e)
  <2>1. d.start.given /\ d.end.given /\ ~TimesRefused(d, NoEvent)
    BY DEF InsertRefused, SoundDraft, Sides
  <2>2. ~d.start.allDay => d.zone \in DOMAIN Zones
    BY <2>1 DEF TimesRefused, KindGiven
  <2>3. /\ e.allDay = d.start.allDay /\ e.start = d.start.at /\ e.zone = d.zone /\ e.lines = d.lines
        /\ e.end = EndOf(d.end)
    BY DEF Plain
  <2>4. EndOf(d.end) \in Int
    <3>1. d.end.at \in Int
      BY DEF SoundDraft, Sides
    <3> QED BY <3>1 DEF EndOf
  <2> HIDE DEF e
  <2> QED BY <1>1, <2>1, <2>2, <2>3, <2>4 DEF SoundEvent, SoundDraft, Sides
<1>7. ASSUME DOMAIN made = EventFields, made.allDay = e.allDay, made.start = e.start,
             made.end = e.end, made.zone = e.zone, made.lines = e.lines
      PROVE  SoundEvent(made)
  <2> HIDE DEF e, made
  <2> QED BY <1>6, <1>7 DEF SoundEvent
<1> HIDE DEF e, made
<1>3. CASE s.type \in Away
  <2>1. made = [e EXCEPT !.type = s.type, !.details = TRUE, !.onPrimary = s.onPrimary,
                         !.decline = s.decline, !.busy = "opaque"]
    BY <1>2, <1>3 DEF AppliedStatus, Away, Working
  <2>2. /\ DOMAIN made = EventFields /\ made.type = s.type /\ made.details = TRUE
        /\ made.onPrimary = s.onPrimary /\ made.busy = "opaque" /\ made.allDay = e.allDay
        /\ made.start = e.start /\ made.end = e.end /\ made.zone = e.zone /\ made.lines = e.lines
    BY <1>1, <2>1 DEF EventFields
  <2>3. s.onPrimary /\ ~ShapeRefused([e EXCEPT !.type = s.type])
    BY <1>2, <1>3 DEF ApplyRefused, StatusTypes, Away
  <2>4. ~e.allDay
    <3>1. /\ [e EXCEPT !.type = s.type].type = s.type
          /\ [e EXCEPT !.type = s.type].allDay = e.allDay
      BY <1>1 DEF EventFields
    <3> QED BY <1>3, <2>3, <3>1 DEF ShapeRefused
  <2>5. made.type # Working
    BY <1>3, <2>2 DEF Away, Working
  <2> QED BY <1>7, <2>2, <2>3, <2>4, <2>5 DEF GoogleRefuses, made
<1>4. CASE s.type = Working
  <2>0. s.type \notin Away /\ s.type \in StatusTypes
    BY <1>4 DEF Away, Working, StatusTypes
  <2>1. made = [e EXCEPT !.type = s.type, !.details = TRUE, !.onPrimary = s.onPrimary,
                         !.busy = "transparent", !.visibility = "public"]
    BY <1>2, <1>4, <2>0 DEF AppliedStatus
  <2>2. /\ DOMAIN made = EventFields /\ made.type = s.type /\ made.details = TRUE
        /\ made.onPrimary = s.onPrimary /\ made.busy = "transparent" /\ made.visibility = "public"
        /\ made.allDay = e.allDay /\ made.start = e.start /\ made.end = e.end
        /\ made.zone = e.zone /\ made.lines = e.lines
    BY <1>1, <2>1 DEF EventFields
  <2>3. s.onPrimary /\ ~ShapeRefused([e EXCEPT !.type = s.type])
    BY <1>2, <1>4 DEF ApplyRefused, StatusTypes, Away, Working
  <2>4. e.allDay => e.end = e.start + 1
    <3>1. /\ [e EXCEPT !.type = s.type].type = s.type
          /\ [e EXCEPT !.type = s.type].allDay = e.allDay
          /\ [e EXCEPT !.type = s.type].start = e.start
          /\ [e EXCEPT !.type = s.type].end = e.end
      BY <1>1 DEF EventFields
    <3> QED BY <1>4, <2>3, <3>1 DEF ShapeRefused
  <2> QED BY <1>7, <2>0, <2>2, <2>3, <2>4 DEF GoogleRefuses, made
<1>5. CASE s.type \notin StatusTypes
  <2>1. made = [e EXCEPT !.onPrimary = s.onPrimary]
    BY <1>2, <1>5 DEF AppliedStatus, StatusTypes
  <2>2. /\ DOMAIN made = EventFields /\ made.type = "default" /\ made.allDay = e.allDay
        /\ made.start = e.start /\ made.end = e.end /\ made.zone = e.zone /\ made.lines = e.lines
    BY <1>1, <2>1 DEF EventFields
  <2>3. "default" \notin StatusTypes
    BY DEF StatusTypes, Away, Working
  <2> QED BY <1>7, <2>2, <2>3 DEF GoogleRefuses, made
<1> QED BY <1>3, <1>4, <1>5 DEF StatusTypes

\* What is patched without a refusal is an event Google takes.
LEMMA PatchIsTaken ==
    ASSUME NEW e, SoundEvent(e), ~GoogleRefuses(e), NEW d, SoundDraft(d),
           ~PatchRefused(e, d, Patched(e, d))
    PROVE  /\ ~GoogleRefuses(Patched(e, d))
           /\ SoundEvent(Patched(e, d))
<1> DEFINE after == Patched(e, d)
           timed == WithTimes(e, d)
<1>0. DOMAIN e = EventFields /\ d.busy \in BusyWords /\ ~TimesRefused(d, e)
  BY DEF SoundEvent, SoundDraft, PatchRefused
<1>1. /\ DOMAIN timed = EventFields /\ timed.type = e.type /\ timed.details = e.details
      /\ timed.onPrimary = e.onPrimary /\ timed.busy = e.busy /\ timed.visibility = e.visibility
  BY <1>0 DEF WithTimes, EventFields
<1>10. /\ timed.allDay \in BOOLEAN /\ timed.start \in Int /\ timed.end \in Int
       /\ timed.allDay \/ timed.zone \in DOMAIN Zones
       /\ OnCalendar(timed.allDay, timed.start) /\ timed.lines = e.lines
  BY <1>0, TimesAreSound
<1>2. /\ after.busy = IF d.busy = "" \/ d.busy = (IF timed.busy = "" THEN "opaque" ELSE timed.busy)
                      THEN timed.busy ELSE d.busy
      /\ after.visibility =
           IF \/ d.visibility = ""
              \/ d.visibility = (IF timed.visibility = "" THEN "default" ELSE timed.visibility)
           THEN timed.visibility ELSE d.visibility
      /\ DOMAIN after = EventFields /\ after.type = timed.type /\ after.details = timed.details
      /\ after.onPrimary = timed.onPrimary /\ after.allDay = timed.allDay
      /\ after.start = timed.start /\ after.end = timed.end /\ after.zone = timed.zone
      /\ after.lines = (IF d.recurs THEN d.lines ELSE timed.lines)
  <2> HIDE DEF timed
  <2>1. after = [timed EXCEPT
          !.lines = IF d.recurs THEN d.lines ELSE @,
          !.busy = IF d.busy = "" \/ d.busy = (IF @ = "" THEN "opaque" ELSE @) THEN @ ELSE d.busy,
          !.visibility = IF \/ d.visibility = ""
                            \/ d.visibility = (IF @ = "" THEN "default" ELSE @)
                         THEN @ ELSE d.visibility]
    BY DEF Patched, timed
  <2> HIDE DEF after
  <2> QED BY <1>1, <2>1 DEF EventFields
<1>11. SoundEvent(after)
  <2>1. e.lines \in Seq(WrittenLines) /\ d.lines \in Seq(WrittenLines)
    BY DEF SoundEvent, SoundDraft
  <2> HIDE DEF after, timed
  <2> QED BY <1>2, <1>10, <2>1 DEF SoundEvent
<1>3. ~StatusPatchRefused(e, after) /\ d.visibility \in Visibilities
  BY DEF PatchRefused
<1> HIDE DEF after, timed
<1>4. /\ after.type = e.type /\ after.details = e.details /\ after.onPrimary = e.onPrimary
      /\ after.busy \in {e.busy} \union (BusyWords \ {""})
      /\ after.visibility \in {e.visibility} \union (Visibilities \ {""})
  BY <1>0, <1>1, <1>2, <1>3
<1>5. e.type \in StatusTypes => e.onPrimary /\ e.details /\ ~ShapeRefused(e)
  BY DEF GoogleRefuses, ShapeRefused
<1>6. e.type \in StatusTypes => ~ShapeRefused(after)
  BY <1>3, <1>5 DEF StatusPatchRefused
<1>7. CASE e.type \in Away
  <2>1. e.type # Working /\ e.type \in StatusTypes
    BY <1>7 DEF Away, Working, StatusTypes
  <2> QED BY <1>2, <1>4, <1>5, <1>6, <1>7, <1>11, <2>1 DEF GoogleRefuses, ShapeRefused, after
<1>8. CASE e.type = Working
  <2>1. e.type \notin Away /\ e.type \in StatusTypes
    BY <1>8 DEF Away, Working, StatusTypes
  <2>2. e.visibility = "public" /\ e.busy = "transparent"
    BY <1>8, <2>1 DEF GoogleRefuses
  <2>3. after.visibility = "public" /\ after.busy = "transparent"
        /\ (after.allDay => after.end = after.start + 1)
    BY <1>4, <1>6, <1>8, <2>1, <2>2 DEF ShapeRefused, BusyWords, Visibilities
  <2> QED BY <1>2, <1>4, <1>5, <1>8, <1>11, <2>1, <2>3 DEF GoogleRefuses, after
<1>9. CASE e.type \notin StatusTypes
  BY <1>2, <1>4, <1>9, <1>11 DEF GoogleRefuses, after
<1> QED BY <1>7, <1>8, <1>9 DEF StatusTypes

\* An answer keeps the invariant when the event it is about keeps it.
LEMMA AnsweringKeeps ==
    ASSUME StatusInv, NEW refused \in BOOLEAN, NEW e, NEW warned, Answering(refused, e, warned),
           ~refused => ~GoogleRefuses(e) /\ SoundEvent(e)
    PROVE  StatusInv'
<1>1. CASE refused
  <2>1. answer'.how = "refused" /\ event' = event
    BY <1>1 DEF Answering, Says
  <2>2. GoogleTakesIt' /\ TellsOfTheEvent'
    BY <2>1 DEF GoogleTakesIt, TellsOfTheEvent
  <2>3. StandsAtGoogle'
    BY <2>1 DEF StatusInv, StandsAtGoogle
  <2> QED BY <2>2, <2>3 DEF StatusInv
<1>2. CASE ~refused
  <2>0. ~GoogleRefuses(e) /\ SoundEvent(e)
    BY <1>2
  <2>1. answer'.how = "written" /\ event' = e
    BY <1>2, <2>0 DEF Answering, Says
  <2>2. GoogleTakesIt' /\ TellsOfTheEvent'
    BY <2>1 DEF GoogleTakesIt, TellsOfTheEvent
  <2>3. StandsAtGoogle'
    BY <2>0, <2>1 DEF StandsAtGoogle
  <2> QED BY <2>2, <2>3 DEF StatusInv
<1> QED BY <1>1, <1>2

\* Every step keeps the invariant.
LEMMA StatusStep ==
    ASSUME StatusInv, [StatusNext]_statusVars
    PROVE  StatusInv'
<1>1. CASE Create
  <2>1. PICK c \in Creates :
          Answering(InsertRefused(c.status, c.draft), Inserted(c.status, c.draft), FALSE)
    BY <1>1 DEF Create
  <2>2. ~InsertRefused(c.status, c.draft) =>
          /\ ~GoogleRefuses(Inserted(c.status, c.draft))
          /\ SoundEvent(Inserted(c.status, c.draft))
    BY InsertIsTaken, StatusAssumption DEF StatusAssumption
  <2>3. InsertRefused(c.status, c.draft) \in BOOLEAN
    BY DEF InsertRefused
  <2> QED BY <2>1, <2>2, <2>3, AnsweringKeeps
<1>2. CASE Change
  <2>1. PICK d \in Drafts : Update(d, Patched(event, d))
    BY <1>2 DEF Change
  <2> DEFINE after == Patched(event, d)
  <2>2. Answering(PatchRefused(event, d, after), after, DeclinesMore(event, after))
    BY <2>1 DEF Update
  <2>3. ~PatchRefused(event, d, after) => ~GoogleRefuses(after) /\ SoundEvent(after)
    <3>1. SoundDraft(d)
      BY StatusAssumption DEF StatusAssumption
    <3>2. SoundEvent(event) /\ ~GoogleRefuses(event)
      BY <1>2 DEF Change, StatusInv, StandsAtGoogle
    <3> QED BY <3>1, <3>2, PatchIsTaken
  <2> HIDE DEF after
  <2>4. PatchRefused(event, d, after) \in BOOLEAN
    BY DEF PatchRefused
  <2> QED BY <2>2, <2>3, <2>4, AnsweringKeeps
<1>3. CASE Unscoped
  <2>1. answer'.how = "no scope" /\ event' = event /\ event.there
        /\ answer'.reach = ReachTold(event, 0)
    BY <1>3 DEF Unscoped
  <2>3. GoogleTakesIt' /\ StandsAtGoogle'
    BY <2>1 DEF StatusInv, StandsAtGoogle, GoogleTakesIt
  <2>4. TellsOfTheEvent'
    BY <2>1 DEF TellsOfTheEvent
  <2> QED BY <2>3, <2>4 DEF StatusInv
<1>4. CASE UNCHANGED statusVars
  <2>1. event' = event /\ answer' = answer
    BY <1>4 DEF statusVars
  <2> QED BY <2>1 DEF StatusInv, StandsAtGoogle, GoogleTakesIt, TellsOfTheEvent
<1> QED BY <1>1, <1>2, <1>3, <1>4 DEF StatusNext

\* The invariant holds at the start.
LEMMA StatusStart == StatusInit => StatusInv
<1> SUFFICES ASSUME StatusInit PROVE StatusInv
  OBVIOUS
<1>1. GoogleTakesIt /\ TellsOfTheEvent
  BY DEF StatusInit, Says, GoogleTakesIt, TellsOfTheEvent
<1>2. CASE event = NoEvent
  BY <1>1, <1>2 DEF NoEvent, StatusInv, StandsAtGoogle
<1>3. CASE event \in {e \in Elsewhere : ~GoogleRefuses(e)}
  BY <1>1, <1>3, StatusAssumption DEF StatusInv, StandsAtGoogle, StatusAssumption
<1> QED BY <1>2, <1>3 DEF StatusInit

\* In every state the event that stands is one Google takes and the model's
\* calendar has, and the last refusal without a scope was about it.
THEOREM StatusSoundness == StatusSpec => []StatusInv
BY StatusStart, StatusStep, PTL DEF StatusSpec

\* No call of this server is refused by Google for the shape of a status
\* event: what it makes and changes keeps the fields and times the guide
\* requires (status.go apply, checkStatusShape and statusPatch).
THEOREM StatusIsTaken == StatusSpec => []GoogleTakesIt
<1>1. StatusInv => GoogleTakesIt
  BY DEF StatusInv
<1> QED BY <1>1, StatusSoundness, PTL

\* Whatever calendar, clocks and calls: as far as the walk gets, a series
\* that is described expands to the first occurrences RFC 5545 gives its
\* rule, in order, with the dates added and without those taken off, says
\* truncated just when there are more, and notes the readings that are not
\* one instant's (recur.go Parse, expand.go walk, ExpandDates, ExpandTimes).
THEOREM ExpandsByTheRule == StatusSpec => []ExpansionIsTheRule
<1>1. StatusInv => ExpansionIsTheRule
  <2> SUFFICES ASSUME StatusInv, event.there, Described(event)
               PROVE  ExpandsAsRule(event, Parse(event.lines))
    BY DEF ExpansionIsTheRule
  <2>1. SoundEvent(event)
    BY DEF StatusInv, StandsAtGoogle
  <2> QED BY <2>1, ExpandsAsItSays
<1> QED BY <1>1, StatusSoundness, PTL

\* The refusal that asks for a scope counts a described series right.
THEOREM TellsTheTruth == StatusSpec => []ReachIsTrue
<1>1. StatusInv => ReachIsTrue
  <2> SUFFICES ASSUME StatusInv, answer.how = "no scope", Described(event)
               PROVE  ReachesAll(event, Parse(event.lines))
    BY DEF ReachIsTrue
  <2>1. SoundEvent(event) /\ answer.reach = ReachTold(event, 0)
    BY DEF StatusInv, StandsAtGoogle, TellsOfTheEvent
  <2>2. TellsOf(ReachTold(event, 0), event, Parse(event.lines))
    BY <2>1, TellsTheReach
  <2> QED BY <2>1, <2>2 DEF TellsOf, ReachesAll, ReachCounts
<1> QED BY <1>1, StatusSoundness, PTL

\* A change after which an event that declines every meeting does so at an
\* hour it did not before is never answered without the warning, when the
\* series are ones that are compared.
WarnsOfWhatIsCompared ==
    [][event.there /\ event'.there /\ event' # event /\ DeclinesAll(event')
         /\ Comparing(event, event') =>
            \/ answer'.warned
            \/ DeclinesAll(event) /\ Covered(event') \subseteq Covered(event)]_statusVars

\* update_event warns whenever the change makes the event decline at an hour
\* it did not (DeclinesMore, spans and within of status.go), for every
\* calendar and every rule: of single events, of series of no more
\* occurrences than an expansion lists, and of any series that keeps its
\* starts.
THEOREM WarnsWhereItCompares == StatusSpec => WarnsOfWhatIsCompared
<1> DEFINE Warned ==
        event.there /\ event'.there /\ event' # event /\ DeclinesAll(event')
            /\ Comparing(event, event') =>
               \/ answer'.warned
               \/ DeclinesAll(event) /\ Covered(event') \subseteq Covered(event)
<1>1. StatusInv /\ StatusInv' /\ [StatusNext]_statusVars => Warned
  <2> SUFFICES ASSUME StatusInv, StatusInv', [StatusNext]_statusVars, event.there, event'.there,
                      event' # event, DeclinesAll(event'), Comparing(event, event'),
                      ~answer'.warned
               PROVE  DeclinesAll(event) /\ Covered(event') \subseteq Covered(event)
    OBVIOUS
  <2>1. /\ SoundEvent(event) /\ ~GoogleRefuses(event)
        /\ SoundEvent(event') /\ ~GoogleRefuses(event')
    BY DEF StatusInv, StandsAtGoogle
  <2>2. Change
    BY DEF StatusNext, Create, Unscoped, statusVars
  <2>3. PICK d \in Drafts : Update(d, Patched(event, d))
    BY <2>2 DEF Change
  <2>4. event' = Patched(event, d) /\ answer' = Says("written", DeclinesMore(event, Patched(event, d)))
    BY <2>3 DEF Update, Answering
  <2>5. answer'.warned = DeclinesMore(event, event')
    BY <2>4 DEF Says
  <2>6. ~DeclinesMore(event, event')
    BY ONLY <2>5, ~answer'.warned, Zenon
  <2>7. DeclinesAll(event)
    BY <2>6 DEF DeclinesMore
  <2> QED BY <2>1, <2>6, <2>7, CoversNoMore
<1>2. StatusInv /\ StatusInv' /\ [StatusNext]_statusVars => [Warned]_statusVars
  BY <1>1
<1> QED BY <1>2, StatusSoundness, PTL DEF StatusSpec, WarnsOfWhatIsCompared, Warned

=============================================================================
