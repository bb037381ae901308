--------------------------- MODULE ReadingProofs ---------------------------
(***************************************************************************)
(* Proofs about the reads that are put together from several answers.      *)
(*                                                                         *)
(* PagedRead, for any calendars, rows, queries, budgets and bounds: a walk *)
(* along the cursor is complete and repeats nothing, and a call drains     *)
(* less than twice its share.                                              *)
(*                                                                         *)
(* Availability, for any calendars, groups, busy times, batches and        *)
(* bounds: what is reported known was read and is busy when Google says    *)
(* so, what Google can answer for is known once it was asked again, and    *)
(* the gaps shown are the free time of the window.                         *)
(***************************************************************************)
EXTENDS PagedRead, Availability, FiniteSetTheorems, SequenceTheorems, WellFoundedInduction, TLAPS

-----------------------------------------------------------------------------
(* Helpers.                                                                *)

\* A page is a finite set of rows.
LEMMA PageFinite ==
    ASSUME NEW q, NEW rows, NEW from, NEW to
    PROVE  /\ SentBetween(q, rows, from, to) \subseteq Rows
           /\ Cardinality(SentBetween(q, rows, from, to)) \in Nat
<1>1. IsFiniteSet(Rows) BY PagedReadAssumption, FS_Interval DEF Rows
<1>2. SentBetween(q, rows, from, to) \subseteq Rows BY DEF SentBetween
<1> QED BY <1>1, <1>2, FS_Subset, FS_CardinalityType

\* A part of the budget is a whole number of events.
LEMMA PartType ==
    ASSUME NEW b \in Nat \ {0}, NEW cs \in SUBSET Cals, cs # {}
    PROVE  b \div Cardinality(cs) \in Nat
<1>1. IsFiniteSet(cs) BY PagedReadAssumption, FS_Subset
<1>2. Cardinality(cs) \in Nat \ {0}
    BY <1>1, FS_CardinalityType, FS_EmptySet
<1> QED BY <1>2

\* A share of the budget is at least one event.
LEMMA ShareType ==
    ASSUME TypeOK, call.cals # {}
    PROVE  Share \in Nat \ {0}
<1>1. call.budget \in Nat \ {0} /\ call.cals \in SUBSET Cals BY DEF TypeOK
<1>2. call.budget \div Cardinality(call.cals) \in Nat BY <1>1, PartType
<1> QED BY <1>2 DEF Share

\* What is handed over was kept, whichever tool read it.
LEMMA HandedKept ==
    ASSUME NEW c
    PROVE  /\ Handed(c) \subseteq reader[c].kept
           /\ call.query.op = "events" => Handed(c) = reader[c].kept
<1>1. First(reader[c].kept, call.budget) \subseteq reader[c].kept BY DEF First
<1> QED BY <1>1 DEF Handed

-----------------------------------------------------------------------------
(* Type correctness.                                                       *)

\* The constants no read uses are of their types.
LEMMA ConstantsTyped ==
    /\ Idle \in Readers
    /\ NoCall \in [pc: {"idle", "reading"}, cals: SUBSET Cals,
                   budget: Nat \ {0}, query: QuerySpace]
    /\ NoCall.cals = {}
BY PagedReadAssumption DEF Idle, Readers, NoCall, QuerySpace, Ops

\* The initial state has its types.
LEMMA TypeInit == Init => TypeOK
<1> SUFFICES ASSUME Init PROVE TypeOK OBVIOUS
<1>1. stock \in [Cals -> [Rows -> Statuses]]
    BY PagedReadAssumption DEF Init
<1>2. origin.query \in QuerySpace /\ origin \in [query: QuerySpace, cals: SUBSET Cals]
    BY PagedReadAssumption DEF Init
<1>3. cursor \in [first: BOOLEAN, query: QuerySpace, cals: SUBSET Cals,
                  at: [Cals -> 0 .. LastRow]]
    BY <1>2, PagedReadAssumption DEF Init
<1>4. stood \in [Cals -> SUBSET Rows] BY DEF Init, WantedOn
<1>5. \A c \in Cals : reader[c].pc # "idle" <=> c \in call.cals
    BY DEF Init, NoCall, Idle
<1>6. reader \in [Cals -> Readers] /\ seen \in [Cals -> SUBSET Rows]
    BY ConstantsTyped DEF Init
<1>7. call \in [pc: {"idle", "reading"}, cals: SUBSET Cals,
               budget: Nat \ {0}, query: QuerySpace]
    BY ConstantsTyped DEF Init
<1>8. twice \in BOOLEAN /\ narrowed \in BOOLEAN BY DEF Init
<1>9. edits \in 0 .. MaxEdits /\ fails \in 0 .. MaxFails
    BY PagedReadAssumption DEF Init
<1> QED BY <1>1, <1>2, <1>3, <1>4, <1>5, <1>6, <1>7, <1>8, <1>9 DEF TypeOK

\* One page keeps the types.
LEMMA TypePage ==
    ASSUME TypeOK, NEW c \in Cals, ReadPage(c)
    PROVE  TypeOK'
<1>1. PICK to \in reader[c].at .. LastRow, more \in BOOLEAN :
        LET sent == SentBetween(call.query, stock[c], reader[c].at, to)
            kept == reader[c].kept \union
                        {r \in sent : Wanted(call.query, stock[c][r])}
            drained == reader[c].drained + Cardinality(sent)
        IN reader' = [reader EXCEPT ![c] =
            [pc |-> IF Stops(more, drained, kept) THEN "done" ELSE "reading",
             at |-> IF more THEN to ELSE LastRow,
             drained |-> drained, kept |-> kept, more |-> more]]
    BY DEF ReadPage
<1> DEFINE sent == SentBetween(call.query, stock[c], reader[c].at, to)
           kept == reader[c].kept \union
                       {r \in sent : Wanted(call.query, stock[c][r])}
           drained == reader[c].drained + Cardinality(sent)
           new == [pc |-> IF Stops(more, drained, kept) THEN "done" ELSE "reading",
                   at |-> IF more THEN to ELSE LastRow,
                   drained |-> drained, kept |-> kept, more |-> more]
<1>2. reader[c] \in Readers BY DEF TypeOK
<1>3. reader[c].at \in 0 .. LastRow /\ reader[c].drained \in Nat
      /\ reader[c].kept \subseteq Rows
    BY <1>2 DEF Readers
<1>4. sent \subseteq Rows /\ Cardinality(sent) \in Nat BY PageFinite
<1>5. to \in 0 .. LastRow /\ LastRow \in 0 .. LastRow BY <1>3, PagedReadAssumption
<1>6. drained \in Nat /\ kept \subseteq Rows
    <2> HIDE DEF sent
    <2> QED BY <1>3, <1>4
<1>7. new \in Readers
    <2> HIDE DEF drained, kept
    <2> QED BY <1>5, <1>6 DEF Readers
<1>8. reader' = [reader EXCEPT ![c] = new] BY <1>1
<1>9. new.pc # "idle" /\ reader[c].pc # "idle" BY DEF ReadPage
<1> HIDE DEF new
<1>10. reader' \in [Cals -> Readers] BY <1>7, <1>8 DEF TypeOK
<1>11. \A d \in Cals : reader'[d].pc # "idle" <=> d \in call.cals
    BY <1>8, <1>9 DEF TypeOK
<1> QED BY <1>10, <1>11 DEF ReadPage, TypeOK

\* Every step keeps the types.
LEMMA TypeStep == TypeOK /\ [Next]_vars => TypeOK'
<1> SUFFICES ASSUME TypeOK, [Next]_vars PROVE TypeOK' OBVIOUS
<1>1. ASSUME NEW q \in Queries, NEW cs \in SUBSET Cals, NEW b \in Budgets,
             Ask(q, cs, b)
      PROVE  TypeOK'
    <2>1. Still(cs) \subseteq Cals BY DEF Still
    <2>2. \A c \in Cals : From(c) \in 0 .. LastRow
        BY PagedReadAssumption DEF From, TypeOK
    <2>3. \A c \in Cals :
            [Idle EXCEPT !.pc = "reading", !.at = From(c)] \in Readers
        BY <2>2 DEF Idle, Readers
    <2>4. reader' \in [Cals -> Readers]
        BY <1>1, <2>3, ConstantsTyped DEF Ask
    <2>5. call'.cals = Still(cs) BY <1>1 DEF Ask
    <2>6. \A c \in Cals : reader'[c].pc # "idle" <=> c \in call'.cals
        BY <1>1, <2>5 DEF Ask, Idle
    <2>7. call' \in [pc: {"idle", "reading"}, cals: SUBSET Cals,
                     budget: Nat \ {0}, query: QuerySpace]
        BY <1>1, <2>1, PagedReadAssumption DEF Ask
    <2>8. narrowed' \in BOOLEAN BY <1>1 DEF Ask, TypeOK
    <2> QED BY <1>1, <2>4, <2>6, <2>7, <2>8 DEF Ask, TypeOK
<1>2. ASSUME NEW c \in Cals, ReadPage(c) PROVE TypeOK' BY <1>2, TypePage
<1>3. ASSUME NEW c \in Cals, ReadFails(c) PROVE TypeOK'
    <2>1. fails' \in 0 .. MaxFails BY <1>3, PagedReadAssumption DEF ReadFails, TypeOK
    <2>2. reader' \in [Cals -> Readers] BY <1>3, ConstantsTyped DEF ReadFails
    <2>3. \A d \in Cals : reader'[d].pc # "idle" <=> d \in call'.cals
        BY <1>3 DEF ReadFails, NoCall, Idle
    <2> QED BY <1>3, <2>1, <2>2, <2>3, ConstantsTyped DEF ReadFails, TypeOK
<1>4. ASSUME Return PROVE TypeOK'
    <2>1. \A c \in Cals : Handed(c) \subseteq Rows /\ reader[c].at \in 0 .. LastRow
        BY HandedKept DEF TypeOK, Readers
    <2>2. seen' \in [Cals -> SUBSET Rows] BY <1>4, <2>1 DEF Return, TypeOK
    <2>3. cursor' \in [first: BOOLEAN, query: QuerySpace, cals: SUBSET Cals,
                       at: [Cals -> 0 .. LastRow]]
        BY <1>4, <2>1, PagedReadAssumption DEF Return, TypeOK
    <2>4. reader' \in [Cals -> Readers] BY <1>4, ConstantsTyped DEF Return
    <2>5. \A d \in Cals : reader'[d].pc # "idle" <=> d \in call'.cals
        BY <1>4 DEF Return, NoCall, Idle
    <2>6. twice' \in BOOLEAN BY <1>4 DEF Return, TypeOK
    <2> QED BY <1>4, <2>2, <2>3, <2>4, <2>5, <2>6, ConstantsTyped
            DEF Return, TypeOK
<1>5. ASSUME NEW c \in Cals, NEW r \in Rows, NEW s \in Statuses, Edit(c, r, s)
      PROVE  TypeOK'
    <2>1. stock' \in [Cals -> [Rows -> Statuses]] BY <1>5 DEF Edit, TypeOK
    <2>2. stood' \in [Cals -> SUBSET Rows] BY <1>5 DEF Edit, TypeOK
    <2>3. edits' \in 0 .. MaxEdits BY <1>5, PagedReadAssumption DEF Edit, TypeOK
    <2> QED BY <1>5, <2>1, <2>2, <2>3 DEF Edit, TypeOK
<1>6. CASE UNCHANGED vars BY <1>6 DEF vars, TypeOK
<1> QED BY <1>1, <1>2, <1>3, <1>4, <1>5, <1>6 DEF Next

\* TypeOK always holds: the cursors, shares and readers of every walk are
\* well formed, whatever the calendars, budgets and pages (ListEvents).
THEOREM TypeCorrect == Spec => []TypeOK
BY TypeInit, TypeStep, PTL DEF Spec

-----------------------------------------------------------------------------
(* The walk: what the cursor and the goroutines account for.               *)

\* The rows of a calendar that stood throughout, between two positions.
StoodBetween(c, from, to) == {r \in stood[c] : from < r /\ r <= to}

\* The cursor and the read under way belong to the walk.
SameWalk ==
    /\ cursor.query = origin.query
    /\ cursor.cals \subseteq origin.cals
    /\ cursor.first => cursor.cals = {} /\ ~narrowed
    /\ call.pc = "reading" =>
          /\ call.query = origin.query
          /\ cursor.first => call.cals = origin.cals
          /\ ~cursor.first => call.cals \subseteq cursor.cals
          /\ ~cursor.first /\ ~narrowed => call.cals = cursor.cals
    /\ call.pc = "idle" => call.cals = {}

\* What stood throughout is on the calendar, and Google would send it.
StoodIsThere == \A c \in Cals : stood[c] \subseteq WantedOn(origin.query, stock[c])

\* A goroutine has kept the rows between where it began and where it is:
\* all of them that stood, and none from before.
ReaderAccounts ==
    \A c \in call.cals :
        /\ From(c) <= reader[c].at
        /\ \A r \in reader[c].kept : From(c) < r /\ r <= reader[c].at
        /\ StoodBetween(c, From(c), reader[c].at) \subseteq reader[c].kept
        /\ reader[c].pc = "done" /\ ~reader[c].more => reader[c].at = LastRow

\* The caller was handed nothing from beyond the token.
SeenBefore ==
    \A c \in Cals :
        /\ cursor.first => seen[c] = {}
        /\ c \in cursor.cals => \A r \in seen[c] : r <= cursor.at[c]

\* And everything up to it, or all there was where no token is left.
CursorAccounts ==
    ~cursor.first /\ ~narrowed /\ origin.query.op = "events" =>
        \A c \in origin.cals :
            IF c \in cursor.cals
            THEN StoodBetween(c, 0, cursor.at[c]) \subseteq seen[c]
            ELSE stood[c] \subseteq seen[c]

WalkInv == /\ SameWalk /\ StoodIsThere /\ ReaderAccounts
           /\ SeenBefore /\ CursorAccounts /\ NoRowTwice

\* The initial states account for everything: nothing was read yet.
LEMMA WalkInit == Init => WalkInv
<1> SUFFICES ASSUME Init PROVE WalkInv OBVIOUS
<1>1. call.pc = "idle" /\ call.cals = {} BY DEF Init, NoCall
<1>2. cursor.first /\ cursor.query = origin.query /\ cursor.cals = {}
    BY DEF Init
<1>3. SameWalk BY <1>1, <1>2 DEF SameWalk, Init
<1>4. StoodIsThere BY DEF StoodIsThere, Init
<1>5. ReaderAccounts BY <1>1 DEF ReaderAccounts
<1>6. SeenBefore BY <1>2 DEF SeenBefore, Init
<1>7. CursorAccounts BY <1>2 DEF CursorAccounts
<1> QED BY <1>3, <1>4, <1>5, <1>6, <1>7 DEF WalkInv, NoRowTwice, Init

\* A call begins where the cursor says, with the calendars it names.
LEMMA WalkAsk ==
    ASSUME TypeOK, WalkInv,
           NEW q \in Queries, NEW cs \in SUBSET Cals, NEW b \in Budgets,
           Ask(q, cs, b)
    PROVE  WalkInv'
<1>1. call'.pc = "reading" /\ call'.cals = Still(cs) /\ call'.query = q
    BY DEF Ask
<1>2. UNCHANGED <<stock, origin, cursor, seen, twice, stood>> BY DEF Ask
<1>3. narrowed' = (narrowed \/ (~cursor.first /\ ~(cursor.cals \subseteq cs)))
    BY DEF Ask
<1>4. SameWalk'
    BY <1>1, <1>2, <1>3 DEF Ask, Accepts, Still, WalkInv, SameWalk
<1>5. StoodIsThere' BY <1>2 DEF WalkInv, StoodIsThere
<1>6. ReaderAccounts'
    <2>1. ASSUME NEW c \in call'.cals
          PROVE  /\ From(c)' = reader'[c].at /\ reader'[c].kept = {}
                 /\ reader'[c].pc = "reading" /\ From(c)' \in Nat
                 /\ stood'[c] \subseteq Nat
        <3>1. c \in Still(cs) /\ c \in Cals BY <1>1 DEF Still
        <3>2. reader'[c] = [Idle EXCEPT !.pc = "reading", !.at = From(c)]
            BY <3>1 DEF Ask
        <3>3. From(c)' = From(c) BY <1>2 DEF From
        <3>4. From(c) \in Nat BY <3>1 DEF From, TypeOK
        <3>5. stood'[c] \subseteq Nat
            BY <1>2, <3>1, PagedReadAssumption DEF TypeOK, Rows
        <3> QED BY <3>2, <3>3, <3>4, <3>5 DEF Idle
    <2>2. ASSUME NEW c \in call'.cals
          PROVE  StoodBetween(c, From(c), reader[c].at)' = {}
        BY <2>1 DEF StoodBetween
    <2> QED BY <2>1, <2>2 DEF ReaderAccounts
<1>7. SeenBefore' BY <1>2 DEF WalkInv, SeenBefore
<1>8. CursorAccounts'
    BY <1>2, <1>3 DEF WalkInv, CursorAccounts, StoodBetween
<1> QED BY <1>2, <1>4, <1>5, <1>6, <1>7, <1>8 DEF WalkInv, NoRowTwice

\* A page is kept whole: what stood on it was sent, and what was sent and
\* wanted is kept.
LEMMA WalkPage ==
    ASSUME TypeOK, WalkInv, NEW c \in Cals, ReadPage(c)
    PROVE  WalkInv'
<1>1. PICK to \in reader[c].at .. LastRow, more \in BOOLEAN :
        LET sent == SentBetween(call.query, stock[c], reader[c].at, to)
            kept == reader[c].kept \union
                        {r \in sent : Wanted(call.query, stock[c][r])}
            drained == reader[c].drained + Cardinality(sent)
        IN /\ SentBetween(call.query, stock[c], to, LastRow) # {} => more
           /\ reader' = [reader EXCEPT ![c] =
                [pc |-> IF Stops(more, drained, kept) THEN "done" ELSE "reading",
                 at |-> IF more THEN to ELSE LastRow,
                 drained |-> drained, kept |-> kept, more |-> more]]
    BY DEF ReadPage
<1> DEFINE sent == SentBetween(call.query, stock[c], reader[c].at, to)
           kept == reader[c].kept \union
                       {r \in sent : Wanted(call.query, stock[c][r])}
<1>2. UNCHANGED <<stock, origin, cursor, call, seen, twice, stood, narrowed>>
    BY DEF ReadPage
<1>3. reader[c] \in Readers /\ reader[c].at \in 0 .. LastRow
    BY DEF TypeOK, Readers
<1>4. c \in call.cals /\ call.pc = "reading" BY DEF ReadPage, TypeOK
<1>5. /\ reader'[c].at = (IF more THEN to ELSE LastRow)
      /\ reader'[c].kept = kept /\ reader'[c].more = more
      /\ \A d \in Cals \ {c} : reader'[d] = reader[d]
    BY <1>1 DEF TypeOK
<1>6. to \in Nat /\ LastRow \in Nat /\ reader[c].at \in Nat
      /\ reader[c].at <= to /\ to <= LastRow
    BY <1>3, PagedReadAssumption
<1>7. call.query = origin.query BY <1>4 DEF WalkInv, SameWalk
<1>8. \A r \in stood[c] : r \in Rows /\ r \in Nat /\ r <= LastRow
                           /\ Wanted(call.query, stock[c][r])
    BY <1>7, PagedReadAssumption
       DEF WalkInv, StoodIsThere, WantedOn, Rows
<1>9. \A r \in stood[c] : reader[c].at < r /\ r <= to => r \in kept
    BY <1>8 DEF SentBetween, Sent
<1>10. ~more => \A r \in stood[c] : r <= to
    <2> SUFFICES ASSUME ~more, NEW r \in stood[c], ~(r <= to) PROVE FALSE
        OBVIOUS
    <2>1. r \in SentBetween(call.query, stock[c], to, LastRow)
        BY <1>6, <1>8 DEF SentBetween, Sent
    <2> QED BY <1>1, <2>1
<1>11. From(c)' = From(c) /\ From(c) \in Nat
    BY <1>2 DEF From, TypeOK
<1>12. /\ From(c) <= reader[c].at
       /\ \A r \in reader[c].kept : From(c) < r /\ r <= reader[c].at
       /\ \A r \in stood[c] : From(c) < r /\ r <= reader[c].at
                                => r \in reader[c].kept
    BY <1>4 DEF WalkInv, ReaderAccounts, StoodBetween
<1>13. \A r \in kept : r \in reader[c].kept \/
            (r \in Nat /\ reader[c].at < r /\ r <= to)
    BY PagedReadAssumption DEF SentBetween, Rows
<1>14. reader[c].kept \subseteq Nat
    BY <1>3, PagedReadAssumption DEF Readers, Rows
<1> HIDE DEF kept, sent
<1>15. reader[c].kept \subseteq kept BY DEF kept
<1>16. ReaderAccounts'
    <2> SUFFICES ASSUME NEW d \in call'.cals
                 PROVE  /\ From(d)' <= reader'[d].at
                        /\ \A r \in reader'[d].kept :
                                From(d)' < r /\ r <= reader'[d].at
                        /\ StoodBetween(d, From(d), reader[d].at)'
                                \subseteq reader'[d].kept
                        /\ reader'[d].pc = "done" /\ ~reader'[d].more
                                => reader'[d].at = LastRow
        BY DEF ReaderAccounts
    <2>1. CASE d = c
        <3>1. From(c) <= reader'[c].at BY <1>5, <1>6, <1>11, <1>12
        <3>2. \A r \in kept : From(c) < r /\ r <= reader'[c].at
            BY <1>5, <1>6, <1>11, <1>12, <1>13, <1>14
        <3>3. \A r \in stood[c] : From(c) < r /\ r <= reader'[c].at
                                    => r \in kept
            <4> SUFFICES ASSUME NEW r \in stood[c],
                                From(c) < r, r <= reader'[c].at
                         PROVE  r \in kept
                OBVIOUS
            <4>1. r <= to BY <1>5, <1>10
            <4>2. CASE reader[c].at < r BY <1>9, <4>1, <4>2
            <4>3. CASE r <= reader[c].at BY <1>12, <1>15, <4>3
            <4> QED BY <1>6, <1>8, <4>2, <4>3
        <3> QED BY <1>2, <1>5, <1>11, <2>1, <3>1, <3>2, <3>3 DEF StoodBetween
    <2>2. CASE d # c
        <3>1. d \in Cals /\ d \in call.cals BY <1>2 DEF TypeOK
        <3>2. reader'[d] = reader[d] BY <1>5, <2>2, <3>1
        <3>3. From(d)' = From(d) BY <1>2 DEF From
        <3> QED BY <1>2, <3>1, <3>2, <3>3 DEF WalkInv, ReaderAccounts, StoodBetween
    <2> QED BY <2>1, <2>2
<1>17. SameWalk' BY <1>2 DEF WalkInv, SameWalk
<1>18. StoodIsThere' /\ SeenBefore' /\ CursorAccounts' /\ NoRowTwice'
    BY <1>2 DEF WalkInv, StoodIsThere, SeenBefore, CursorAccounts,
                StoodBetween, NoRowTwice
<1> QED BY <1>16, <1>17, <1>18 DEF WalkInv

\* A call that fails leaves the cursor, and what it accounts for, alone.
LEMMA WalkFails ==
    ASSUME TypeOK, WalkInv, NEW c \in Cals, ReadFails(c)
    PROVE  WalkInv'
<1>1. UNCHANGED <<stock, origin, cursor, seen, twice, stood, narrowed>>
    BY DEF ReadFails
<1>2. call'.pc = "idle" /\ call'.cals = {} BY DEF ReadFails, NoCall
<1>3. SameWalk' BY <1>1, <1>2 DEF WalkInv, SameWalk
<1>4. ReaderAccounts' BY <1>2 DEF ReaderAccounts
<1> QED BY <1>1, <1>3, <1>4
        DEF WalkInv, StoodIsThere, SeenBefore, CursorAccounts, StoodBetween,
            NoRowTwice

\* The result hands over what the goroutines kept, and the next cursor
\* names the calendars that have more.
LEMMA WalkReturn ==
    ASSUME TypeOK, WalkInv, Return
    PROVE  WalkInv'
<1>1. UNCHANGED <<stock, origin, stood, narrowed>> BY DEF Return
<1>2. call'.pc = "idle" /\ call'.cals = {} BY DEF Return, NoCall
<1>3. call.pc = "reading" /\ call.cals \subseteq Cals
    BY DEF Return, TypeOK
<1>4. call.query = origin.query /\ call.cals \subseteq origin.cals
    BY <1>3 DEF WalkInv, SameWalk
<1> DEFINE more == {c \in call.cals : reader[c].more}
<1>5. /\ cursor'.first = FALSE /\ cursor'.query = call.query
      /\ cursor'.cals = more
      /\ \A c \in more : cursor'.at[c] = reader[c].at
    BY <1>3 DEF Return
<1>6. /\ \A c \in call.cals : seen'[c] = seen[c] \union Handed(c)
      /\ \A c \in Cals \ call.cals : seen'[c] = seen[c]
    BY <1>3 DEF Return
<1>7. ASSUME NEW c \in call.cals
      PROVE  /\ From(c) \in Nat /\ reader[c].at \in Nat
             /\ From(c) <= reader[c].at
             /\ seen[c] \subseteq Nat /\ stood[c] \subseteq Nat
             /\ \A r \in stood[c] : 0 < r /\ r <= LastRow
             /\ \A r \in seen[c] : r <= From(c)
             /\ \A r \in Handed(c) : r \in Nat /\ From(c) < r
                                      /\ r <= reader[c].at
             /\ StoodBetween(c, From(c), reader[c].at) \subseteq reader[c].kept
             /\ ~reader[c].more => reader[c].at = LastRow
    <2>1. c \in Cals BY <1>3
    <2>2. reader[c] \in Readers /\ seen[c] \subseteq Rows
          /\ stood[c] \subseteq Rows /\ cursor.at[c] \in 0 .. LastRow
        BY <2>1 DEF TypeOK
    <2>3. reader[c].kept \subseteq Rows /\ reader[c].at \in 0 .. LastRow
        BY <2>2 DEF Readers
    <2>4. reader[c].pc = "done" BY DEF Return
    <2>5. From(c) \in Nat BY <2>2 DEF From
    <2>6. \A r \in seen[c] : r <= From(c)
        BY <1>3, <2>1 DEF WalkInv, SameWalk, SeenBefore, From
    <2> QED BY <2>2, <2>3, <2>4, <2>5, <2>6, HandedKept, PagedReadAssumption
            DEF WalkInv, ReaderAccounts, Rows
<1>8. SameWalk' BY <1>1, <1>2, <1>4, <1>5 DEF WalkInv, SameWalk
<1>9. ReaderAccounts' BY <1>2 DEF ReaderAccounts
<1>10. SeenBefore'
    <2> SUFFICES ASSUME NEW c \in more, NEW r \in seen'[c]
                 PROVE  r <= cursor'.at[c]
        BY <1>5 DEF SeenBefore
    <2>1. r \in seen[c] \/ r \in Handed(c) BY <1>6
    <2>2. CASE r \in seen[c] BY <1>5, <1>7, <2>2
    <2>3. CASE r \in Handed(c) BY <1>5, <1>7, <2>3
    <2> QED BY <2>1, <2>2, <2>3
<1>11. NoRowTwice'
    <2>1. \A c \in call.cals : seen[c] \intersect Handed(c) = {} BY <1>7
    <2> QED BY <2>1 DEF Return, WalkInv, NoRowTwice
<1>12. CursorAccounts'
    <2> SUFFICES ASSUME ~narrowed, origin.query.op = "events",
                        NEW c \in origin.cals
                 PROVE  IF c \in more
                        THEN StoodBetween(c, 0, reader[c].at) \subseteq seen'[c]
                        ELSE stood[c] \subseteq seen'[c]
        BY <1>1, <1>5 DEF CursorAccounts, StoodBetween
    <2>1. CASE c \in call.cals
        <3>1. Handed(c) = reader[c].kept BY <1>4, HandedKept
        <3>2. \A r \in stood[c] : r <= From(c) => r \in seen[c]
            <4>1. CASE cursor.first BY <1>7, <2>1, <4>1 DEF From
            <4>2. CASE ~cursor.first
                <5>1. c \in cursor.cals
                    BY <1>3, <2>1, <4>2 DEF WalkInv, SameWalk
                <5> QED BY <1>7, <2>1, <4>2, <5>1
                        DEF WalkInv, CursorAccounts, StoodBetween, From
            <4> QED BY <4>1, <4>2
        <3>3. \A r \in stood[c] : r <= reader[c].at => r \in seen'[c]
            BY <1>6, <1>7, <2>1, <3>1, <3>2 DEF StoodBetween
        <3>4. CASE reader[c].more
            <4>1. c \in more BY <2>1, <3>4
            <4> QED BY <3>3, <4>1 DEF StoodBetween
        <3>5. CASE ~reader[c].more BY <1>7, <2>1, <3>3, <3>5
        <3> QED BY <3>4, <3>5
    <2>2. CASE c \notin call.cals
        <3>1. ~cursor.first /\ c \notin cursor.cals
            BY <1>3, <2>2 DEF WalkInv, SameWalk
        <3>2. stood[c] \subseteq seen[c] BY <3>1 DEF WalkInv, CursorAccounts
        <3>3. c \in Cals BY DEF TypeOK
        <3> QED BY <1>6, <2>2, <3>2, <3>3
    <2> QED BY <2>1, <2>2
<1> QED BY <1>1, <1>8, <1>9, <1>10, <1>11, <1>12 DEF WalkInv, StoodIsThere

\* Somebody's change only takes rows out of those that stood throughout.
LEMMA WalkEdit ==
    ASSUME TypeOK, WalkInv,
           NEW c \in Cals, NEW r \in Rows, NEW s \in Statuses, Edit(c, r, s)
    PROVE  WalkInv'
<1>1. UNCHANGED <<origin, cursor, call, reader, seen, twice, narrowed>>
    BY DEF Edit
<1>2. \A d \in Cals : stood'[d] \subseteq stood[d] BY DEF Edit, TypeOK
<1>3. SameWalk' BY <1>1 DEF WalkInv, SameWalk
<1>4. StoodIsThere'
    <2> SUFFICES ASSUME NEW d \in Cals, NEW x \in stood'[d]
                 PROVE  x \in Rows /\ Wanted(origin.query, stock'[d][x])
        BY <1>1 DEF StoodIsThere, WantedOn
    <2>1. x \in Rows /\ Wanted(origin.query, stock[d][x])
        BY <1>2 DEF WalkInv, StoodIsThere, WantedOn
    <2>2. CASE d = c /\ x = r
        <3>1. Wanted(origin.query, s) BY <2>2 DEF Edit, TypeOK
        <3>2. stock'[d][x] = s BY <2>2 DEF Edit, TypeOK
        <3> QED BY <2>1, <3>1, <3>2
    <2>3. CASE ~(d = c /\ x = r)
        <3>1. stock'[d][x] = stock[d][x] BY <2>1, <2>3 DEF Edit, TypeOK
        <3> QED BY <2>1, <3>1
    <2> QED BY <2>2, <2>3
<1>5. ReaderAccounts'
    BY <1>1, <1>2 DEF WalkInv, ReaderAccounts, StoodBetween, From, TypeOK
<1>6. SeenBefore' BY <1>1 DEF WalkInv, SeenBefore
<1>7. CursorAccounts'
    BY <1>1, <1>2 DEF WalkInv, CursorAccounts, StoodBetween, TypeOK
<1> QED BY <1>1, <1>3, <1>4, <1>5, <1>6, <1>7 DEF WalkInv, NoRowTwice

\* Every step of the program, of Google's and of anybody else keeps WalkInv.
LEMMA WalkStep == TypeOK /\ WalkInv /\ [Next]_vars => WalkInv'
<1> SUFFICES ASSUME TypeOK, WalkInv, [Next]_vars PROVE WalkInv' OBVIOUS
<1>1. CASE UNCHANGED vars
    BY <1>1 DEF vars, WalkInv, SameWalk, StoodIsThere, ReaderAccounts,
        SeenBefore, CursorAccounts, StoodBetween, NoRowTwice, From
<1>2. CASE Next
    BY <1>2, WalkAsk, WalkPage, WalkFails, WalkReturn, WalkEdit DEF Next
<1> QED BY <1>1, <1>2

\* What the cursor and the goroutines account for holds throughout a walk.
THEOREM WalkAccounts == Spec => []WalkInv
<1>1. Spec => [](TypeOK /\ WalkInv)
    BY TypeInit, TypeStep, WalkInit, WalkStep, PTL DEF Spec
<1> QED BY <1>1, PTL

\* WalkComplete: whoever follows list_events' next_page_token to its end,
\* with the same calendars, was handed every row that stood throughout.
THEOREM FollowedToTheEnd == Spec => []WalkComplete
<1>1. WalkInv => WalkComplete
    BY DEF WalkInv, CursorAccounts, WalkComplete, Ended
<1> QED BY <1>1, WalkAccounts, PTL

\* NoRowTwice: no walk of either tool hands a row over twice, narrowed or
\* not, whatever fails in between.
THEOREM NothingRepeated == Spec => []NoRowTwice
<1>1. WalkInv => NoRowTwice BY DEF WalkInv
<1> QED BY <1>1, WalkAccounts, PTL

-----------------------------------------------------------------------------
(* The budget.                                                             *)

\* A goroutine that still reads has not drained its share; a page adds at
\* most one share more.
DrainInv ==
    \A c \in call.cals :
        /\ reader[c].pc = "reading" => reader[c].drained < Share
        /\ reader[c].drained < 2 * Share

\* Every step keeps DrainInv.
LEMMA DrainStep == TypeOK /\ DrainInv /\ [Next]_vars => DrainInv'
<1> SUFFICES ASSUME TypeOK, DrainInv, [Next]_vars PROVE DrainInv' OBVIOUS
<1>0. TypeOK' BY TypeStep
<1>1. ASSUME NEW q \in Queries, NEW cs \in SUBSET Cals, NEW b \in Budgets,
             Ask(q, cs, b)
      PROVE  DrainInv'
    <2> SUFFICES ASSUME NEW c \in call'.cals
                 PROVE  /\ reader'[c].drained < Share'
                        /\ reader'[c].drained < 2 * Share'
        BY DEF DrainInv
    <2>1. Share' \in Nat \ {0}
        <3>1. call'.budget \in Nat \ {0} /\ call'.cals \in SUBSET Cals
            BY <1>0 DEF TypeOK
        <3>2. call'.budget \div Cardinality(call'.cals) \in Nat
            BY <3>1, PartType
        <3> QED BY <3>2 DEF Share
    <2>2. c \in Cals /\ c \in Still(cs) BY <1>0, <1>1 DEF Ask, TypeOK
    <2>3. reader'[c].drained = 0 BY <1>1, <2>2 DEF Ask, Idle
    <2>4. \A n \in Nat \ {0} : 0 < n /\ 0 < 2 * n OBVIOUS
    <2> QED BY <2>1, <2>3, <2>4
<1>2. ASSUME NEW c \in Cals, ReadPage(c) PROVE DrainInv'
    <2>1. c \in call.cals /\ reader[c].pc = "reading"
        BY <1>2 DEF ReadPage, TypeOK
    <2>2. call' = call BY <1>2 DEF ReadPage
    <2>3. Share' = Share BY <2>2 DEF Share
    <2>4. Share \in Nat \ {0} BY <2>1, ShareType
    <2>5. PICK to \in reader[c].at .. LastRow, more \in BOOLEAN :
        LET sent == SentBetween(call.query, stock[c], reader[c].at, to)
            kept == reader[c].kept \union
                        {r \in sent : Wanted(call.query, stock[c][r])}
            drained == reader[c].drained + Cardinality(sent)
        IN /\ Cardinality(sent) <= Share
           /\ reader' = [reader EXCEPT ![c] =
                [pc |-> IF Stops(more, drained, kept) THEN "done" ELSE "reading",
                 at |-> IF more THEN to ELSE LastRow,
                 drained |-> drained, kept |-> kept, more |-> more]]
        BY <1>2 DEF ReadPage
    <2> DEFINE sent == SentBetween(call.query, stock[c], reader[c].at, to)
               kept == reader[c].kept \union
                        {r \in sent : Wanted(call.query, stock[c][r])}
               drained == reader[c].drained + Cardinality(sent)
    <2>6. Cardinality(sent) \in Nat /\ Cardinality(sent) <= Share
        BY <2>5, PageFinite
    <2>7. reader[c].drained \in Nat BY DEF TypeOK, Readers
    <2>8. reader[c].drained < Share BY <2>1 DEF DrainInv
    <2>9. /\ reader'[c].drained = drained
          /\ reader'[c].pc = "reading" => ~Stops(more, drained, kept)
          /\ \A d \in Cals \ {c} : reader'[d] = reader[d]
        BY <2>5 DEF TypeOK
    <2>10. drained < 2 * Share
        <3> HIDE DEF sent
        <3> QED BY <2>4, <2>6, <2>7, <2>8
    <2>11. ~Stops(more, drained, kept) => drained < Share
        <3>1. drained \in Nat
            <4> HIDE DEF sent
            <4> QED BY <2>6, <2>7
        <3> HIDE DEF drained, kept
        <3> QED BY <2>4, <3>1 DEF Stops
    <2> HIDE DEF drained, kept
    <2>12. \A d \in call.cals : d \in Cals BY DEF TypeOK
    <2> QED BY <2>2, <2>3, <2>9, <2>10, <2>11, <2>12 DEF DrainInv
<1>3. ASSUME NEW c \in Cals, ReadFails(c) PROVE DrainInv'
    BY <1>3 DEF ReadFails, NoCall, DrainInv
<1>4. CASE Return BY <1>4 DEF Return, NoCall, DrainInv
<1>5. ASSUME NEW c \in Cals, NEW r \in Rows, NEW s \in Statuses, Edit(c, r, s)
      PROVE  DrainInv'
    BY <1>5 DEF Edit, DrainInv, Share
<1>6. CASE UNCHANGED vars BY <1>6 DEF vars, DrainInv, Share
<1> QED BY <1>1, <1>2, <1>3, <1>4, <1>5, <1>6 DEF Next

\* DrainBounded: a call drains less than twice a calendar's share of the
\* budget, however Google cuts its pages and however many rows are dropped.
THEOREM DrainWithinTwoShares == Spec => []DrainBounded
<1>1. Init => DrainInv BY DEF Init, NoCall, DrainInv
<1>2. DrainInv => DrainBounded BY DEF DrainInv, DrainBounded
<1> QED BY <1>1, <1>2, DrainStep, TypeCorrect, PTL DEF Spec

-----------------------------------------------------------------------------
(* Counting and repeating.                                                 *)

\* Some numbers have a least one.
LEMMA LeastOf ==
    ASSUME NEW T \in SUBSET Nat, T # {}
    PROVE  \E x \in T : \A y \in T : x <= y
<1> DEFINE R == OpToRel(<, Nat)
<1>1. IsWellFoundedOn(R, Nat)
  BY NatLessThanWellFounded
<1>2. \A x, y \in Nat : <<x, y>> \in R <=> x < y
  BY DEF OpToRel
<1> HIDE DEF R
<1>3. PICK x \in T : \A y \in T : ~(<<y, x>> \in R)
  BY <1>1, WFMin
<1>4. \A y \in T : ~(y < x)
  BY <1>2, <1>3
<1>5. \A a, b \in Nat : ~(b < a) => a <= b
  OBVIOUS
<1> QED BY <1>4, <1>5

\* A set of numbers that holds 0, and with a number the next, holds them all.
LEMMA CountedUp ==
    ASSUME NEW X, 0 \in X, \A k \in Nat : k \in X => k + 1 \in X
    PROVE  \A n \in Nat : n \in X
<1> DEFINE T == {n \in Nat : n \notin X}
<1> SUFFICES ASSUME T # {} PROVE FALSE
  OBVIOUS
<1>1. PICK x \in T : \A y \in T : x <= y
  BY LeastOf
<1>2. x \in Nat /\ x # 0
  OBVIOUS
<1>3. x - 1 \in Nat /\ ~(x <= x - 1) /\ (x - 1) + 1 = x
  BY <1>2
<1>4. x - 1 \in X
  BY <1>1, <1>3
<1> QED BY <1>3, <1>4

\* A step that stays in a set can be taken any number of times.
Runs(S, base, step, n) ==
    \E g \in [0 .. n -> S] : g[0] = base /\ \A k \in 1 .. n : g[k] = step[k][g[k - 1]]

\* A loop of n such steps has its values, one after the other.
LEMMA Repeated ==
    ASSUME NEW S, NEW base \in S, NEW step \in [Nat -> [S -> S]], NEW n \in Nat
    PROVE  Runs(S, base, step, n)
<1> DEFINE Run(g, m) ==
        g \in [0 .. m -> S] /\ g[0] = base /\ \A k \in 1 .. m : g[k] = step[k][g[k - 1]]
           X == {m \in Nat : \E g : Run(g, m)}
<1>1. 0 \in X
  <2> DEFINE g == [i \in 0 .. 0 |-> base]
  <2>1. 0 .. 0 = {0} /\ 1 .. 0 = {}
    OBVIOUS
  <2>2. g \in [0 .. 0 -> S] /\ g[0] = base
    BY <2>1
  <2>3. Run(g, 0)
    BY <2>1, <2>2
  <2> QED BY <2>3
<1>2. \A k \in Nat : k \in X => k + 1 \in X
  <2> SUFFICES ASSUME NEW k \in Nat, NEW g, Run(g, k) PROVE \E h : Run(h, k + 1)
    <3> HIDE DEF Run
    <3> QED OBVIOUS
  <2> DEFINE next == step[k + 1][g[k]]
             h == [i \in 0 .. k + 1 |-> IF i = k + 1 THEN next ELSE g[i]]
  <2>1. k + 1 \in Nat /\ k \in 0 .. k /\ g[k] \in S
    OBVIOUS
  <2>2. next \in S
    BY <2>1
  <2>3. \A i \in 0 .. k : i # k + 1 /\ i \in 0 .. k + 1 /\ g[i] \in S
    OBVIOUS
  <2>4. h \in [0 .. k + 1 -> S] /\ \A i \in 0 .. k : h[i] = g[i]
    <3> HIDE DEF next
    <3>1. \A i \in 0 .. k + 1 : i # k + 1 => i \in 0 .. k
      OBVIOUS
    <3> QED BY <2>2, <2>3, <3>1
  <2>5. h[k + 1] = next
    OBVIOUS
  <2>6. \A i \in 1 .. k + 1 : h[i] = step[i][h[i - 1]]
    <3> SUFFICES ASSUME NEW i \in 1 .. k + 1 PROVE h[i] = step[i][h[i - 1]]
      OBVIOUS
    <3>1. i - 1 \in 0 .. k /\ h[i - 1] = g[i - 1]
      BY <2>4
    <3>2. CASE i = k + 1
      BY <2>5, <3>1, <3>2
    <3>3. CASE i # k + 1
      <4>1. i \in 1 .. k /\ i \in 0 .. k
        BY <3>3
      <4> QED BY <2>4, <3>1, <4>1
    <3> QED BY <3>2, <3>3
  <2>7. h[0] = base
    BY <2>4
  <2> HIDE DEF h
  <2> QED BY <2>4, <2>6, <2>7
<1> HIDE DEF X
<1>3. n \in X
  BY <1>1, <1>2, CountedUp
<1> QED BY <1>3 DEF X, Runs

-----------------------------------------------------------------------------
(* Loops over a sequence.                                                  *)

\* What is put at the end is one element more.
LEMMA Appended ==
    ASSUME NEW S, NEW s \in Seq(S), NEW x \in S
    PROVE  /\ Append(s, x) \in Seq(S) /\ Append(s, x) # <<>> /\ Last(Append(s, x)) = x
           /\ ToSet(Append(s, x)) = ToSet(s) \union {x}
<1> DEFINE m == Len(s)
           u == Append(s, x)
<1>1. /\ m \in Nat /\ DOMAIN s = 1 .. m /\ u \in Seq(S) /\ Len(u) = m + 1
      /\ (\A i \in 1 .. m : u[i] = s[i]) /\ u[m + 1] = x
  OBVIOUS
<1>2. DOMAIN u = 1 .. m + 1 /\ 1 .. m + 1 = (1 .. m) \union {m + 1}
  BY <1>1
<1>3. u # <<>>
  BY <1>1
<1> HIDE DEF m, u
<1>4. ToSet(u) = ToSet(s) \union {x}
  BY <1>1, <1>2 DEF ToSet
<1>5. Last(u) = x
  BY <1>1 DEF Last
<1> QED BY <1>1, <1>3, <1>4, <1>5 DEF u

\* Picking keeps what is at the places given, each place once.
LEMMA PickedAre ==
    ASSUME NEW S, NEW s \in Seq(S), NEW places \in SUBSET DOMAIN s,
           \A i, j \in places : s[i] = s[j] => i = j
    PROVE  /\ Picked(s, places) \in Seq(S)
           /\ ToSet(Picked(s, places)) = {s[i] : i \in places}
           /\ \A i, j \in DOMAIN Picked(s, places) :
                  Picked(s, places)[i] = Picked(s, places)[j] => i = j
<1> DEFINE N == Len(s)
           E(g) == g = [n \in 0 .. N |->
                           IF n = 0 THEN <<>>
                           ELSE IF n \in places THEN Append(g[n - 1], s[n]) ELSE g[n - 1]]
           kept == CHOOSE g : E(g)
<1>0. Picked(s, places) = kept[N]
  BY DEF Picked
<1>1. N \in Nat /\ DOMAIN s = 1 .. N /\ \A i \in 1 .. N : s[i] \in S
  OBVIOUS
<1>2. \E g : E(g) /\ \A n \in 0 .. N : g[n] \in Seq(S)
  <2> DEFINE step == [k \in Nat |-> [x \in Seq(S) |->
                         IF k \in places THEN Append(x, s[k]) ELSE x]]
  <2>1. step \in [Nat -> [Seq(S) -> Seq(S)]]
    BY <1>1
  <2>2. PICK g \in [0 .. N -> Seq(S)] :
            g[0] = <<>> /\ \A k \in 1 .. N : g[k] = step[k][g[k - 1]]
    <3>1. <<>> \in Seq(S)
      OBVIOUS
    <3> DEFINE T == Seq(S)
               none == <<>>
    <3> HIDE DEF step, T, none
    <3>2. none \in T /\ step \in [Nat -> [T -> T]]
      BY <2>1, <3>1 DEF T, none
    <3>3. Runs(T, none, step, N)
      BY <1>1, <3>2, Repeated
    <3> QED BY <3>3 DEF Runs, T, none
  <2>3. \A n \in 1 .. N : n - 1 \in 0 .. N /\ n \in Nat
    BY <1>1
  <2>4. \A n \in 1 .. N : g[n] = IF n \in places THEN Append(g[n - 1], s[n]) ELSE g[n - 1]
    BY <2>2, <2>3
  <2>5. \A n \in 0 .. N : n = 0 \/ n \in 1 .. N
    BY <1>1
  <2>6. E(g)
    BY <2>2, <2>4, <2>5
  <2> QED BY <2>2, <2>6
<1>3. E(kept)
  BY <1>2
<1> HIDE DEF kept, N
<1>4. /\ kept[0] = <<>>
      /\ \A n \in 1 .. N : kept[n] = IF n \in places THEN Append(kept[n - 1], s[n]) ELSE kept[n - 1]
  <2>1. 0 \in 0 .. N /\ \A n \in 1 .. N : n \in 0 .. N /\ n # 0
    BY <1>1
  <2>2. \A n \in 0 .. N : kept[n] = IF n = 0 THEN <<>>
                                  ELSE IF n \in places THEN Append(kept[n - 1], s[n]) ELSE kept[n - 1]
    BY <1>3
  <2> QED BY <2>1, <2>2
<1> DEFINE Upto(n) == {i \in places : i <= n}
           Good(n) == /\ kept[n] \in Seq(S)
                      /\ ToSet(kept[n]) = {s[i] : i \in Upto(n)}
                      /\ \A i, j \in DOMAIN kept[n] : kept[n][i] = kept[n][j] => i = j
           X == {n \in Nat : n <= N => Good(n)}
<1>5. 0 \in X
  <2>1. Upto(0) = {}
    BY <1>1
  <2>2. ToSet(<<>>) = {} /\ <<>> \in Seq(S) /\ \A i \in DOMAIN <<>> : FALSE
    BY DEF ToSet
  <2>3. {s[i] : i \in Upto(0)} = {}
    BY <2>1
  <2> QED BY <1>4, <2>2, <2>3
<1>6. \A k \in Nat : k \in X => k + 1 \in X
  <2> SUFFICES ASSUME NEW k \in Nat, k + 1 <= N, Good(k) PROVE Good(k + 1)
    <3> HIDE DEF Good
    <3> QED BY <1>1
  <2>1. k + 1 \in 1 .. N /\ (k + 1) - 1 = k
    BY <1>1
  <2>2. CASE k + 1 \notin places
    <3>1. Upto(k + 1) = Upto(k)
      BY <1>1, <2>2
    <3> QED BY <1>4, <2>1, <2>2, <3>1
  <2>3. CASE k + 1 \in places
    <3>1. kept[k + 1] = Append(kept[k], s[k + 1])
      BY <1>4, <2>1, <2>3
    <3>2. Upto(k + 1) = Upto(k) \union {k + 1}
      BY <1>1, <2>3
    <3>3. s[k + 1] \in S
      BY <1>1, <2>1
    <3>4. \A i \in Upto(k) : s[i] # s[k + 1]
      BY <1>1, <2>3
    <3> DEFINE old == kept[k]
               new == kept[k + 1]
    <3>5. /\ old \in Seq(S) /\ new \in Seq(S) /\ DOMAIN old = 1 .. Len(old)
          /\ DOMAIN new = 1 .. Len(old) + 1 /\ Len(old) \in Nat
          /\ \A i \in 1 .. Len(old) : new[i] = old[i]
          /\ new[Len(old) + 1] = s[k + 1]
      BY <3>1, <3>3
    <3>6. ToSet(new) = ToSet(old) \union {s[k + 1]}
      BY <3>1, <3>3, <3>5, Appended
    <3>7. \A i \in 1 .. Len(old) : old[i] # s[k + 1]
      <4>1. \A i \in 1 .. Len(old) : old[i] \in ToSet(old)
        BY <3>5 DEF ToSet
      <4> QED BY <3>4, <4>1
    <3>8. \A i, j \in DOMAIN new : new[i] = new[j] => i = j
      <4>1. \A i \in DOMAIN new : i = Len(old) + 1 \/ i \in 1 .. Len(old)
        BY <3>5
      <4>2. \A i, j \in 1 .. Len(old) : old[i] = old[j] => i = j
        BY <3>5
      <4> HIDE DEF old, new
      <4> QED BY <3>5, <3>7, <4>1, <4>2
    <3>9. ToSet(new) = {s[i] : i \in Upto(k + 1)}
      BY <3>2, <3>6
    <3> QED BY <3>5, <3>8, <3>9
  <2> QED BY <2>2, <2>3
<1> HIDE DEF X
<1>7. N \in X
  BY <1>1, <1>5, <1>6, CountedUp
<1>8. Good(N) /\ Upto(N) = places
  BY <1>1, <1>7 DEF X
<1> QED BY <1>0, <1>8

\* The first place of each are places of each, and of each one.
LEMMA FirstsAre ==
    ASSUME NEW S, NEW s \in Seq(S)
    PROVE  /\ Firsts(s) \subseteq DOMAIN s
           /\ \A i, j \in Firsts(s) : s[i] = s[j] => i = j
           /\ \A k \in DOMAIN s : \E i \in Firsts(s) : s[i] = s[k]
<1>1. DOMAIN s = 1 .. Len(s) /\ Len(s) \in Nat
  OBVIOUS
<1>2. \A i, j \in Firsts(s) : ~(s[i] = s[j] /\ i < j)
  BY <1>1 DEF Firsts
<1>3. \A k \in DOMAIN s : \E i \in Firsts(s) : s[i] = s[k]
  <2> DEFINE X == {n \in Nat : \A k \in DOMAIN s : k <= n => \E i \in Firsts(s) : s[i] = s[k]}
  <2>1. 0 \in X
    BY <1>1
  <2>2. \A n \in Nat : n \in X => n + 1 \in X
    <3> SUFFICES ASSUME NEW n \in Nat, n \in X, NEW k \in DOMAIN s, k <= n + 1
                 PROVE  \E i \in Firsts(s) : s[i] = s[k]
      OBVIOUS
    <3>1. CASE k \in Firsts(s)
      BY <3>1
    <3>2. CASE k \notin Firsts(s)
      <4>1. PICK j \in 1 .. k - 1 : s[j] = s[k]
        BY <3>2 DEF Firsts
      <4>2. j \in DOMAIN s /\ j <= n
        BY <1>1
      <4> QED BY <4>1, <4>2
    <3> QED BY <3>1, <3>2
  <2> HIDE DEF X
  <2>3. Len(s) \in X
    BY <1>1, <2>1, <2>2, CountedUp
  <2> QED BY <1>1, <2>3 DEF X
<1>4. \A i, j \in Firsts(s) : i \in Nat /\ j \in Nat
  BY <1>1 DEF Firsts
<1> QED BY <1>2, <1>3, <1>4 DEF Firsts

\* A whole quotient, and products in order.
LEMMA Quotient ==
    ASSUME NEW a \in Nat, NEW b \in Nat \ {0}
    PROVE  /\ a \div b \in Nat
           /\ (a \div b) * b <= a /\ a < (a \div b) * b + b
OBVIOUS

\* A product keeps the order of its factors.
LEMMA Products ==
    ASSUME NEW x \in Int, NEW y \in Int, NEW b \in Nat, x <= y
    PROVE  x * b \in Int /\ y * b \in Int /\ x * b <= y * b
<1>1. y - x \in Nat
  OBVIOUS
<1>2. (y - x) * b >= 0
  BY <1>1
<1>3. (y - x) * b = y * b - x * b
  BY <1>1
<1>4. x * b \in Int /\ y * b \in Int
  OBVIOUS
<1> QED BY <1>2, <1>3, <1>4

\* Every position is in one of the chunks, and a chunk has at most Batch.
LEMMA ChunkBounds ==
    ASSUME NEW n \in Nat
    PROVE  LET N == (n + Batch - 1) \div Batch
           IN  /\ N \in Nat
               /\ \A i \in 1 .. N :
                      /\ (i - 1) * Batch \in Nat /\ i * Batch = (i - 1) * Batch + Batch
                      /\ (i - 1) * Batch < n
               /\ \A k \in 1 .. n : \E i \in 1 .. N :
                      (i - 1) * Batch + 1 <= k /\ k <= i * Batch
<1> DEFINE b == Batch
           N == (n + b - 1) \div b
<1>1. b \in Nat \ {0} /\ n + b - 1 \in Nat
  <2>1. b \in Nat \ {0}
    BY AvailabilityAssumption DEF AvailabilityAssumption
  <2> QED BY <2>1
<1> HIDE DEF b
<1>2. N \in Nat /\ N * b <= n + b - 1 /\ n + b - 1 < N * b + b
  BY <1>1, Quotient
<1> HIDE DEF N
<1>3. \A i \in 1 .. N : (i - 1) * b \in Nat /\ i * b = (i - 1) * b + b
  BY <1>1, <1>2
<1>4. \A i \in 1 .. N : (i - 1) * b < n
  <2> TAKE i \in 1 .. N
  <2>1. i * b <= N * b /\ N * b \in Int
    BY <1>1, <1>2, Products
  <2> QED BY <1>1, <1>2, <1>3, <2>1
<1>5. \A k \in 1 .. n : \E i \in 1 .. N : (i - 1) * b + 1 <= k /\ k <= i * b
  <2> TAKE k \in 1 .. n
  <2> DEFINE q == (k - 1) \div b
  <2>1. k - 1 \in Nat
    OBVIOUS
  <2>2. q \in Nat /\ q * b <= k - 1 /\ k - 1 < q * b + b
    BY <1>1, <2>1, Quotient
  <2> HIDE DEF q
  <2>3. q < N
    <3> SUFFICES ASSUME N <= q PROVE FALSE
      BY <1>2, <2>2
    <3>1. N * b <= q * b /\ N * b \in Int /\ q * b \in Int
      BY <1>1, <1>2, <2>2, Products
    <3> QED BY <1>1, <1>2, <2>2, <3>1
  <2>4. q + 1 \in 1 .. N /\ (q + 1) - 1 = q
    BY <1>2, <2>2, <2>3
  <2>5. (q + 1) * b = q * b + b
    BY <1>3, <2>4
  <2>6. q * b \in Int
    BY <1>1, <2>2
  <2>7. q * b + 1 <= k /\ k <= (q + 1) * b
    BY <1>1, <2>2, <2>5, <2>6
  <2> QED BY <2>4, <2>7
<1> QED BY <1>2, <1>3, <1>4, <1>5 DEF N, b

\* The chunks of a sequence: short ones, of its elements, and of them all.
LEMMA ChunksAre ==
    ASSUME NEW S, NEW s \in Seq(S)
    PROVE  /\ Chunks(s) \in Seq(Seq(S))
           /\ \A i \in DOMAIN Chunks(s) :
                  Len(Chunks(s)[i]) <= Batch /\ ToSet(Chunks(s)[i]) \subseteq ToSet(s)
           /\ \A x \in ToSet(s) : \E i \in DOMAIN Chunks(s) : x \in ToSet(Chunks(s)[i])
<1> DEFINE n == Len(s)
           N == (n + Batch - 1) \div Batch
           lo(i) == (i - 1) * Batch + 1
           hi(i) == IF i * Batch < n THEN i * Batch ELSE n
           chunk(i) == SubSeq(s, lo(i), hi(i))
<1>1. Batch \in Nat \ {0}
  BY AvailabilityAssumption DEF AvailabilityAssumption
<1>2. n \in Nat /\ DOMAIN s = 1 .. n /\ \A i \in 1 .. n : s[i] \in S
  OBVIOUS
<1>3. /\ N \in Nat
      /\ \A i \in 1 .. N : /\ (i - 1) * Batch \in Nat /\ i * Batch = (i - 1) * Batch + Batch
                           /\ (i - 1) * Batch < n
      /\ \A k \in 1 .. n : \E i \in 1 .. N : (i - 1) * Batch + 1 <= k /\ k <= i * Batch
  BY <1>2, ChunkBounds
<1>4. Chunks(s) = [i \in 1 .. N |-> chunk(i)]
  BY DEF Chunks
<1> HIDE DEF N
<1>5. \A i \in 1 .. N : lo(i) \in 1 .. n /\ hi(i) \in lo(i) .. n /\ hi(i) - lo(i) + 1 <= Batch
  BY <1>1, <1>2, <1>3
<1>6. \A k \in 1 .. n : \E i \in 1 .. N : lo(i) <= k /\ k <= hi(i)
  <2> TAKE k \in 1 .. n
  <2>1. PICK i \in 1 .. N : (i - 1) * Batch + 1 <= k /\ k <= i * Batch
    BY <1>3
  <2>2. lo(i) <= k /\ k <= hi(i)
    BY <1>2, <1>5, <2>1
  <2> QED BY <2>2
<1> HIDE DEF lo, hi, n
<1>7. \A i \in 1 .. N :
        /\ chunk(i) \in Seq(S) /\ Len(chunk(i)) = hi(i) - lo(i) + 1
        /\ \A j \in 1 .. hi(i) - lo(i) + 1 : chunk(i)[j] = s[lo(i) + j - 1]
  <2> TAKE i \in 1 .. N
  <2>1. lo(i) \in Int /\ hi(i) \in Int /\ lo(i) >= 1 /\ hi(i) <= n /\ lo(i) <= hi(i)
    BY <1>2, <1>5
  <2>2. \A k \in lo(i) .. hi(i) : s[k] \in S
    BY <1>2, <2>1
  <2> QED BY <2>1, <2>2, SubSeqProperties
<1> HIDE DEF chunk
<1>8. Chunks(s) \in Seq(Seq(S)) /\ DOMAIN Chunks(s) = 1 .. N
  BY <1>3, <1>4, <1>7
<1>9. \A i \in 1 .. N : Chunks(s)[i] = chunk(i)
  BY <1>4
<1>10. \A i \in 1 .. N : Len(chunk(i)) <= Batch /\ ToSet(chunk(i)) \subseteq ToSet(s)
  <2> TAKE i \in 1 .. N
  <2>1. \A j \in 1 .. hi(i) - lo(i) + 1 : lo(i) + j - 1 \in 1 .. n
    BY <1>2, <1>5
  <2>2. DOMAIN chunk(i) = 1 .. hi(i) - lo(i) + 1
    BY <1>7
  <2>3. \A j \in DOMAIN chunk(i) : chunk(i)[j] \in ToSet(s)
    BY <1>2, <1>7, <2>1, <2>2 DEF ToSet
  <2> QED BY <1>5, <1>7, <2>3 DEF ToSet
<1>11. \A x \in ToSet(s) : \E i \in 1 .. N : x \in ToSet(chunk(i))
  <2> TAKE x \in ToSet(s)
  <2>1. PICK k \in 1 .. n : x = s[k]
    BY <1>2 DEF ToSet
  <2>2. PICK i \in 1 .. N : lo(i) <= k /\ k <= hi(i)
    BY <1>6
  <2> DEFINE j == k - lo(i) + 1
  <2>3. j \in 1 .. hi(i) - lo(i) + 1 /\ lo(i) + j - 1 = k
    BY <1>2, <1>5, <2>2
  <2>4. chunk(i)[j] = x /\ j \in DOMAIN chunk(i)
    BY <1>7, <2>1, <2>3
  <2> QED BY <2>4 DEF ToSet
<1> QED BY <1>8, <1>9, <1>10, <1>11

\* The elements of two sequences, one behind the other, are those of both.
LEMMA Behind ==
    ASSUME NEW S, NEW s \in Seq(S), NEW t \in Seq(S)
    PROVE  s \o t \in Seq(S) /\ ToSet(s \o t) = ToSet(s) \union ToSet(t)
<1> DEFINE u == s \o t
<1>1. /\ u \in Seq(S) /\ Len(u) = Len(s) + Len(t)
      /\ \A i \in 1 .. Len(s) + Len(t) : u[i] = IF i <= Len(s) THEN s[i] ELSE t[i - Len(s)]
  BY ConcatProperties
<1> HIDE DEF u
<1>2. /\ Len(s) \in Nat /\ Len(t) \in Nat /\ DOMAIN s = 1 .. Len(s) /\ DOMAIN t = 1 .. Len(t)
      /\ DOMAIN u = 1 .. Len(s) + Len(t)
  BY <1>1
<1>3. ToSet(u) \subseteq ToSet(s) \union ToSet(t)
  <2> SUFFICES ASSUME NEW i \in 1 .. Len(s) + Len(t) PROVE u[i] \in ToSet(s) \union ToSet(t)
    BY <1>2 DEF ToSet
  <2>1. CASE i <= Len(s)
    BY <1>1, <1>2, <2>1 DEF ToSet
  <2>2. CASE i > Len(s)
    <3>1. i - Len(s) \in 1 .. Len(t) /\ u[i] = t[i - Len(s)]
      BY <1>1, <1>2, <2>2
    <3> QED BY <1>2, <3>1 DEF ToSet
  <2> QED BY <1>2, <2>1, <2>2
<1>4. ToSet(s) \subseteq ToSet(u)
  <2>1. \A i \in 1 .. Len(s) : i \in 1 .. Len(s) + Len(t) /\ u[i] = s[i]
    BY <1>1, <1>2
  <2> QED BY <1>2, <2>1 DEF ToSet
<1>5. ToSet(t) \subseteq ToSet(u)
  <2>1. \A j \in 1 .. Len(t) : Len(s) + j \in 1 .. Len(s) + Len(t) /\ u[Len(s) + j] = t[j]
    <3> TAKE j \in 1 .. Len(t)
    <3>1. Len(s) + j \in 1 .. Len(s) + Len(t) /\ ~(Len(s) + j <= Len(s)) /\ (Len(s) + j) - Len(s) = j
      BY <1>2
    <3> QED BY <1>1, <3>1
  <2> QED BY <1>2, <2>1 DEF ToSet
<1> QED BY <1>1, <1>3, <1>4, <1>5 DEF u

\* Flattening keeps the elements of every part.
LEMMA FlattenedAre ==
    ASSUME NEW S, NEW ss \in Seq(Seq(S))
    PROVE  /\ FlattenSeq(ss) \in Seq(S)
           /\ ToSet(FlattenSeq(ss)) = UNION {ToSet(ss[i]) : i \in DOMAIN ss}
<1> DEFINE N == Len(ss)
           E(g) == g = [i \in 1 .. N |-> IF i = 1 THEN ss[i] ELSE g[i - 1] \o ss[i]]
           flat == CHOOSE g : E(g)
<1>1. N \in Nat /\ DOMAIN ss = 1 .. N /\ \A i \in 1 .. N : ss[i] \in Seq(S)
  OBVIOUS
<1>2. CASE N = 0
  <2>1. FlattenSeq(ss) = ss /\ ss = <<>>
    BY <1>2 DEF FlattenSeq
  <2>2. ToSet(<<>>) = {} /\ UNION {ToSet(ss[i]) : i \in DOMAIN <<>>} = {}
    BY DEF ToSet
  <2> QED BY <2>1, <2>2
<1>3. CASE N # 0
  <2>0. FlattenSeq(ss) = flat[N]
    BY <1>3 DEF FlattenSeq
  <2>1. \E g : E(g)
    <3> DEFINE T == Seq(S)
               none == <<>>
               step == [k \in Nat |-> [x \in T |-> IF k \in 1 .. N THEN x \o ss[k] ELSE x]]
    <3>1. none \in T /\ step \in [Nat -> [T -> T]]
      BY <1>1
    <3>2. \A k \in 1 .. N, x \in T : step[k][x] = x \o ss[k]
      BY <1>1
    <3>3. \A x \in T : none \o x = x
      BY ConcatEmptySeq
    <3> HIDE DEF step, none, T
    <3>4. Runs(T, none, step, N)
      BY <1>1, <3>1, Repeated
    <3>5. PICK g \in [0 .. N -> T] : g[0] = none /\ \A k \in 1 .. N : g[k] = step[k][g[k - 1]]
      BY <3>4 DEF Runs
    <3> DEFINE h == [i \in 1 .. N |-> g[i]]
    <3>6. \A i \in 1 .. N : i - 1 \in 0 .. N /\ g[i] = g[i - 1] \o ss[i]
      <4> TAKE i \in 1 .. N
      <4>1. i - 1 \in 0 .. N
        BY <1>1
      <4>2. g[i - 1] \in T
        BY <3>5, <4>1
      <4> QED BY <3>2, <3>5, <4>1, <4>2
    <3>7. \A i \in 1 .. N : i # 1 => i - 1 \in 1 .. N /\ h[i - 1] = g[i - 1]
      BY <1>1
    <3>8. 1 \in 1 .. N => g[1] = ss[1]
      <4> SUFFICES ASSUME 1 \in 1 .. N PROVE g[1] = ss[1]
        OBVIOUS
      <4>1. g[1] = g[0] \o ss[1]
        <5>1. 1 - 1 = 0
          OBVIOUS
        <5> QED BY <3>6, <5>1
      <4> QED BY <1>1, <3>3, <3>5, <4>1 DEF T
    <3>9. E(h)
      BY <3>6, <3>7, <3>8
    <3> QED BY <3>9
  <2>2. E(flat)
    BY <2>1
  <2> HIDE DEF flat, N
  <2>3. \A i \in 1 .. N : flat[i] = IF i = 1 THEN ss[i] ELSE flat[i - 1] \o ss[i]
    BY <2>2
  <2> DEFINE Good(n) == /\ flat[n] \in Seq(S)
                        /\ ToSet(flat[n]) = UNION {ToSet(ss[i]) : i \in 1 .. n}
             X == {n \in Nat : n + 1 <= N => Good(n + 1)}
  <2>4. 0 \in X
    <3>1. 1 .. 1 = {1} /\ 0 + 1 = 1
      OBVIOUS
    <3>2. flat[1] = ss[1]
      BY <1>1, <1>3, <2>3
    <3> QED BY <1>1, <1>3, <3>1, <3>2
  <2>5. \A k \in Nat : k \in X => k + 1 \in X
    <3> SUFFICES ASSUME NEW k \in Nat, (k + 1) + 1 <= N, Good(k + 1) PROVE Good((k + 1) + 1)
      <4> HIDE DEF Good
      <4> QED BY <1>1
    <3> DEFINE m == (k + 1) + 1
    <3>1. m \in 1 .. N /\ m # 1 /\ m - 1 = k + 1 /\ 1 .. m = (1 .. k + 1) \union {m}
      BY <1>1
    <3>2. flat[m] = flat[k + 1] \o ss[m] /\ ss[m] \in Seq(S)
      BY <1>1, <2>3, <3>1
    <3>3. flat[m] \in Seq(S) /\ ToSet(flat[m]) = ToSet(flat[k + 1]) \union ToSet(ss[m])
      BY <3>2, Behind
    <3> HIDE DEF m
    <3> QED BY <3>1, <3>3 DEF m
  <2> HIDE DEF X
  <2>6. N - 1 \in X
    BY <1>1, <1>3, <2>4, <2>5, CountedUp
  <2>7. Good(N)
    <3>1. (N - 1) + 1 = N /\ N <= N
      BY <1>1
    <3>2. (N - 1) + 1 <= N => Good((N - 1) + 1)
      <4> HIDE DEF Good
      <4> QED BY <2>6 DEF X
    <3> HIDE DEF Good
    <3> QED BY <3>1, <3>2
  <2> QED BY <1>1, <2>0, <2>7
<1> QED BY <1>2, <1>3

-----------------------------------------------------------------------------
(* The ids asked about.                                                    *)

\* What the assumptions say of a call and of what Google holds.
LEMMA Constants ==
    /\ Calendars \intersect Groups = {} /\ Batch \in Nat \ {0} /\ MaxAskedAgain \in Nat
    /\ \A name \in DOMAIN Named : Named[name] \in Addresses
    /\ "untitled" \notin Addresses \union DOMAIN Named
    /\ \A a \in Asks : a.refs \in Seq(Addresses \union DOMAIN Named \union {"untitled"})
    /\ \A g \in Worlds : /\ g.condition \in [Calendars -> Conditions]
                         /\ g.members \in [Groups -> Seq(Calendars)]
                         /\ g.pastCap \in {"left out", "too many"}
                         /\ \A c \in Calendars : /\ IsFiniteSet(g.busy[c]) /\ g.busy[c] \subseteq Interval
                                                 /\ \A b \in g.busy[c] : b.from < b.to
BY AvailabilityAssumption DEF AvailabilityAssumption

\* Distinct keeps what a sequence holds.
LEMMA DistinctAre ==
    ASSUME NEW S, NEW s \in Seq(S)
    PROVE  /\ Distinct(s) \in Seq(S) /\ ToSet(Distinct(s)) = ToSet(s)
<1>1. /\ Firsts(s) \in SUBSET DOMAIN s
      /\ \A i, j \in Firsts(s) : s[i] = s[j] => i = j
      /\ \A k \in DOMAIN s : \E i \in Firsts(s) : s[i] = s[k]
  BY FirstsAre
<1>2. Distinct(s) \in Seq(S) /\ ToSet(Distinct(s)) = {s[i] : i \in Firsts(s)}
  BY <1>1, PickedAre DEF Distinct
<1>3. {s[i] : i \in Firsts(s)} = ToSet(s)
  BY <1>1 DEF ToSet
<1> QED BY <1>2, <1>3

\* A call that named everything asks about addresses.
LEMMA IdsAre ==
    ASSUME ask \in Asks, "untitled" \notin ToSet(ask.refs)
    PROVE  Ids \in Seq(Addresses)
<1> DEFINE s == [i \in DOMAIN ask.refs |-> Target(ask.refs[i])]
           R == Addresses \union DOMAIN Named \union {"untitled"}
<1>1. ask.refs \in Seq(R)
  BY Constants
<1>2. /\ Len(ask.refs) \in Nat /\ DOMAIN ask.refs = 1 .. Len(ask.refs)
      /\ \A i \in DOMAIN ask.refs : ask.refs[i] \in R
  BY <1>1
<1>3. \A i \in DOMAIN ask.refs : Target(ask.refs[i]) \in Addresses
  <2> TAKE i \in DOMAIN ask.refs
  <2>1. ask.refs[i] # "untitled"
    BY DEF ToSet
  <2> QED BY <1>2, <2>1, Constants DEF Target
<1>4. s \in Seq(Addresses)
  BY <1>2, <1>3
<1> HIDE DEF s
<1> QED BY <1>4, DistinctAre DEF Ids, s

-----------------------------------------------------------------------------
(* What the answers have come to, at each step of a call.                   *)

AllHeld == UNION {Held(id) : id \in ToSet(Ids)}
InHand(c) == c \in DOMAIN resp.calendars /\ resp.calendars[c] = "read"
Coming(id) == \E i \in DOMAIN todo : id \in ToSet(todo[i])

\* What came back is what Google has, as far as there was room.
AnswersTrue ==
    /\ DOMAIN resp.calendars \subseteq Calendars
    /\ \A c \in DOMAIN resp.calendars :
          /\ resp.calendars[c] = "read" => google.condition[c] = "read"
          /\ google.condition[c] = "read" => resp.calendars[c] \in {"read", "too many"}
    /\ DOMAIN resp.groups \subseteq Groups
    /\ \A g \in DOMAIN resp.groups :
          resp.groups[g] = IF Expands(g) THEN [error |-> FALSE, members |-> google.members[g]]
                           ELSE [error |-> TRUE, members |-> <<>>]

\* While the bound on what is asked again is not met.
Bounded == Cardinality(AllHeld) <= MaxAskedAgain

ToCome ==
    /\ todo \in Seq(Seq(Addresses))
    /\ \A i \in DOMAIN todo : Len(todo[i]) <= Batch
    /\ pc = "asking" => \A g \in ToSet(Ids) \intersect Groups : g \in DOMAIN resp.groups \/ Coming(g)
    /\ pc \in {"again", "answered"} => ToSet(Ids) \intersect Groups \subseteq DOMAIN resp.groups
    /\ pc = "again" =>
          /\ \A i \in DOMAIN todo : ToSet(todo[i]) \subseteq Calendars
          /\ Bounded => \A id \in ToSet(Ids) : Readable(id) => \A c \in Held(id) : InHand(c) \/ Coming(c)

Reported ==
    pc = "answered" =>
        /\ report = [id \in ToSet(Ids) |-> AnswerFor(id)]
        /\ Bounded => \A id \in ToSet(Ids) : Readable(id) => \A c \in Held(id) : InHand(c)

AvailInv ==
    /\ google \in Worlds /\ ask \in Asks
    /\ pc \in {"idle", "refused", "asking", "again", "failed", "answered"}
    /\ pc \notin {"idle", "refused"} => "untitled" \notin ToSet(ask.refs)
    /\ AnswersTrue /\ ToCome /\ Reported

\* A call begins with nothing asked and nothing answered.
LEMMA AvailStarts == AvailInit => AvailInv
<1> SUFFICES ASSUME AvailInit PROVE AvailInv
  OBVIOUS
<1>1. DOMAIN <<>> = {} /\ <<>> \in Seq(Seq(Addresses))
  OBVIOUS
<1>2. resp.calendars = <<>> /\ resp.groups = <<>> /\ todo = <<>> /\ pc = "idle"
  BY DEF AvailInit
<1> QED BY <1>1, <1>2 DEF AvailInit, AvailInv, AnswersTrue, ToCome, Reported

\* A call refused asks nothing; any other asks about all its ids.
LEMMA StartKeeps == AvailInv /\ Start => AvailInv'
<1> SUFFICES ASSUME AvailInv, Start PROVE AvailInv'
  OBVIOUS
<1> USE DEF AvailInv
<1>1. CASE Refused
  <2>1. pc' = "refused" /\ UNCHANGED <<google, ask, todo, resp, report>>
    BY <1>1 DEF Start
  <2> QED BY <2>1 DEF AnswersTrue, ToCome, Reported, Expands
<1>2. CASE ~Refused
  <2>1. pc' = "asking" /\ todo' = Chunks(Ids) /\ UNCHANGED <<google, ask, resp, report>>
    BY <1>2 DEF Start
  <2>2. "untitled" \notin ToSet(ask.refs)
    BY <1>2 DEF Refused
  <2>3. Ids \in Seq(Addresses) /\ Ids' = Ids
    BY <2>1, <2>2, IdsAre DEF Ids
  <2>4. /\ todo' \in Seq(Seq(Addresses)) /\ \A i \in DOMAIN todo' : Len(todo'[i]) <= Batch
        /\ \A x \in ToSet(Ids) : \E i \in DOMAIN todo' : x \in ToSet(todo'[i])
    BY <2>1, <2>3, ChunksAre
  <2>5. ToCome'
    BY <2>1, <2>3, <2>4 DEF ToCome, Coming
  <2> QED BY <2>1, <2>2, <2>5 DEF AnswersTrue, Reported, Expands
<1> QED BY <1>1, <1>2

\* The calls that are read no more.
LEMMA FailKeeps == AvailInv /\ QueryFails => AvailInv'
<1> SUFFICES ASSUME AvailInv, QueryFails PROVE AvailInv'
  OBVIOUS
<1>1. pc' = "failed" /\ UNCHANGED <<google, ask, todo, resp, report>> /\ pc \notin {"idle", "refused"}
  BY DEF QueryFails
<1> QED BY <1>1 DEF AvailInv, AnswersTrue, ToCome, Reported, Expands

\* A sequence without its first.
LEMMA Rest ==
    ASSUME NEW S, NEW s \in Seq(S), s # <<>>
    PROVE  /\ Head(s) = s[1] /\ 1 \in DOMAIN s /\ Tail(s) \in Seq(S) /\ s[1] \in S
           /\ \A i \in DOMAIN Tail(s) : i + 1 \in DOMAIN s /\ Tail(s)[i] = s[i + 1]
           /\ \A i \in DOMAIN s : i = 1 \/ (i - 1 \in DOMAIN Tail(s) /\ Tail(s)[i - 1] = s[i])
<1>1. Len(s) \in Nat \ {0} /\ DOMAIN s = 1 .. Len(s) /\ \A i \in 1 .. Len(s) : s[i] \in S
  OBVIOUS
<1>2. /\ Tail(s) \in Seq(S) /\ Len(Tail(s)) = Len(s) - 1
      /\ \A i \in 1 .. Len(Tail(s)) : Tail(s)[i] = s[i + 1]
  OBVIOUS
<1>3. DOMAIN Tail(s) = 1 .. Len(s) - 1
  BY <1>2
<1> QED BY <1>1, <1>2, <1>3

\* What one answer does to what has come back.
LEMMA QueryIs ==
    ASSUME AvailInv, Query
    PROVE  /\ todo # <<>> /\ pc \in {"asking", "again"} /\ pc' = pc /\ todo' = Tail(todo)
           /\ UNCHANGED <<google, ask, report>>
           /\ \E room \in SUBSET {c \in About(todo[1]) : google.condition[c] # "omitted"} :
                 /\ Cardinality(room) <= Batch
                 /\ Cardinality(room) = Batch
                       \/ room = {c \in About(todo[1]) : google.condition[c] # "omitted"}
                 /\ resp'.calendars = Copied(resp.calendars, Answered(todo[1], room))
                 /\ resp'.groups = Copied(resp.groups, Expanded(todo[1]))
<1>1. todo \in Seq(Seq(Addresses)) /\ todo # <<>>
  BY DEF AvailInv, ToCome, Query
<1>2. Head(todo) = todo[1]
  BY <1>1
<1> QED BY <1>1, <1>2 DEF Query

\* What Google says of a calendar it has room for, and of one it has not.
LEMMA AnsweredIs ==
    ASSUME google \in Worlds, NEW q,
           NEW room \in SUBSET {c \in About(q) : google.condition[c] # "omitted"}
    PROVE  /\ room \subseteq DOMAIN Answered(q, room) /\ DOMAIN Answered(q, room) \subseteq About(q)
           /\ \A c \in DOMAIN Answered(q, room) :
                 /\ google.condition[c] # "omitted"
                 /\ Answered(q, room)[c] = "read" => google.condition[c] = "read"
                 /\ google.condition[c] = "read" => Answered(q, room)[c] \in {"read", "too many"}
                 /\ google.condition[c] = "read" /\ c \in room => Answered(q, room)[c] = "read"
<1> DEFINE more == IF google.pastCap = "too many"
                   THEN {x \in About(q) : google.condition[x] # "omitted"} ELSE {}
<1>1. Answered(q, room) = [c \in room \union more |-> IF c \in room THEN Slot(c) ELSE "too many"]
  BY DEF Answered
<1>2. \A c \in room \union more : c \in About(q) /\ google.condition[c] # "omitted"
  OBVIOUS
<1>3. \A c \in About(q) : google.condition[c] \in Conditions
  BY Constants DEF About
<1>4. \A c \in About(q) : google.condition[c] # "omitted" => Slot(c) = google.condition[c]
  BY <1>3 DEF Slot, Conditions
<1> HIDE DEF more
<1> QED BY <1>1, <1>2, <1>4

\* An answer that is added is as true as those before it.
LEMMA AnswersStayTrue == AvailInv /\ Query => AnswersTrue'
<1> SUFFICES ASSUME AvailInv, Query PROVE AnswersTrue'
  OBVIOUS
<1>1. google' = google
  BY QueryIs
<1>2. PICK room \in SUBSET {c \in About(todo[1]) : google.condition[c] # "omitted"} :
        /\ resp'.calendars = Copied(resp.calendars, Answered(todo[1], room))
        /\ resp'.groups = Copied(resp.groups, Expanded(todo[1]))
  BY QueryIs
<1> DEFINE new == Answered(todo[1], room)
           expanded == Expanded(todo[1])
<1>3. /\ DOMAIN new \subseteq About(todo[1])
      /\ \A c \in DOMAIN new :
            /\ new[c] = "read" => google.condition[c] = "read"
            /\ google.condition[c] = "read" => new[c] \in {"read", "too many"}
  <2> DEFINE q == todo[1]
  <2>1. google \in Worlds
    BY DEF AvailInv
  <2> HIDE DEF q
  <2>2. /\ DOMAIN Answered(q, room) \subseteq About(q)
        /\ \A c \in DOMAIN Answered(q, room) :
              /\ Answered(q, room)[c] = "read" => google.condition[c] = "read"
              /\ google.condition[c] = "read" => Answered(q, room)[c] \in {"read", "too many"}
    <3>1. room \in SUBSET {c \in About(q) : google.condition[c] # "omitted"}
      BY DEF q
    <3> QED BY <2>1, <3>1, AnsweredIs
  <2> QED BY <2>2 DEF q
<1>4. About(todo[1]) \subseteq Calendars
  BY DEF About
<1>5. /\ DOMAIN expanded \subseteq Groups
      /\ \A g \in DOMAIN expanded :
            expanded[g] = IF Expands(g) THEN [error |-> FALSE, members |-> google.members[g]]
                          ELSE [error |-> TRUE, members |-> <<>>]
  BY DEF Expanded
<1> HIDE DEF new, expanded
<1>6. /\ DOMAIN resp'.calendars = DOMAIN resp.calendars \union DOMAIN new
      /\ \A c \in DOMAIN resp'.calendars :
            resp'.calendars[c] = IF c \in DOMAIN new THEN new[c] ELSE resp.calendars[c]
  BY <1>2 DEF Copied, new
<1>7. /\ DOMAIN resp'.groups = DOMAIN resp.groups \union DOMAIN expanded
      /\ \A g \in DOMAIN resp'.groups :
            resp'.groups[g] = IF g \in DOMAIN expanded THEN expanded[g] ELSE resp.groups[g]
  BY <1>2 DEF Copied, expanded
<1>8. AnswersTrue
  BY DEF AvailInv
<1>9. /\ DOMAIN resp'.calendars \subseteq Calendars
      /\ \A c \in DOMAIN resp'.calendars :
            /\ resp'.calendars[c] = "read" => google.condition[c] = "read"
            /\ google.condition[c] = "read" => resp'.calendars[c] \in {"read", "too many"}
  BY <1>3, <1>4, <1>6, <1>8 DEF AnswersTrue
<1>10. /\ DOMAIN resp'.groups \subseteq Groups
       /\ \A g \in DOMAIN resp'.groups :
             resp'.groups[g] = IF Expands(g) THEN [error |-> FALSE, members |-> google.members[g]]
                               ELSE [error |-> TRUE, members |-> <<>>]
  BY <1>5, <1>7, <1>8 DEF AnswersTrue
<1> QED BY <1>1, <1>9, <1>10 DEF AnswersTrue, Expands

\* A query of calendars that fits is answered in full.
LEMMA AllFit ==
    ASSUME NEW q \in Seq(Addresses), Len(q) <= Batch, ToSet(q) \subseteq Calendars,
           NEW room \in SUBSET {c \in About(q) : google.condition[c] # "omitted"},
           \/ Cardinality(room) = Batch
           \/ room = {c \in About(q) : google.condition[c] # "omitted"}
    PROVE  room = {c \in ToSet(q) : google.condition[c] # "omitted"}
<1> DEFINE all == {c \in ToSet(q) : google.condition[c] # "omitted"}
<1>1. About(q) = ToSet(q)
  BY Constants DEF About
<1>2. room \subseteq all
  BY <1>1
<1>3. IsFiniteSet(ToSet(q)) /\ Cardinality(ToSet(q)) <= Len(q)
  <2>1. Len(q) \in Nat /\ DOMAIN q = 1 .. Len(q)
    OBVIOUS
  <2> DEFINE f == [i \in 1 .. Len(q) |-> q[i]]
  <2>2. f \in Surjection(1 .. Len(q), ToSet(q))
    BY <2>1 DEF Surjection, ToSet
  <2>3. IsFiniteSet(1 .. Len(q)) /\ Cardinality(1 .. Len(q)) = Len(q)
    BY <2>1, FS_Interval
  <2> QED BY <2>2, <2>3, FS_Surjection
<1>4. IsFiniteSet(all) /\ Cardinality(all) <= Cardinality(ToSet(q))
  BY <1>3, FS_Subset
<1>5. Cardinality(all) \in Nat /\ Cardinality(ToSet(q)) \in Nat /\ Len(q) \in Nat
  BY <1>3, <1>4, FS_CardinalityType
<1>6. IsFiniteSet(room) /\ Cardinality(room) <= Cardinality(all) /\ Cardinality(room) \in Nat
      /\ (Cardinality(all) = Cardinality(room) => all = room)
  BY <1>2, <1>4, FS_Subset, FS_CardinalityType
<1>7. CASE Cardinality(room) = Batch
  <2>1. Cardinality(all) = Cardinality(room)
    <3>1. \A a, b, l, r \in Nat : r <= a /\ a <= b /\ b <= l /\ l <= r => a = r
      OBVIOUS
    <3>2. Cardinality(room) <= Cardinality(all) /\ Len(q) <= Cardinality(room)
      BY <1>6, <1>7
    <3> HIDE DEF all
    <3> QED BY <1>3, <1>4, <1>5, <1>6, <3>1, <3>2
  <2> QED BY <1>6, <2>1
<1>8. CASE room = {c \in About(q) : google.condition[c] # "omitted"}
  BY <1>1, <1>8
<1> QED BY <1>7, <1>8

\* What a query asked about has come, as far as there was room for it, and
\* what it did not ask about is still to come.
LEMMA ToComeAfterQuery == AvailInv /\ Query => ToCome'
<1> SUFFICES ASSUME AvailInv, Query PROVE ToCome'
  OBVIOUS
<1>1. /\ todo # <<>> /\ pc \in {"asking", "again"} /\ pc' = pc /\ todo' = Tail(todo)
      /\ google' = google /\ ask' = ask
  BY QueryIs
<1>2. todo \in Seq(Seq(Addresses)) /\ \A i \in DOMAIN todo : Len(todo[i]) <= Batch
  BY DEF AvailInv, ToCome
<1>3. /\ 1 \in DOMAIN todo /\ todo' \in Seq(Seq(Addresses)) /\ todo[1] \in Seq(Addresses)
      /\ \A i \in DOMAIN todo' : i + 1 \in DOMAIN todo /\ todo'[i] = todo[i + 1]
      /\ \A i \in DOMAIN todo : i = 1 \/ (i - 1 \in DOMAIN todo' /\ todo'[i - 1] = todo[i])
  BY <1>1, <1>2, Rest
<1>4. PICK room \in SUBSET {c \in About(todo[1]) : google.condition[c] # "omitted"} :
        /\ \/ Cardinality(room) = Batch
           \/ room = {c \in About(todo[1]) : google.condition[c] # "omitted"}
        /\ resp'.calendars = Copied(resp.calendars, Answered(todo[1], room))
        /\ resp'.groups = Copied(resp.groups, Expanded(todo[1]))
  BY QueryIs
<1>5. Ids' = Ids /\ AllHeld' = AllHeld
      /\ (\A id : Readable(id)' <=> Readable(id)) /\ (\A id : Held(id)' = Held(id))
  BY <1>1 DEF Ids, AllHeld, Held, Readable, Expands
<1>6. \A i \in DOMAIN todo' : Len(todo'[i]) <= Batch
  BY <1>2, <1>3
<1>7. \A x : Coming(x) => Coming(x)' \/ x \in ToSet(todo[1])
  BY <1>3 DEF Coming
<1>8. DOMAIN resp'.groups = DOMAIN resp.groups \union (Groups \intersect ToSet(todo[1]))
  BY <1>4 DEF Copied, Expanded
<1>9. pc = "asking" => \A g \in ToSet(Ids) \intersect Groups : g \in DOMAIN resp'.groups \/ Coming(g)'
  BY <1>7, <1>8 DEF AvailInv, ToCome
<1>10. pc = "again" => ToSet(Ids) \intersect Groups \subseteq DOMAIN resp'.groups
  BY <1>8 DEF AvailInv, ToCome
<1>11. ASSUME pc = "again"
       PROVE  /\ \A i \in DOMAIN todo' : ToSet(todo'[i]) \subseteq Calendars
              /\ Bounded => \A id \in ToSet(Ids) : Readable(id) =>
                                \A c \in Held(id) : InHand(c)' \/ Coming(c)'
  <2>1. \A i \in DOMAIN todo : ToSet(todo[i]) \subseteq Calendars
    BY <1>11 DEF AvailInv, ToCome
  <2>2. room = {c \in ToSet(todo[1]) : google.condition[c] # "omitted"}
    BY <1>2, <1>3, <1>4, <2>1, AllFit
  <2> DEFINE new == Answered(todo[1], room)
  <2>3. /\ room \subseteq DOMAIN new /\ DOMAIN new \subseteq About(todo[1])
        /\ \A c \in DOMAIN new : /\ google.condition[c] # "omitted"
                                 /\ google.condition[c] = "read" /\ c \in room => new[c] = "read"
    <3>1. google \in Worlds
      BY DEF AvailInv
    <3>2. /\ room \subseteq DOMAIN new /\ DOMAIN new \subseteq About(todo[1])
          /\ \A c \in DOMAIN new :
                /\ google.condition[c] # "omitted"
                /\ new[c] = "read" => google.condition[c] = "read"
                /\ google.condition[c] = "read" => new[c] \in {"read", "too many"}
                /\ google.condition[c] = "read" /\ c \in room => new[c] = "read"
      BY <3>1, AnsweredIs
    <3> HIDE DEF new
    <3> QED BY <3>2
  <2>4. About(todo[1]) = ToSet(todo[1])
    BY <1>3, <2>1, Constants DEF About
  <2>5. \A c \in DOMAIN new : c \in room
    BY <2>2, <2>3, <2>4
  <2> HIDE DEF new
  <2>6. \A c : InHand(c) /\ google.condition[c] = "read" => InHand(c)'
    <3>1. resp'.calendars = Copied(resp.calendars, new)
      BY <1>4 DEF new
    <3> QED BY <2>3, <2>5, <3>1 DEF InHand, Copied
  <2>7. \A c \in ToSet(todo[1]) : google.condition[c] = "read" => InHand(c)'
    <3>1. resp'.calendars = Copied(resp.calendars, new)
      BY <1>4 DEF new
    <3>2. \A c \in ToSet(todo[1]) :
           google.condition[c] = "read" => c \in room /\ c \in DOMAIN new /\ new[c] = "read"
      BY <2>2, <2>3
    <3> QED BY <3>1, <3>2 DEF InHand, Copied
  <2>8. \A id : Readable(id) => \A c \in Held(id) : google.condition[c] = "read"
    BY DEF Readable
  <2>9. Bounded => \A id \in ToSet(Ids) : Readable(id) => \A c \in Held(id) : InHand(c) \/ Coming(c)
    BY <1>11 DEF AvailInv, ToCome
  <2>10. ASSUME Bounded, NEW id \in ToSet(Ids), Readable(id), NEW c \in Held(id)
         PROVE  InHand(c)' \/ Coming(c)'
    BY <1>7, <2>6, <2>7, <2>8, <2>9, <2>10
  <2>11. \A i \in DOMAIN todo' : ToSet(todo'[i]) \subseteq Calendars
    BY <1>3, <2>1
  <2> QED BY <2>10, <2>11
<1>12. Bounded' <=> Bounded
  BY <1>5 DEF Bounded
<1>13. pc' = "again" =>
          /\ \A i \in DOMAIN todo' : ToSet(todo'[i]) \subseteq Calendars
          /\ Bounded' => \A id \in ToSet(Ids') : Readable(id)' =>
                            \A c \in Held(id)' : InHand(c)' \/ Coming(c)'
  BY <1>1, <1>5, <1>11, <1>12
<1> QED BY <1>1, <1>3, <1>5, <1>6, <1>9, <1>10, <1>13 DEF ToCome

\* One query answered.
LEMMA QueryKeeps == AvailInv /\ Query => AvailInv'
<1> SUFFICES ASSUME AvailInv, Query PROVE AvailInv'
  OBVIOUS
<1>1. pc \in {"asking", "again"} /\ pc' = pc /\ google' = google /\ ask' = ask
  BY QueryIs
<1>2. Reported'
  BY <1>1 DEF Reported
<1> QED BY <1>1, <1>2, AnswersStayTrue, ToComeAfterQuery DEF AvailInv

\* Once every query was answered, a group is known as one and a calendar is not.
LEMMA PartsAre ==
    ASSUME AvailInv, ToSet(Ids) \intersect Groups \subseteq DOMAIN resp.groups,
           NEW id \in ToSet(Ids), ToSet(Ids) \subseteq Addresses
    PROVE  /\ Parts(id) \in Seq(Calendars)
           /\ IsGroup(id) <=> id \in Groups
           /\ id \notin Groups => id \in Calendars
           /\ ToSet(Parts(id)) \subseteq Held(id)
           /\ Readable(id) => ToSet(Parts(id)) = Held(id)
<1>1. AnswersTrue /\ google \in Worlds
  BY DEF AvailInv
<1>2. id \in Calendars \/ id \in Groups
  BY DEF Addresses
<1>3. CASE id \in Groups
  <2>1. IsGroup(id) /\ id \notin Calendars
    BY <1>1, <1>3, Constants DEF IsGroup, AnswersTrue
  <2>2. Parts(id) = IF Expands(id) THEN google.members[id] ELSE <<>>
    <3>1. id \in DOMAIN resp.groups
      BY <2>1 DEF IsGroup
    <3>2. resp.groups[id] = IF Expands(id) THEN [error |-> FALSE, members |-> google.members[id]]
                            ELSE [error |-> TRUE, members |-> <<>>]
      BY <1>1, <3>1 DEF AnswersTrue
    <3>3. Parts(id) = resp.groups[id].members
      BY <2>1 DEF Parts
    <3> QED BY <3>2, <3>3
  <2>3. google.members[id] \in Seq(Calendars) /\ <<>> \in Seq(Calendars) /\ ToSet(<<>>) = {}
    <3>1. google.members[id] \in Seq(Calendars)
      <4>1. google.members \in [Groups -> Seq(Calendars)]
        BY <1>1, Constants
      <4> QED BY <1>3, <4>1
    <3> QED BY <3>1 DEF ToSet
  <2>4. Held(id) = ToSet(google.members[id])
    BY <1>3 DEF Held
  <2> QED BY <1>3, <2>1, <2>2, <2>3, <2>4 DEF Readable
<1>4. CASE id \notin Groups
  <2>1. ~IsGroup(id)
    BY <1>1, <1>4 DEF IsGroup, AnswersTrue
  <2>2. Parts(id) = <<id>> /\ Held(id) = {id} /\ id \in Calendars
    BY <1>2, <1>4, <2>1 DEF Parts, Held
  <2>3. ToSet(<<id>>) = {id} /\ <<id>> \in Seq(Calendars)
    BY <2>2 DEF ToSet
  <2> QED BY <1>4, <2>1, <2>2, <2>3
<1> QED BY <1>3, <1>4

\* What is asked about again: what is lacking, each once.
LEMMA UnansweredAre ==
    ASSUME AvailInv, ToSet(Ids) \intersect Groups \subseteq DOMAIN resp.groups,
           Ids \in Seq(Addresses)
    PROVE  /\ Unanswered \in Seq(Calendars)
           /\ ToSet(Unanswered) = {c \in UNION {ToSet(Parts(id)) : id \in ToSet(Ids)} : Lacking(c)}
           /\ \A i, j \in DOMAIN Unanswered : Unanswered[i] = Unanswered[j] => i = j
<1> DEFINE parts == [n \in DOMAIN Ids |-> Parts(Ids[n])]
           asked == FlattenSeq(parts)
           places == {i \in Firsts(asked) : Lacking(asked[i])}
<1>1. ToSet(Ids) \subseteq Addresses /\ DOMAIN Ids = 1 .. Len(Ids) /\ Len(Ids) \in Nat
      /\ \A n \in DOMAIN Ids : Ids[n] \in ToSet(Ids)
  BY DEF ToSet
<1>2. \A n \in DOMAIN Ids : Parts(Ids[n]) \in Seq(Calendars)
  BY <1>1, PartsAre
<1>3. parts \in Seq(Seq(Calendars))
  BY <1>1, <1>2
<1>4. {ToSet(parts[n]) : n \in DOMAIN parts} = {ToSet(Parts(id)) : id \in ToSet(Ids)}
  <2>1. DOMAIN parts = DOMAIN Ids /\ \A n \in DOMAIN Ids : parts[n] = Parts(Ids[n])
    OBVIOUS
  <2>2. \A id \in ToSet(Ids) : \E n \in DOMAIN Ids : id = Ids[n]
    BY DEF ToSet
  <2> HIDE DEF parts
  <2> QED BY <1>1, <2>1, <2>2
<1> HIDE DEF parts
<1>5. asked \in Seq(Calendars) /\ ToSet(asked) = UNION {ToSet(Parts(id)) : id \in ToSet(Ids)}
  BY <1>3, <1>4, FlattenedAre
<1>6. Unanswered = Picked(asked, places)
  BY DEF Unanswered, parts
<1> HIDE DEF asked
<1>7. /\ Firsts(asked) \subseteq DOMAIN asked
      /\ \A i, j \in Firsts(asked) : asked[i] = asked[j] => i = j
      /\ \A k \in DOMAIN asked : \E i \in Firsts(asked) : asked[i] = asked[k]
  BY <1>5, FirstsAre
<1>8. places \in SUBSET DOMAIN asked /\ \A i, j \in places : asked[i] = asked[j] => i = j
  BY <1>7
<1> HIDE DEF places
<1>9. /\ Unanswered \in Seq(Calendars) /\ ToSet(Unanswered) = {asked[i] : i \in places}
      /\ \A i, j \in DOMAIN Unanswered : Unanswered[i] = Unanswered[j] => i = j
  BY <1>5, <1>6, <1>8, PickedAre
<1>10. {asked[i] : i \in places} = {c \in ToSet(asked) : Lacking(c)}
  BY <1>7 DEF places, ToSet
<1> QED BY <1>5, <1>9, <1>10

\* A sequence has finitely many elements.
LEMMA SeqFinite ==
    ASSUME NEW S, NEW t \in Seq(S)
    PROVE  IsFiniteSet(ToSet(t))
<1>1. Len(t) \in Nat /\ DOMAIN t = 1 .. Len(t)
  OBVIOUS
<1> DEFINE f == [i \in 1 .. Len(t) |-> t[i]]
<1>2. f \in Surjection(1 .. Len(t), ToSet(t))
  BY <1>1 DEF Surjection, ToSet
<1> QED BY <1>1, <1>2, FS_Interval, FS_Surjection

\* A value for each element of a sequence is finitely many values.
LEMMA ImageFinite ==
    ASSUME NEW S, NEW t \in Seq(S), NEW h
    PROVE  IsFiniteSet({h[x] : x \in ToSet(t)})
<1>1. Len(t) \in Nat /\ DOMAIN t = 1 .. Len(t)
  OBVIOUS
<1> DEFINE f == [i \in 1 .. Len(t) |-> h[t[i]]]
           H == {h[x] : x \in ToSet(t)}
<1>2. f \in Surjection(1 .. Len(t), H)
  BY <1>1 DEF Surjection, ToSet
<1> HIDE DEF f, H
<1>3. IsFiniteSet(H)
  BY <1>1, <1>2, FS_Interval, FS_Surjection
<1> QED BY <1>3 DEF H

\* All that Google holds of the ids asked about is finitely many calendars.
LEMMA AllHeldFinite ==
    ASSUME google \in Worlds, Ids \in Seq(Addresses)
    PROVE  IsFiniteSet(AllHeld)
<1> DEFINE held == [id \in ToSet(Ids) |-> Held(id)]
           H == {held[id] : id \in ToSet(Ids)}
<1>1. \A id \in ToSet(Ids) : IsFiniteSet(Held(id))
  <2> TAKE id \in ToSet(Ids)
  <2>1. CASE id \in Groups
    <3>1. google.members[id] \in Seq(Calendars)
      BY <2>1, Constants
    <3> QED BY <2>1, <3>1, SeqFinite DEF Held
  <2>2. CASE id \notin Groups
    BY <2>2, FS_Singleton DEF Held
  <2> QED BY <2>1, <2>2
<1>2. \A T \in H : IsFiniteSet(T)
  BY <1>1
<1>3. AllHeld = UNION H
  BY DEF AllHeld
<1> HIDE DEF held
<1>4. IsFiniteSet(H)
  BY ImageFinite
<1> HIDE DEF H
<1> QED BY <1>2, <1>3, <1>4, FS_UNION

\* As many are asked about again as are held, at most.
LEMMA FewEnough ==
    ASSUME AvailInv, NEW s \in Seq(Calendars), ToSet(s) \subseteq AllHeld, Bounded,
           Ids \in Seq(Addresses), \A i, j \in DOMAIN s : s[i] = s[j] => i = j
    PROVE  Len(s) <= MaxAskedAgain
<1>1. Len(s) \in Nat /\ DOMAIN s = 1 .. Len(s)
  OBVIOUS
<1>4. IsFiniteSet(AllHeld)
  BY AllHeldFinite DEF AvailInv
<1>5. [i \in 1 .. Len(s) |-> s[i]] \in Injection(1 .. Len(s), AllHeld)
  BY <1>1 DEF Injection, IsInjective, ToSet
<1>6. Cardinality(1 .. Len(s)) <= Cardinality(AllHeld)
  BY <1>4, <1>5, FS_Injection
<1>7. Cardinality(1 .. Len(s)) = Len(s)
  <2>1. \A n \in Nat : (IF 1 > n THEN 0 ELSE n - 1 + 1) = n
    OBVIOUS
  <2>2. \A n \in Int : Cardinality(1 .. n) = IF 1 > n THEN 0 ELSE n - 1 + 1
    BY FS_Interval
  <2> QED BY <1>1, <2>1, <2>2
<1>8. Cardinality(AllHeld) \in Nat
  BY <1>4, FS_CardinalityType
<1>9. MaxAskedAgain \in Nat /\ Cardinality(AllHeld) <= MaxAskedAgain
  BY Constants DEF Bounded
<1>10. \A a, b, c \in Nat : a <= b /\ b <= c => a <= c
  OBVIOUS
<1> QED BY <1>1, <1>6, <1>7, <1>8, <1>9, <1>10

\* Asking again puts what lacks an answer among what is to come.
LEMMA AskAgainKeeps == AvailInv /\ AskAgain => AvailInv'
<1> SUFFICES ASSUME AvailInv, AskAgain PROVE AvailInv'
  OBVIOUS
<1> DEFINE m == IF Len(Unanswered) < MaxAskedAgain THEN Len(Unanswered) ELSE MaxAskedAgain
           again == SubSeq(Unanswered, 1, m)
<1>1. /\ pc = "asking" /\ todo = <<>> /\ pc' = "again" /\ todo' = Chunks(again)
      /\ UNCHANGED <<google, ask, resp, report>>
  BY DEF AskAgain
<1>2. "untitled" \notin ToSet(ask.refs) /\ ask \in Asks /\ ToCome /\ AnswersTrue
  BY <1>1 DEF AvailInv
<1>3. Ids \in Seq(Addresses)
  BY <1>2, IdsAre
<1>4. ToSet(Ids) \intersect Groups \subseteq DOMAIN resp.groups
  BY <1>1, <1>2 DEF ToCome, Coming
<1>5. /\ Unanswered \in Seq(Calendars)
      /\ ToSet(Unanswered) = {c \in UNION {ToSet(Parts(id)) : id \in ToSet(Ids)} : Lacking(c)}
      /\ \A i, j \in DOMAIN Unanswered : Unanswered[i] = Unanswered[j] => i = j
  BY <1>3, <1>4, UnansweredAre
<1>6. Len(Unanswered) \in Nat /\ DOMAIN Unanswered = 1 .. Len(Unanswered) /\ MaxAskedAgain \in Nat
  <2>1. MaxAskedAgain \in Nat
    BY Constants
  <2>2. \A S : \A s \in Seq(S) : Len(s) \in Nat /\ DOMAIN s = 1 .. Len(s)
    OBVIOUS
  <2> QED BY <1>5, <2>1, <2>2
<1>7. m \in Nat /\ m <= Len(Unanswered)
  BY <1>6
<1>8. again \in Seq(Calendars) /\ Len(again) = m /\ \A i \in 1 .. m : again[i] = Unanswered[i]
  <2>1. \A i \in 1 .. m : Unanswered[i] \in Calendars /\ 1 + i - 1 = i
    BY <1>5, <1>6, <1>7
  <2> HIDE DEF m
  <2> DEFINE u == Unanswered
  <2> HIDE DEF u
  <2>2. /\ SubSeq(u, 1, m) \in Seq(Calendars)
        /\ Len(SubSeq(u, 1, m)) = IF 1 <= m THEN m - 1 + 1 ELSE 0
        /\ \A i \in 1 .. m - 1 + 1 : SubSeq(u, 1, m)[i] = u[1 + i - 1]
    <3>1. 1 \in Int /\ m \in Int /\ \A i \in 1 .. m : u[i] \in Calendars
      BY <1>7, <2>1 DEF u
    <3> QED BY <3>1, SubSeqProperties
  <2>3. m - 1 + 1 = m /\ (~(1 <= m) => m = 0)
    BY <1>7
  <2> QED BY <2>1, <2>2, <2>3 DEF u
<1> HIDE DEF again
<1>9. /\ todo' \in Seq(Seq(Calendars))
      /\ \A i \in DOMAIN todo' : Len(todo'[i]) <= Batch /\ ToSet(todo'[i]) \subseteq Calendars
      /\ \A x \in ToSet(again) : \E i \in DOMAIN todo' : x \in ToSet(todo'[i])
  <2>1. ToSet(again) \subseteq Calendars
    BY <1>8 DEF ToSet
  <2> QED BY <1>1, <1>8, <2>1, ChunksAre
<1>10. todo' \in Seq(Seq(Addresses))
  <2>1. \A i \in DOMAIN todo' : todo'[i] \in Seq(Addresses)
    <3> TAKE i \in DOMAIN todo'
    <3>1. todo'[i] \in Seq(Calendars)
      BY <1>9
    <3> QED BY <3>1 DEF Addresses
  <2> QED BY <1>9, <2>1
<1>11. /\ Ids' = Ids /\ AllHeld' = AllHeld
       /\ (\A id : Readable(id)' <=> Readable(id)) /\ (\A id : Held(id)' = Held(id))
       /\ (\A c : InHand(c)' <=> InHand(c))
  BY <1>1 DEF Ids, AllHeld, Held, Readable, Expands, InHand
<1>12. ToSet(Ids) \subseteq Addresses
  BY <1>3 DEF ToSet
<1>13. ASSUME Bounded, NEW id \in ToSet(Ids), Readable(id), NEW c \in Held(id)
       PROVE  InHand(c) \/ Coming(c)'
  <2>1. ToSet(Unanswered) \subseteq AllHeld
    <3>1. \A x \in ToSet(Ids) : ToSet(Parts(x)) \subseteq Held(x)
      BY <1>4, <1>12, PartsAre
    <3> QED BY <1>5, <3>1 DEF AllHeld
  <2>2. Len(Unanswered) <= MaxAskedAgain
    BY <1>3, <1>5, <1>13, <2>1, FewEnough
  <2>3. m = Len(Unanswered)
    <3>1. \A a, b \in Nat : a <= b => (IF a < b THEN a ELSE b) = a
      OBVIOUS
    <3> QED BY <1>6, <2>2, <3>1
  <2>4. ToSet(again) = ToSet(Unanswered)
    <3>1. DOMAIN again = 1 .. m
      BY <1>8
    <3> HIDE DEF m
    <3> QED BY <1>6, <1>8, <2>3, <3>1 DEF ToSet
  <2>5. c \in ToSet(Parts(id))
    BY <1>4, <1>12, <1>13, PartsAre
  <2>6. CASE Lacking(c)
    <3>1. c \in ToSet(again)
      BY <1>5, <2>4, <2>5, <2>6
    <3> QED BY <1>9, <3>1 DEF Coming
  <2>7. CASE ~Lacking(c)
    <3>1. c \in DOMAIN resp.calendars /\ resp.calendars[c] # "too many"
      BY <2>7 DEF Lacking, PastCap
    <3>2. google.condition[c] = "read"
      BY <1>13 DEF Readable
    <3> QED BY <1>2, <3>1, <3>2 DEF AnswersTrue, InHand
  <2> QED BY <2>6, <2>7
<1>14. Bounded' <=> Bounded
  BY <1>11 DEF Bounded
<1>15. ToCome'
  BY <1>1, <1>4, <1>9, <1>10, <1>11, <1>13, <1>14 DEF ToCome
<1> QED BY <1>1, <1>2, <1>15 DEF AvailInv, AnswersTrue, Reported, Expands

\* Everybody who could be read was: at once, or when asked again.
LEMMA ReportKeeps == AvailInv /\ Report => AvailInv'
<1> SUFFICES ASSUME AvailInv, Report PROVE AvailInv'
  OBVIOUS
<1>1. /\ todo = <<>> /\ pc' = "answered" /\ report' = [id \in ToSet(Ids) |-> AnswerFor(id)]
      /\ pc = "again" \/ (pc = "asking" /\ Unanswered = <<>>)
      /\ UNCHANGED <<google, ask, todo, resp>>
  BY DEF Report
<1>2. "untitled" \notin ToSet(ask.refs) /\ ask \in Asks /\ ToCome /\ AnswersTrue
  BY <1>1 DEF AvailInv
<1>3. Ids \in Seq(Addresses)
  BY <1>2, IdsAre
<1>4. ToSet(Ids) \intersect Groups \subseteq DOMAIN resp.groups
  BY <1>1, <1>2 DEF ToCome, Coming
<1>5. /\ Ids' = Ids /\ AllHeld' = AllHeld
      /\ (\A id : Readable(id)' <=> Readable(id)) /\ (\A id : Held(id)' = Held(id))
      /\ (\A c : InHand(c)' <=> InHand(c)) /\ (Bounded' <=> Bounded)
      /\ \A id : AnswerFor(id)' = AnswerFor(id)
  BY <1>1 DEF Ids, AllHeld, Held, Readable, Expands, InHand, Bounded, AnswerFor, IsGroup,
              GroupAnswer, CalendarAnswer
<1>6. ToSet(Ids) \subseteq Addresses
  BY <1>3 DEF ToSet
<1>7. ASSUME Bounded, NEW id \in ToSet(Ids), Readable(id), NEW c \in Held(id)
      PROVE  InHand(c)
  <2>1. CASE pc = "again"
    BY <1>1, <1>2, <1>7, <2>1 DEF ToCome, Coming
  <2>2. CASE pc = "asking"
    <3>1. ToSet(Unanswered) = {}
      BY <1>1, <2>2 DEF ToSet
    <3>2. c \in ToSet(Parts(id))
      BY <1>4, <1>6, <1>7, PartsAre
    <3>3. ~Lacking(c)
      BY <1>3, <1>4, <3>1, <3>2, UnansweredAre
    <3>4. c \in DOMAIN resp.calendars /\ resp.calendars[c] # "too many"
      BY <3>3 DEF Lacking, PastCap
    <3>5. google.condition[c] = "read"
      BY <1>7 DEF Readable
    <3> QED BY <1>2, <3>4, <3>5 DEF AnswersTrue, InHand
  <2> QED BY <1>1, <2>1, <2>2
<1>8. Reported'
  BY <1>1, <1>5, <1>7 DEF Reported
<1>9. ToCome'
  BY <1>1, <1>2, <1>4, <1>5 DEF ToCome
<1> QED BY <1>1, <1>2, <1>8, <1>9 DEF AvailInv, AnswersTrue, Expands

-----------------------------------------------------------------------------
(* Sorting and merging periods.                                            *)

\* Periods are put in one order.
LEMMA OneOrder ==
    /\ \A x, y \in Interval : x = y \/ Before(x, y) \/ Before(y, x)
    /\ \A x, y \in Interval : ~(Before(x, y) /\ Before(y, x)) /\ ~Before(x, x)
    /\ \A x, y, z \in Interval : Before(x, y) /\ Before(y, z) => Before(x, z)
    /\ \A x, y \in Interval : Before(x, y) => x.from <= y.from
<1>1. \A x \in Interval : x.from \in Int /\ x.to \in Int /\ x = [from |-> x.from, to |-> x.to]
  BY DEF Interval
<1>2. \A x, y \in Interval : x.from = y.from /\ x.to = y.to => x = y
  BY <1>1
<1>3. \A x, y \in Interval : x = y \/ Before(x, y) \/ Before(y, x)
  BY <1>1, <1>2 DEF Before
<1> QED BY <1>1, <1>3 DEF Before

Earlier(S, x) == {y \in S : Before(y, x)}

\* Each period has as many before it as its place says.
LEMMA Placed ==
    ASSUME NEW S \in SUBSET Interval, IsFiniteSet(S)
    PROVE  /\ Cardinality(S) \in Nat
           /\ \A x \in S : Cardinality(Earlier(S, x)) \in 0 .. Cardinality(S) - 1
           /\ \A x, y \in S : Before(x, y) => Cardinality(Earlier(S, x)) < Cardinality(Earlier(S, y))
<1>1. Cardinality(S) \in Nat
  BY FS_CardinalityType
<1>2. \A x \in S : IsFiniteSet(Earlier(S, x)) /\ Cardinality(Earlier(S, x)) \in Nat
  <2> TAKE x \in S
  <2>1. Earlier(S, x) \in SUBSET S
    BY DEF Earlier
  <2>2. IsFiniteSet(Earlier(S, x))
    BY <2>1, FS_Subset
  <2> QED BY <2>2, FS_CardinalityType
<1>3. \A x \in S : Cardinality(Earlier(S, x)) <= Cardinality(S) - 1
  <2> TAKE x \in S
  <2>1. Earlier(S, x) \in SUBSET (S \ {x})
    BY OneOrder DEF Earlier
  <2>2. IsFiniteSet(S \ {x}) /\ Cardinality(S \ {x}) = Cardinality(S) - 1
    BY FS_RemoveElement
  <2>3. Cardinality(Earlier(S, x)) <= Cardinality(S \ {x})
    BY <2>1, <2>2, FS_Subset
  <2> QED BY <2>2, <2>3
<1>4. ASSUME NEW x \in S, NEW y \in S, Before(x, y)
      PROVE  Cardinality(Earlier(S, x)) < Cardinality(Earlier(S, y))
  <2> DEFINE P == Earlier(S, x)
             Q == Earlier(S, y)
  <2>1. P \in SUBSET Q
    BY <1>4, OneOrder DEF Earlier
  <2>2. x \in Q /\ x \notin P
    BY <1>4, OneOrder DEF Earlier
  <2>3. IsFiniteSet(Q) /\ Cardinality(P) \in Nat /\ Cardinality(Q) \in Nat
    BY <1>2
  <2> HIDE DEF P, Q
  <2>4. Cardinality(P) <= Cardinality(Q) /\ (Cardinality(Q) = Cardinality(P) => Q = P)
    BY <2>1, <2>3, FS_Subset
  <2>5. Cardinality(Q) # Cardinality(P)
    BY <2>2, <2>4
  <2>6. Cardinality(P) < Cardinality(Q)
    BY <2>3, <2>4, <2>5
  <2> QED BY <2>6 DEF P, Q
<1>5. \A a, b \in Nat : a <= b - 1 => a \in 0 .. b - 1
  OBVIOUS
<1> QED BY <1>1, <1>2, <1>3, <1>4, <1>5

\* ByStart is S in order.
LEMMA ByStartIs ==
    ASSUME NEW S \in SUBSET Interval, IsFiniteSet(S)
    PROVE  /\ ByStart(S) \in Seq(Interval) /\ ToSet(ByStart(S)) = S
           /\ \A i, j \in DOMAIN ByStart(S) : i < j => ByStart(S)[i].from <= ByStart(S)[j].from
           /\ \A i, j \in DOMAIN ByStart(S) : ByStart(S)[i] = ByStart(S)[j] => i = j
<1> DEFINE n == Cardinality(S)
           place(x) == Cardinality(Earlier(S, x))
           f == [x \in S |-> place(x)]
           s == ByStart(S)
<1>1. n \in Nat /\ \A x \in S : place(x) \in 0 .. n - 1
  BY Placed
<1>2. \A x, y \in S : Before(x, y) => place(x) < place(y)
  BY Placed
<1>3. s = [i \in 1 .. n |-> CHOOSE x \in S : place(x) = i - 1]
  BY DEF ByStart, Earlier
<1>4. \A k \in 0 .. n - 1 : \E x \in S : place(x) = k
  <2>1. f \in [S -> 0 .. n - 1] /\ \A x \in S : f[x] = place(x)
    BY <1>1
  <2>2. \A x, y \in S : place(x) = place(y) => x = y
    <3>1. \A x, y \in S : x = y \/ Before(x, y) \/ Before(y, x)
      BY OneOrder
    <3>2. \A x \in S : place(x) \in Int
      BY <1>1
    <3> HIDE DEF place
    <3>3. \A a, b \in Int : a < b => a # b
      OBVIOUS
    <3> QED BY <1>2, <3>1, <3>2, <3>3
  <2> HIDE DEF f, place
  <2>3. f \in Injection(S, 0 .. n - 1)
    BY <2>1, <2>2 DEF Injection, IsInjective
  <2>4. IsFiniteSet(0 .. n - 1) /\ Cardinality(0 .. n - 1) = n
    <3>1. \A m \in Int : IsFiniteSet(0 .. m) /\ Cardinality(0 .. m) = IF 0 > m THEN 0 ELSE m - 0 + 1
      BY FS_Interval
    <3>2. \A m \in Nat : m - 1 \in Int /\ (IF 0 > m - 1 THEN 0 ELSE (m - 1) - 0 + 1) = m
      OBVIOUS
    <3> HIDE DEF n
    <3> QED BY <1>1, <3>1, <3>2
  <2>5. f \in Surjection(S, 0 .. n - 1)
    BY <2>3, <2>4, FS_Injection
  <2> QED BY <2>1, <2>5 DEF Surjection
<1> HIDE DEF place, s, n
<1>5. \A i \in 1 .. n : s[i] \in S /\ place(s[i]) = i - 1
  <2> TAKE i \in 1 .. n
  <2>1. i - 1 \in 0 .. n - 1
    BY <1>1
  <2> QED BY <1>3, <1>4, <2>1
<1>6. s \in [1 .. n -> S] /\ DOMAIN s = 1 .. n
  BY <1>3, <1>5
<1>7. s \in Seq(Interval)
  <2>1. s \in [1 .. n -> Interval]
    BY <1>6
  <2> QED BY <1>1, <2>1
<1>8. \A x \in S : \E i \in 1 .. n : s[i] = x
  <2> TAKE x \in S
  <2>1. place(x) \in 0 .. n - 1
    BY <1>1
  <2>2. place(x) + 1 \in 1 .. n /\ (place(x) + 1) - 1 = place(x)
    BY <1>1, <2>1
  <2>3. s[place(x) + 1] \in S /\ place(s[place(x) + 1]) = place(x)
    BY <1>5, <2>2
  <2>4. \A y \in S : place(y) = place(x) => y = x
    <3>1. \A y \in S : x = y \/ Before(x, y) \/ Before(y, x)
      BY OneOrder
    <3>2. \A y \in S : place(y) \in Int
      BY <1>1
    <3> QED BY <1>2, <3>1, <3>2
  <2> QED BY <2>2, <2>3, <2>4
<1>9. \A i, j \in 1 .. n : i < j => s[i].from <= s[j].from
  <2> SUFFICES ASSUME NEW i \in 1 .. n, NEW j \in 1 .. n, i < j PROVE s[i].from <= s[j].from
    OBVIOUS
  <2>1. s[i] \in S /\ s[j] \in S /\ place(s[i]) = i - 1 /\ place(s[j]) = j - 1
    BY <1>5
  <2>2. ~Before(s[j], s[i]) /\ s[i] # s[j]
    BY <1>1, <1>2, <2>1
  <2>3. s[i] \in Interval /\ s[j] \in Interval
    BY <2>1
  <2> QED BY <2>2, <2>3, OneOrder
<1>10. \A i, j \in 1 .. n : s[i] = s[j] => i = j
  <2>1. \A i, j \in 1 .. n : i - 1 = j - 1 => i = j
    BY <1>1
  <2> QED BY <1>5, <2>1
<1> QED BY <1>6, <1>7, <1>8, <1>9, <1>10 DEF s, ToSet

\* The instants of some periods.
Within(b, t) == b.from <= t /\ t < b.to
Reach(S, t) == \E b \in S : Within(b, t)

\* The front of a sequence is all of it but its last.
LEMMA FrontIs ==
    ASSUME NEW S, NEW s \in Seq(S), s # <<>>
    PROVE  /\ Front(s) \in Seq(S) /\ Len(Front(s)) = Len(s) - 1
           /\ \A i \in 1 .. Len(s) - 1 : Front(s)[i] = s[i]
<1> DEFINE n == Len(s) - 1
<1>1. Len(s) \in Nat \ {0} /\ \A i \in 1 .. Len(s) : s[i] \in S
  OBVIOUS
<1>2. n \in Nat /\ (IF 1 <= n THEN n - 1 + 1 ELSE 0) = n /\ n - 1 + 1 = n
  <2>1. \A k \in Nat : (IF 1 <= k THEN k - 1 + 1 ELSE 0) = k /\ k - 1 + 1 = k
    OBVIOUS
  <2>2. n \in Nat
    BY <1>1
  <2> HIDE DEF n
  <2> QED BY <2>1, <2>2
<1>3. \A i \in 1 .. n : 1 + i - 1 = i /\ s[i] \in S
  BY <1>1
<1>4. Front(s) = SubSeq(s, 1, n)
  BY DEF Front
<1> HIDE DEF n
<1>5. /\ SubSeq(s, 1, n) \in Seq(S) /\ Len(SubSeq(s, 1, n)) = (IF 1 <= n THEN n - 1 + 1 ELSE 0)
      /\ \A i \in 1 .. n - 1 + 1 : SubSeq(s, 1, n)[i] = s[1 + i - 1]
  BY <1>2, <1>3, SubSeqProperties
<1> QED BY <1>2, <1>3, <1>4, <1>5 DEF n

\* A sequence ends in its last, and what is before it is its front.
LEMMA FrontAndLast ==
    ASSUME NEW S, NEW s \in Seq(S), s # <<>>
    PROVE  /\ Last(s) \in S /\ Front(s) \in Seq(S) /\ Last(s) \in ToSet(s)
           /\ ToSet(s) = ToSet(Front(s)) \union {Last(s)}
<1> DEFINE m == Len(s)
           f == Front(s)
<1>1. m \in Nat \ {0} /\ DOMAIN s = 1 .. m /\ \A i \in 1 .. m : s[i] \in S
  OBVIOUS
<1>2. Last(s) = s[m] /\ m \in 1 .. m
  BY <1>1 DEF Last
<1>3. f \in Seq(S) /\ Len(f) = m - 1 /\ \A i \in 1 .. m - 1 : f[i] = s[i]
  BY FrontIs
<1>4. DOMAIN f = 1 .. m - 1
  BY <1>1, <1>3
<1>5. 1 .. m = (1 .. m - 1) \union {m}
  BY <1>1
<1> HIDE DEF m, f
<1>6. ToSet(s) = ToSet(f) \union {s[m]}
  BY <1>1, <1>3, <1>4, <1>5 DEF ToSet
<1> QED BY <1>1, <1>2, <1>3, <1>6 DEF f

\* A period that does not begin before the last one is joined to it when the
\* two touch, and no instant is gained or lost.
LEMMA Joined ==
    ASSUME NEW out \in Seq(Interval), NEW b \in Interval
    PROVE  /\ Join(out, b) \in Seq(Interval) /\ Join(out, b) # <<>>
           /\ (out # <<>> => Last(out).from <= b.from) =>
                 /\ Last(Join(out, b)).from <= b.from
                 /\ \A t \in Int : Reach(ToSet(Join(out, b)), t) <=> Reach(ToSet(out), t) \/ Within(b, t)
<1>1. b.from \in Int /\ b.to \in Int
  BY DEF Interval
<1>2. CASE ~(out # <<>> /\ b.from <= Last(out).to)
  <2>1. Join(out, b) = Append(out, b)
    BY <1>2 DEF Join
  <2> QED BY <1>1, <2>1, Appended DEF Reach
<1>3. CASE out # <<>> /\ b.from <= Last(out).to
  <2> DEFINE last == Last(out)
             rest == ToSet(Front(out))
             more == [last EXCEPT !.to = b.to]
  <2>1. /\ last \in Interval /\ Front(out) \in Seq(Interval)
        /\ ToSet(out) = rest \union {last}
    BY <1>3, FrontAndLast
  <2>2. last.from \in Int /\ last.to \in Int /\ b.from <= last.to
    BY <1>3, <2>1 DEF Interval
  <2>3. more \in Interval /\ more.from = last.from /\ more.to = b.to
    BY <1>1, <2>1 DEF Interval
  <2>4. CASE b.to > last.to
    <3>1. Join(out, b) = Append(Front(out), more)
      BY <1>3, <2>4 DEF Join
    <3>2. Last(out) = last
      OBVIOUS
    <3> HIDE DEF more, rest, last
    <3>3. /\ Join(out, b) \in Seq(Interval) /\ Join(out, b) # <<>> /\ Last(Join(out, b)) = more
          /\ ToSet(Join(out, b)) = rest \union {more}
      BY <2>1, <2>3, <3>1, Appended DEF rest
    <3>4. last.from <= b.from => \A t \in Int : Within(more, t) <=> Within(last, t) \/ Within(b, t)
      BY <1>1, <2>2, <2>3, <2>4 DEF Within
    <3> QED BY <1>3, <2>1, <2>2, <2>3, <3>2, <3>3, <3>4 DEF Reach
  <2>5. CASE ~(b.to > last.to)
    <3>1. Join(out, b) = out
      BY <1>3, <2>5 DEF Join
    <3>2. last.from <= b.from => \A t \in Int : Within(b, t) => Within(last, t)
      BY <1>1, <2>2, <2>5 DEF Within
    <3>3. Last(out) = last
      OBVIOUS
    <3> HIDE DEF last, rest
    <3>4. last.from <= b.from => \A t \in Int : Within(b, t) => Reach(ToSet(out), t)
      BY <2>1, <3>2 DEF Reach
    <3> QED BY <1>3, <3>1, <3>3, <3>4
  <2> QED BY <2>4, <2>5
<1> QED BY <1>2, <1>3

\* Periods with a length, by the instants they begin at.
InOrder(s) ==
    /\ \A i \in DOMAIN s : s[i].from < s[i].to
    /\ \A i, j \in DOMAIN s : i < j => s[i].from <= s[j].from

\* Where the periods stand once another was joined.
LEMMA JoinedAt ==
    ASSUME NEW out \in Seq(Interval), NEW b \in Interval, InOrder(out), b.from < b.to
    PROVE  /\ Len(Join(out, b)) \in {Len(out), Len(out) + 1}
           /\ \A i \in 1 .. Len(out) :
                 Join(out, b)[i].from = out[i].from /\ Join(out, b)[i].from < Join(out, b)[i].to
           /\ Len(Join(out, b)) = Len(out) + 1 => Join(out, b)[Len(out) + 1] = b
<1> DEFINE m == Len(out)
<1>1. m \in Nat /\ DOMAIN out = 1 .. m /\ \A i \in 1 .. m : out[i] \in Interval /\ out[i].from < out[i].to
  BY DEF InOrder
<1>2. CASE Join(out, b) = Append(out, b)
  BY <1>1, <1>2
<1>3. CASE Join(out, b) = out
  <2>1. \A k \in Nat : k # k + 1
    OBVIOUS
  <2>2. m # m + 1
    BY <1>1, <2>1
  <2> QED BY <1>1, <1>3, <2>2
<1>4. CASE /\ out # <<>> /\ b.from <= Last(out).to /\ b.to > Last(out).to
           /\ Join(out, b) = Append(Front(out), [Last(out) EXCEPT !.to = b.to])
  <2> DEFINE last == Last(out)
             more == [last EXCEPT !.to = b.to]
             f == Front(out)
  <2>1. m # 0 /\ last = out[m]
    BY <1>1, <1>4 DEF Last
  <2>2. last.from \in Int /\ last.to \in Int /\ last.from < last.to
    BY <1>1, <2>1 DEF Interval
  <2>3. b.to \in Int
    BY DEF Interval
  <2>4. more.from = last.from /\ more.to = b.to /\ more.from < more.to
    BY <1>1, <1>4, <2>1, <2>2, <2>3 DEF Interval
  <2>5. f \in Seq(Interval) /\ Len(f) = m - 1 /\ \A i \in 1 .. m - 1 : f[i] = out[i]
    BY <1>4, FrontIs
  <2>6. Join(out, b) = Append(f, more)
    BY <1>4
  <2> HIDE DEF f, more, last, m
  <2>7. Len(Append(f, more)) = m /\ Append(f, more)[m] = more
        /\ \A i \in 1 .. m - 1 : Append(f, more)[i] = out[i]
    BY <1>1, <2>1, <2>5
  <2>8. \A i \in 1 .. m : i = m \/ i \in 1 .. m - 1
    BY <1>1
  <2>9. \A i \in 1 .. m :
           Append(f, more)[i].from = out[i].from /\ Append(f, more)[i].from < Append(f, more)[i].to
    BY <1>1, <2>1, <2>4, <2>7, <2>8
  <2>10. m # m + 1
    BY <1>1
  <2> DEFINE J == Append(f, more)
  <2> HIDE DEF J
  <2>11. /\ Len(J) = m /\ m # m + 1
         /\ \A i \in 1 .. m : J[i].from = out[i].from /\ J[i].from < J[i].to
    BY <2>7, <2>9, <2>10 DEF J
  <2>12. Join(out, b) = J
    BY <2>6 DEF J
  <2> QED BY <2>11, <2>12 DEF m
<1> QED BY <1>2, <1>3, <1>4 DEF Join

\* A period joined keeps the order.
LEMMA JoinedInOrder ==
    ASSUME NEW out \in Seq(Interval), NEW b \in Interval, InOrder(out), b.from < b.to,
           out # <<>> => Last(out).from <= b.from
    PROVE  InOrder(Join(out, b))
<1> DEFINE m == Len(out)
           J == Join(out, b)
<1>1. /\ m \in Nat /\ DOMAIN out = 1 .. m
      /\ \A i \in 1 .. m : out[i].from \in Int
      /\ \A i, j \in 1 .. m : i < j => out[i].from <= out[j].from
  <2>1. m \in Nat /\ DOMAIN out = 1 .. m /\ \A i \in 1 .. m : out[i] \in Interval
    OBVIOUS
  <2>2. \A x \in Interval : x.from \in Int
    BY DEF Interval
  <2> HIDE DEF m
  <2> QED BY <2>1, <2>2 DEF InOrder
<1>2. J \in Seq(Interval)
  BY Joined
<1>3. /\ Len(J) \in {m, m + 1}
      /\ \A i \in 1 .. m : J[i].from = out[i].from /\ J[i].from < J[i].to
      /\ Len(J) = m + 1 => J[m + 1] = b
  BY JoinedAt
<1>4. \A i \in 1 .. m : out[i].from <= b.from
  <2> TAKE i \in 1 .. m
  <2>1. out # <<>> /\ Last(out) = out[m] /\ b.from \in Int
    BY <1>1 DEF Last, Interval
  <2>2. out[i].from <= out[m].from
    BY <1>1
  <2> QED BY <1>1, <2>1, <2>2
<1> HIDE DEF J, m
<1>5. DOMAIN J = 1 .. Len(J)
  BY <1>2
<1>6. \A i \in DOMAIN J : i \in 1 .. m \/ (i = m + 1 /\ J[i] = b)
  <2>1. CASE Len(J) = m
    BY <1>1, <1>5, <2>1
  <2>2. CASE Len(J) = m + 1
    <3>1. J[m + 1] = b
      BY <1>3, <2>2
    <3>2. \A i \in 1 .. m + 1 : i \in 1 .. m \/ i = m + 1
      BY <1>1
    <3> QED BY <1>5, <2>2, <3>1, <3>2
  <2> QED BY <1>3, <2>1, <2>2
<1>7. \A i \in DOMAIN J : J[i].from < J[i].to
  BY <1>3, <1>6
<1>8. \A i, j \in DOMAIN J : i < j => J[i].from <= J[j].from
  <2> SUFFICES ASSUME NEW i \in DOMAIN J, NEW j \in DOMAIN J, i < j PROVE J[i].from <= J[j].from
    OBVIOUS
  <2>1. i \in 1 .. m
    BY <1>1, <1>6
  <2> QED BY <1>1, <1>3, <1>4, <1>6, <2>1
<1> QED BY <1>7, <1>8 DEF InOrder, J

\* Merge: the periods of a set become one ordered set of the same instants.
LEMMA MergeCovers ==
    ASSUME NEW busy \in SUBSET Interval, IsFiniteSet(busy), \A b \in busy : b.from < b.to
    PROVE  /\ Merge(busy) \in Seq(Interval) /\ InOrder(Merge(busy))
           /\ \A t \in Int : Reach(ToSet(Merge(busy)), t) <=> Reach(busy, t)
<1> DEFINE s == ByStart(busy)
           N == Len(s)
           E(g) == g = [n \in 0 .. N |-> IF n = 0 THEN <<>> ELSE Join(g[n - 1], s[n])]
           merged == CHOOSE g : E(g)
<1>0. Merge(busy) = merged[N]
  BY DEF Merge
<1>1. /\ s \in Seq(Interval) /\ ToSet(s) = busy
      /\ \A i, j \in DOMAIN s : i < j => s[i].from <= s[j].from
  BY ByStartIs
<1> HIDE DEF s
<1>2. N \in Nat /\ DOMAIN s = 1 .. N /\ \A i \in 1 .. N : s[i] \in Interval
  BY <1>1
<1>3. \E g : E(g) /\ \A n \in 0 .. N : g[n] \in Seq(Interval)
  <2> DEFINE S == Seq(Interval)
             none == <<>>
             step == [k \in Nat |-> [x \in S |-> IF k \in 1 .. N THEN Join(x, s[k]) ELSE x]]
  <2>1. step \in [Nat -> [S -> S]]
    BY <1>2, Joined
  <2>2. none \in S /\ \A k \in 1 .. N, x \in S : step[k][x] = Join(x, s[k])
    BY <1>2
  <2> HIDE DEF step, S, none
  <2>3. Runs(S, none, step, N)
    BY <1>2, <2>1, <2>2, Repeated
  <2>4. PICK g \in [0 .. N -> S] : g[0] = none /\ \A k \in 1 .. N : g[k] = step[k][g[k - 1]]
    BY <2>3 DEF Runs
  <2>5. \A k \in 1 .. N : g[k] = Join(g[k - 1], s[k])
    <3> TAKE k \in 1 .. N
    <3>1. k - 1 \in 0 .. N
      BY <1>2
    <3> QED BY <2>2, <2>4, <3>1
  <2>6. \A k \in 0 .. N : k = 0 \/ k \in 1 .. N
    BY <1>2
  <2>7. E(g)
    BY <2>4, <2>5, <2>6 DEF none
  <2> QED BY <2>4, <2>7 DEF S
<1>4. E(merged)
  BY <1>3
<1> HIDE DEF merged, N
<1>5. merged[0] = <<>> /\ \A n \in 1 .. N : merged[n] = Join(merged[n - 1], s[n])
  <2>1. 0 \in 0 .. N /\ \A n \in 1 .. N : n \in 0 .. N /\ n # 0
    BY <1>2
  <2>2. \A n \in 0 .. N : merged[n] = IF n = 0 THEN <<>> ELSE Join(merged[n - 1], s[n])
    BY <1>4
  <2> QED BY <2>1, <2>2
<1> DEFINE Good(n) == /\ merged[n] \in Seq(Interval)
                      /\ n = 0 => merged[n] = <<>>
                      /\ InOrder(merged[n])
                      /\ n # 0 => Last(merged[n]).from <= s[n].from
                      /\ \A t \in Int : Reach(ToSet(merged[n]), t) <=> \E i \in 1 .. n : Within(s[i], t)
           X == {n \in Nat : n <= N => Good(n)}
<1>6. 0 \in X
  <2>1. 1 .. 0 = {} /\ ToSet(<<>>) = {} /\ <<>> \in Seq(Interval) /\ InOrder(<<>>)
    BY DEF ToSet, InOrder
  <2> QED BY <1>5, <2>1 DEF Reach
<1>7. \A k \in Nat : k \in X => k + 1 \in X
  <2> SUFFICES ASSUME NEW k \in Nat, k + 1 <= N, Good(k) PROVE Good(k + 1)
    <3> HIDE DEF Good
    <3> QED BY <1>2
  <2> DEFINE m == k + 1
             out == merged[k]
  <2>1. m \in 1 .. N /\ m # 0 /\ m - 1 = k /\ 1 .. m = (1 .. k) \union {m}
    BY <1>2
  <2>2. merged[m] = Join(out, s[m]) /\ s[m] \in Interval /\ out \in Seq(Interval)
    BY <1>2, <1>5, <2>1
  <2>3. out # <<>> => Last(out).from <= s[m].from
    <3> SUFFICES ASSUME out # <<>> PROVE Last(out).from <= s[m].from
      OBVIOUS
    <3>1. k # 0 /\ Last(out).from <= s[k].from
      OBVIOUS
    <3>2. k \in 1 .. N /\ k < m
      BY <1>2, <3>1
    <3>3. s[k].from <= s[m].from /\ s[k].from \in Int /\ s[m].from \in Int
      BY <1>1, <1>2, <2>1, <3>2 DEF Interval
    <3>4. Last(out) \in Interval
      <4> HIDE DEF out
      <4> QED BY <2>2, FrontAndLast
    <3>5. Last(out).from \in Int
      BY <3>4 DEF Interval
    <3> QED BY <3>1, <3>3, <3>5
  <2>4. /\ merged[m] \in Seq(Interval) /\ Last(merged[m]).from <= s[m].from
        /\ InOrder(merged[m])
        /\ \A t \in Int : Reach(ToSet(merged[m]), t) <=> Reach(ToSet(out), t) \/ Within(s[m], t)
    <3> DEFINE b == s[m]
    <3>0. InOrder(out) /\ b.from < b.to
      BY <1>1, <1>2, <2>1 DEF ToSet
    <3> HIDE DEF m, out, b
    <3>1. merged[m] = Join(out, b) /\ b \in Interval /\ out \in Seq(Interval)
          /\ (out # <<>> => Last(out).from <= b.from)
      BY <2>2, <2>3 DEF b
    <3>3. InOrder(Join(out, b))
      BY <3>0, <3>1, JoinedInOrder
    <3>2. /\ Join(out, b) \in Seq(Interval) /\ Last(Join(out, b)).from <= b.from
          /\ \A t \in Int : Reach(ToSet(Join(out, b)), t) <=> Reach(ToSet(out), t) \/ Within(b, t)
      BY <3>1, Joined
    <3> QED BY <3>1, <3>2, <3>3 DEF b
  <2>5. \A t \in Int : Reach(ToSet(out), t) <=> \E i \in 1 .. k : Within(s[i], t)
    OBVIOUS
  <2> HIDE DEF m, out
  <2>6. \A t \in Int : Reach(ToSet(merged[m]), t) <=> \E i \in 1 .. m : Within(s[i], t)
    BY <2>1, <2>4, <2>5
  <2> QED BY <2>1, <2>4, <2>6 DEF m
<1> HIDE DEF Good, X
<1>8. N \in X
  BY <1>2, <1>6, <1>7, CountedUp
<1>9. Good(N)
  BY <1>2, <1>8 DEF X
<1>10. \A t \in Int : Reach(busy, t) <=> \E i \in 1 .. N : Within(s[i], t)
  BY <1>1, <1>2 DEF Reach, ToSet
<1> QED BY <1>0, <1>9, <1>10 DEF Good

\* What has come back and what is to come are as AvailInv says in every
\* state of a call.
THEOREM AvailSound == AvailSpec => []AvailInv
<1>1. AvailInit => AvailInv
  BY AvailStarts
<1>2. AvailInv /\ [AvailNext]_availVars => AvailInv'
  <2> SUFFICES ASSUME AvailInv, [AvailNext]_availVars PROVE AvailInv'
    OBVIOUS
  <2>1. CASE Start
    BY <2>1, StartKeeps
  <2>2. CASE Query
    BY <2>2, QueryKeeps
  <2>3. CASE AskAgain
    BY <2>3, AskAgainKeeps
  <2>4. CASE QueryFails
    BY <2>4, FailKeeps
  <2>5. CASE Report
    BY <2>5, ReportKeeps
  <2>6. CASE UNCHANGED availVars
    <3>1. UNCHANGED <<google, ask, pc, todo, resp, report>>
      BY <2>6 DEF availVars
    <3>2. /\ Ids' = Ids /\ AllHeld' = AllHeld
          /\ (\A id : Readable(id)' <=> Readable(id)) /\ (\A id : Held(id)' = Held(id))
          /\ (\A c : InHand(c)' <=> InHand(c)) /\ (\A c : Coming(c)' <=> Coming(c))
          /\ (Bounded' <=> Bounded) /\ \A id : AnswerFor(id)' = AnswerFor(id)
      BY <3>1 DEF Ids, AllHeld, Held, Readable, Expands, InHand, Coming, Bounded, AnswerFor, IsGroup,
                  GroupAnswer, CalendarAnswer
    <3>3. AnswersTrue' /\ ToCome' /\ Reported'
      BY <3>1, <3>2 DEF AvailInv, AnswersTrue, ToCome, Reported, Expands
    <3> QED BY <3>1, <3>3 DEF AvailInv
  <2> QED BY <2>1, <2>2, <2>3, <2>4, <2>5, <2>6 DEF AvailNext
<1> QED BY <1>1, <1>2, PTL DEF AvailSpec

\* The ids of an answered call, and how each was answered.
LEMMA AnsweredIds ==
    ASSUME AvailInv, pc = "answered"
    PROVE  /\ Ids \in Seq(Addresses) /\ DOMAIN report = ToSet(Ids)
           /\ \A id \in ToSet(Ids) : report[id] = AnswerFor(id)
           /\ \A g \in ToSet(Ids) \intersect Groups :
                 /\ IsGroup(g) /\ AnswerFor(g) = GroupAnswer(g)
                 /\ resp.groups[g] = IF Expands(g) THEN [error |-> FALSE, members |-> google.members[g]]
                                     ELSE [error |-> TRUE, members |-> <<>>]
           /\ \A c \in ToSet(Ids) : c \notin Groups => c \in Calendars /\ AnswerFor(c) = CalendarAnswer(c)
<1>1. Ids \in Seq(Addresses)
  BY IdsAre DEF AvailInv
<1>2. ToSet(Ids) \subseteq Addresses
  BY <1>1 DEF ToSet
<1>3. report = [id \in ToSet(Ids) |-> AnswerFor(id)]
  BY DEF AvailInv, Reported
<1>4. /\ ToSet(Ids) \intersect Groups \subseteq DOMAIN resp.groups
      /\ DOMAIN resp.calendars \subseteq Calendars /\ DOMAIN resp.groups \subseteq Groups
      /\ \A g \in DOMAIN resp.groups :
            resp.groups[g] = IF Expands(g) THEN [error |-> FALSE, members |-> google.members[g]]
                             ELSE [error |-> TRUE, members |-> <<>>]
  BY DEF AvailInv, ToCome, AnswersTrue
<1>5. \A g \in ToSet(Ids) \intersect Groups : IsGroup(g)
  BY <1>4, Constants DEF IsGroup
<1>6. \A c \in ToSet(Ids) : c \notin Groups => c \in Calendars /\ ~IsGroup(c)
  BY <1>2, <1>4 DEF IsGroup, Addresses
<1> QED BY <1>1, <1>3, <1>4, <1>5, <1>6 DEF AnswerFor

\* A calendar's answer is known when it was read, and then what Google has.
LEMMA CalendarAnswerIs ==
    ASSUME NEW c
    PROVE  /\ ~CalendarAnswer(c).unknown <=> InHand(c)
           /\ ~CalendarAnswer(c).unknown => CalendarAnswer(c).busy = google.busy[c]
BY DEF CalendarAnswer, InHand, Unknown

\* A group's answer is known when all its members' are.
LEMMA GroupAnswerIs ==
    ASSUME NEW g
    PROVE  /\ ~GroupAnswer(g).unknown <=>
                 /\ ~resp.groups[g].error /\ ToSet(resp.groups[g].members) # {}
                 /\ \A c \in ToSet(resp.groups[g].members) : InHand(c)
           /\ ~GroupAnswer(g).unknown =>
                 GroupAnswer(g).busy =
                 ToSet(Merge(UNION {google.busy[c] : c \in ToSet(resp.groups[g].members)}))
<1> DEFINE M == ToSet(resp.groups[g].members)
<1> HIDE DEF M
<1>1. (\A c \in M : ~CalendarAnswer(c).unknown) =>
         UNION {CalendarAnswer(c).busy : c \in M} = UNION {google.busy[c] : c \in M}
  BY CalendarAnswerIs
<1> QED BY <1>1, CalendarAnswerIs DEF GroupAnswer, Unknown, M

\* What Google can answer for is not reported unknown because of its cap,
\* while what is to be asked again is within the bound.
THEOREM AskedAgain == AvailSpec => []AskedAgainIsAnswered
<1>1. AvailInv => AskedAgainIsAnswered
  <2> SUFFICES ASSUME AvailInv, pc = "answered",
                      ~(Cardinality(UNION {Held(id) : id \in DOMAIN report}) > MaxAskedAgain),
                      NEW id \in DOMAIN report, Readable(id)
               PROVE  ~report[id].unknown
    BY DEF AskedAgainIsAnswered
  <2>1. Ids \in Seq(Addresses) /\ DOMAIN report = ToSet(Ids) /\ report[id] = AnswerFor(id)
    BY AnsweredIds
  <2>2. UNION {Held(x) : x \in DOMAIN report} = AllHeld
    BY <2>1 DEF AllHeld
  <2>3. Cardinality(AllHeld) \in Nat /\ MaxAskedAgain \in Nat
    BY <2>1, AllHeldFinite, FS_CardinalityType, Constants DEF AvailInv
  <2>4. Bounded
    <3>1. ~(Cardinality(AllHeld) > MaxAskedAgain)
      BY <2>2
    <3>2. \A a, b \in Nat : ~(a > b) => a <= b
      OBVIOUS
    <3> QED BY <2>3, <3>1, <3>2 DEF Bounded
  <2>5. \A c \in Held(id) : InHand(c)
    BY <2>1, <2>4 DEF AvailInv, Reported
  <2>6. CASE id \in Groups
    <3>1. /\ AnswerFor(id) = GroupAnswer(id)
          /\ resp.groups[id] = [error |-> FALSE, members |-> google.members[id]]
      BY <2>1, <2>6, AnsweredIds DEF Readable
    <3>2. Held(id) = ToSet(google.members[id]) /\ google.members[id] # <<>>
      BY <2>6 DEF Held, Readable
    <3>3. google.members[id] \in Seq(Calendars)
      BY <2>6, Constants DEF AvailInv
    <3>4. ToSet(google.members[id]) # {}
      BY <3>2, <3>3, FrontAndLast
    <3>5. ~resp.groups[id].error /\ resp.groups[id].members = google.members[id]
      BY <3>1
    <3>6. ~GroupAnswer(id).unknown
      BY <2>5, <3>2, <3>4, <3>5, GroupAnswerIs
    <3> QED BY <2>1, <3>1, <3>6
  <2>7. CASE id \notin Groups
    <3>1. AnswerFor(id) = CalendarAnswer(id) /\ Held(id) = {id}
      BY <2>1, <2>7, AnsweredIds DEF Held
    <3> QED BY <2>1, <2>5, <3>1, CalendarAnswerIs
  <2> QED BY <2>6, <2>7
<1> QED BY <1>1, AvailSound, PTL

\* A known answer is about calendars that were all read, and busy at just
\* the times Google has for them.
LEMMA KnownAnswer ==
    ASSUME AvailInv, pc = "answered", NEW id \in DOMAIN report, ~report[id].unknown
    PROVE  /\ Readable(id)
           /\ \A t \in Int : Reach(report[id].busy, t) <=> \E c \in Held(id) : Reach(google.busy[c], t)
           /\ report[id].busy \in SUBSET Interval /\ IsFiniteSet(report[id].busy)
           /\ \A b \in report[id].busy : b.from < b.to
<1>1. DOMAIN report = ToSet(Ids) /\ report[id] = AnswerFor(id) /\ google \in Worlds
  BY AnsweredIds DEF AvailInv
<1>2. \A c : InHand(c) => c \in Calendars /\ google.condition[c] = "read"
  BY DEF AvailInv, AnswersTrue, InHand
<1>3. CASE id \notin Groups
  <2>1. AnswerFor(id) = CalendarAnswer(id) /\ Held(id) = {id}
    BY <1>1, <1>3, AnsweredIds DEF Held
  <2>2. InHand(id) /\ report[id].busy = google.busy[id]
    BY <1>1, <2>1, CalendarAnswerIs
  <2>3. /\ IsFiniteSet(google.busy[id]) /\ google.busy[id] \subseteq Interval
        /\ \A b \in google.busy[id] : b.from < b.to
    BY <1>1, <1>2, <2>2, Constants
  <2> QED BY <1>2, <1>3, <2>1, <2>2, <2>3 DEF Readable
<1>4. CASE id \in Groups
  <2> DEFINE s == google.members[id]
             busy == UNION {google.busy[c] : c \in ToSet(s)}
  <2>1. /\ AnswerFor(id) = GroupAnswer(id)
        /\ resp.groups[id] = IF Expands(id) THEN [error |-> FALSE, members |-> s]
                             ELSE [error |-> TRUE, members |-> <<>>]
    BY <1>1, <1>4, AnsweredIds
  <2>2. Expands(id) /\ resp.groups[id].members = s
    <3>1. ~resp.groups[id].error
      BY <1>1, <2>1, GroupAnswerIs
    <3> QED BY <2>1, <3>1
  <2>3. /\ ToSet(s) # {} /\ \A c \in ToSet(s) : InHand(c)
        /\ report[id].busy = ToSet(Merge(busy))
    BY <1>1, <2>1, <2>2, GroupAnswerIs
  <2>4. Held(id) = ToSet(s) /\ s \in Seq(Calendars) /\ s # <<>>
    <3>1. s \in Seq(Calendars)
      BY <1>1, <1>4, Constants
    <3>2. ToSet(<<>>) = {}
      BY DEF ToSet
    <3> QED BY <1>4, <2>3, <3>1, <3>2 DEF Held
  <2>5. busy \in SUBSET Interval /\ IsFiniteSet(busy) /\ \A b \in busy : b.from < b.to
    <3> DEFINE B == {google.busy[c] : c \in ToSet(s)}
    <3>2. \A c \in ToSet(s) : /\ IsFiniteSet(google.busy[c]) /\ google.busy[c] \subseteq Interval
                             /\ \A b \in google.busy[c] : b.from < b.to
      BY <1>1, <1>2, <2>3, Constants
    <3>3. IsFiniteSet(B)
      BY <2>4, ImageFinite
    <3>4. \A T \in B : IsFiniteSet(T)
      BY <3>2
    <3> HIDE DEF B
    <3>5. IsFiniteSet(UNION B)
      BY <3>3, <3>4, FS_UNION
    <3> QED BY <3>2, <3>5 DEF B
  <2> HIDE DEF busy, s
  <2>6. /\ Merge(busy) \in Seq(Interval) /\ InOrder(Merge(busy))
        /\ \A t \in Int : Reach(ToSet(Merge(busy)), t) <=> Reach(busy, t)
    BY <2>5, MergeCovers
  <2>7. \A t : Reach(busy, t) <=> \E c \in ToSet(s) : Reach(google.busy[c], t)
    BY DEF busy, Reach
  <2>8. Readable(id)
    BY <1>2, <1>4, <2>2, <2>3, <2>4 DEF Readable, s
  <2>9. /\ ToSet(Merge(busy)) \in SUBSET Interval /\ IsFiniteSet(ToSet(Merge(busy)))
        /\ \A b \in ToSet(Merge(busy)) : b.from < b.to
    BY <2>6, SeqFinite DEF InOrder, ToSet
  <2> QED BY <2>3, <2>4, <2>6, <2>7, <2>8, <2>9
<1> QED BY <1>3, <1>4

\* A calendar or a group is reported busy at just the times Google has for
\* it, and a known answer is about calendars that were all read.
THEOREM KnownIsRead == AvailSpec => []KnownMeansRead
<1>1. AvailInv => KnownMeansRead
  <2> SUFFICES ASSUME AvailInv, pc = "answered", NEW id \in DOMAIN report, ~report[id].unknown
               PROVE  /\ Readable(id)
                      /\ \A t \in Int : Reach(report[id].busy, t)
                                        <=> \E c \in Held(id) : Reach(google.busy[c], t)
    <3>1. \A a, b : \A t \in a .. b : t \in Int
      OBVIOUS
    <3> QED BY <3>1 DEF KnownMeansRead, Reach, Within
  <2> QED BY KnownAnswer
<1> QED BY <1>1, AvailSound, PTL

-----------------------------------------------------------------------------
(* The free time of a window.                                              *)

\* A gap of w: a stretch of it that is free and no longer one.
Gap(w, busy, g) ==
    /\ g \in Interval /\ g.from < g.to /\ w.from <= g.from /\ g.to <= w.to
    /\ \A t \in Int : Within(g, t) => ~Reach(busy, t)
    /\ g.from = w.from \/ Reach(busy, g.from - 1)
    /\ g.to = w.to \/ Reach(busy, g.to)

\* One more element leaves a set finite.
LEMMA OneMore == \A S, x : IsFiniteSet(S) => IsFiniteSet(S \union {x})
BY FS_AddElement

\* How far a cut has come: gaps before the cursor, all of them, and no end
\* of what was passed behind it.
CutTo(w, busy, s, n, acc) ==
    /\ acc.cursor \in Int /\ w.from <= acc.cursor
    /\ acc.cursor = w.from \/ Reach(busy, acc.cursor - 1)
    /\ IsFiniteSet(acc.out) /\ \A g \in acc.out : Gap(w, busy, g)
    /\ \A t \in Int : w.from <= t /\ t < acc.cursor /\ ~Reach(busy, t) => \E g \in acc.out : Within(g, t)
    /\ \A i \in 1 .. n : s[i].from < w.to => s[i].to <= acc.cursor

\* What is between the cursor and the next period is free, and a gap if it
\* is anything.
LEMMA CutOneMore ==
    ASSUME NEW w, w.from \in Int, w.to \in Int, NEW s \in Seq(Interval), InOrder(s),
           NEW n \in Nat, n + 1 \in DOMAIN s, NEW acc, CutTo(w, ToSet(s), s, n, acc)
    PROVE  CutTo(w, ToSet(s), s, n + 1, CutAt(w, acc, s[n + 1]))
<1> DEFINE b == s[n + 1]
           busy == ToSet(s)
           new == CutAt(w, acc, b)
           c == acc.cursor
<1>1. /\ DOMAIN s = 1 .. Len(s) /\ Len(s) \in Nat
      /\ \A i \in DOMAIN s : s[i] \in Interval /\ s[i].from < s[i].to
      /\ \A i, j \in DOMAIN s : i < j => s[i].from <= s[j].from
  BY DEF InOrder
<1>2. \A x \in Interval : x.from \in Int /\ x.to \in Int
  BY DEF Interval
<1>3. b \in busy /\ b.from \in Int /\ b.to \in Int /\ b.from < b.to
  BY <1>1, <1>2 DEF ToSet
<1>4. \A t : Reach(busy, t) <=> \E i \in DOMAIN s : Within(s[i], t)
  BY DEF Reach, ToSet
<1>5. \A i \in 1 .. n + 1 : i \in DOMAIN s /\ (i \in 1 .. n \/ i = n + 1)
  BY <1>1
<1>6. \A i \in DOMAIN s : i \in 1 .. n \/ b.from <= s[i].from
  <2> TAKE i \in DOMAIN s
  <2>1. i \in 1 .. n \/ i = n + 1 \/ n + 1 < i
    BY <1>1
  <2> QED BY <1>1, <1>3, <2>1
<1> HIDE DEF b, busy
<1>7. /\ c \in Int /\ w.from <= c /\ (c = w.from \/ Reach(busy, c - 1))
      /\ IsFiniteSet(acc.out) /\ \A g \in acc.out : Gap(w, busy, g)
      /\ \A t \in Int : w.from <= t /\ t < c /\ ~Reach(busy, t) => \E g \in acc.out : Within(g, t)
      /\ \A i \in 1 .. n : s[i].from < w.to => s[i].to <= c
  BY DEF CutTo, busy
<1>8. CASE b.to <= w.from \/ b.from >= w.to
  <2>1. new = acc
    BY <1>8 DEF CutAt
  <2>2. \A i \in 1 .. n + 1 : s[i].from < w.to => s[i].to <= c
    BY <1>3, <1>5, <1>7, <1>8 DEF b
  <2> QED BY <1>7, <2>1, <2>2 DEF CutTo, b, busy
<1>9. CASE b.to > w.from /\ b.from < w.to
  <2> DEFINE gap == [from |-> c, to |-> b.from]
             out == Between(acc.out, c, b.from)
             d == IF b.to > c THEN b.to ELSE c
  <2>1. new.out = out /\ new.cursor = d
    BY <1>3, <1>9 DEF CutAt
  <2>2. d \in Int /\ w.from <= d /\ c <= d /\ b.to <= d
    BY <1>3, <1>7
  <2>3. d = w.from \/ Reach(busy, d - 1)
    <3>1. Within(b, b.to - 1)
      BY <1>3 DEF Within
    <3> QED BY <1>3, <1>7, <3>1 DEF Reach
  <2>4. \A i \in 1 .. n : s[i].from < w.to /\ s[i].from \in Int /\ s[i].to \in Int /\ s[i].to <= c
    <3> TAKE i \in 1 .. n
    <3>1. i \in DOMAIN s /\ i < n + 1 /\ n + 1 \in DOMAIN s
      BY <1>1, <1>5
    <3>2. s[i].from <= b.from /\ s[i].from \in Int /\ s[i].to \in Int
      BY <1>1, <1>2, <3>1 DEF b
    <3> QED BY <1>3, <1>7, <1>9, <3>2
  <2>5. \A t \in Int : Reach(busy, t) => t < c \/ b.from <= t
    <3> SUFFICES ASSUME NEW t \in Int, Reach(busy, t) PROVE t < c \/ b.from <= t
      OBVIOUS
    <3>1. PICK i \in DOMAIN s : Within(s[i], t)
      BY <1>4
    <3>2. s[i].from \in Int /\ s[i].to \in Int /\ s[i].from <= t /\ t < s[i].to
      BY <1>1, <1>2, <3>1 DEF Within
    <3>3. CASE i \in 1 .. n
      BY <1>7, <2>4, <3>2, <3>3
    <3>4. CASE b.from <= s[i].from
      BY <1>3, <3>2, <3>4
    <3> QED BY <1>6, <3>3, <3>4
  <2>6. ASSUME b.from > c
       PROVE /\ IsFiniteSet(out) /\ \A g \in out : Gap(w, busy, g)
             /\ \A t \in Int : w.from <= t /\ t < b.from /\ ~Reach(busy, t) => \E g \in out : Within(g, t)
    <3>1. out = acc.out \union {gap}
      BY <2>6 DEF Between
    <3>2. gap \in Interval /\ gap.from = c /\ gap.to = b.from
      BY <1>3, <1>7 DEF Interval
    <3>3. Gap(w, busy, gap)
      <4>1. Within(b, b.from)
        BY <1>3 DEF Within
      <4>2. Reach(busy, b.from)
        BY <1>3, <4>1 DEF Reach
      <4>3. \A t \in Int : Within(gap, t) => ~Reach(busy, t)
        BY <1>3, <1>7, <2>5, <3>2 DEF Within
      <4> QED BY <1>3, <1>7, <1>9, <2>6, <3>2, <4>2, <4>3 DEF Gap
    <3>4. \A t \in Int : c <= t /\ t < b.from => Within(gap, t)
      BY <3>2 DEF Within
    <3> HIDE DEF gap, out, d
    <3>5. IsFiniteSet(out) /\ \A g \in out : Gap(w, busy, g)
      BY <1>7, <3>1, <3>3, OneMore
    <3>6. \A t \in Int : w.from <= t /\ t < b.from /\ ~Reach(busy, t) => \E g \in out : Within(g, t)
      BY <1>3, <1>7, <3>1, <3>4
    <3> QED BY <3>5, <3>6
  <2>7. ASSUME ~(b.from > c)
       PROVE /\ IsFiniteSet(out) /\ \A g \in out : Gap(w, busy, g)
             /\ \A t \in Int : w.from <= t /\ t < b.from /\ ~Reach(busy, t) => \E g \in out : Within(g, t)
    <3>1. out = acc.out
      BY <2>7 DEF Between
    <3> QED BY <1>3, <1>7, <2>7, <3>1
  <2>8. /\ IsFiniteSet(out) /\ \A g \in out : Gap(w, busy, g)
        /\ \A t \in Int : w.from <= t /\ t < b.from /\ ~Reach(busy, t) => \E g \in out : Within(g, t)
        /\ \A t \in Int : w.from <= t /\ t < c /\ ~Reach(busy, t) => \E g \in out : Within(g, t)
    <3>1. acc.out \subseteq out
      BY DEF Between
    <3> HIDE DEF out
    <3> QED BY <1>7, <2>6, <2>7, <3>1
  <2>9. \A t \in Int : t < d /\ ~Reach(busy, t) => t < c \/ t < b.from
    <3> SUFFICES ASSUME NEW t \in Int, t < d, ~Reach(busy, t), ~(t < c), ~(t < b.from) PROVE FALSE
      OBVIOUS
    <3>1. Within(b, t)
      BY <1>3, <1>7 DEF Within
    <3> QED BY <1>3, <3>1 DEF Reach
  <2>10. \A i \in 1 .. n + 1 : s[i].from < w.to => s[i].to <= d
    <3> TAKE i \in 1 .. n + 1
    <3>1. CASE i = n + 1
      BY <2>2, <3>1 DEF b
    <3>2. CASE i \in 1 .. n
      <4>1. s[i].to <= c /\ s[i].to \in Int
        BY <2>4, <3>2
      <4> QED BY <1>7, <2>2, <4>1
    <3> QED BY <1>5, <3>1, <3>2
  <2> HIDE DEF out, d, new
  <2>11. \A t \in Int : w.from <= t /\ t < d /\ ~Reach(busy, t) => \E g \in out : Within(g, t)
    BY <2>8, <2>9
  <2>12. CutTo(w, busy, s, n + 1, new)
    BY <2>1, <2>2, <2>3, <2>8, <2>10, <2>11 DEF CutTo
  <2> QED BY <2>12 DEF new, b, busy
<1> QED BY <1>3, <1>8, <1>9

\* FreeGaps, its first step: every gap of the window, and all of them.
LEMMA CutIs ==
    ASSUME NEW w, w.from \in Int, w.to \in Int,
           NEW busy \in SUBSET Interval, IsFiniteSet(busy), \A b \in busy : b.from < b.to
    PROVE  /\ IsFiniteSet(Cut(w, busy)) /\ \A g \in Cut(w, busy) : Gap(w, busy, g)
           /\ \A t \in Int : w.from <= t /\ t < w.to /\ ~Reach(busy, t)
                             => \E g \in Cut(w, busy) : Within(g, t)
<1> DEFINE s == Merge(busy)
           N == Len(s)
           none == [out |-> {}, cursor |-> w.from]
           E(g) == g = [n \in 0 .. N |-> IF n = 0 THEN none ELSE CutAt(w, g[n - 1], s[n])]
           cut == CHOOSE g : E(g)
           all == ToSet(s)
<1>1. s \in Seq(Interval) /\ InOrder(s) /\ \A t \in Int : Reach(all, t) <=> Reach(busy, t)
  BY MergeCovers
<1>2. Cut(w, busy) = Between(cut[N].out, cut[N].cursor, w.to)
  BY DEF Cut
<1> HIDE DEF s
<1>3. N \in Nat /\ DOMAIN s = 1 .. N /\ \A i \in 1 .. N : s[i] \in Interval
  BY <1>1
<1>4. \A x \in Interval : x.from \in Int /\ x.to \in Int
  BY DEF Interval
<1>5. \E g : E(g)
  <2> DEFINE S == [out : SUBSET Interval, cursor : Int]
             step == [k \in Nat |-> [x \in S |-> IF k \in 1 .. N THEN CutAt(w, x, s[k]) ELSE x]]
  <2>1. \A x \in S, b \in Interval : CutAt(w, x, b) \in S
    <3> TAKE x \in S, b \in Interval
    <3>1. x.out \subseteq Interval /\ x.cursor \in Int /\ b.from \in Int /\ b.to \in Int
      BY <1>4
    <3>2. [from |-> x.cursor, to |-> b.from] \in Interval
      BY <3>1 DEF Interval
    <3>3. Between(x.out, x.cursor, b.from) \in SUBSET Interval
      BY <3>1, <3>2 DEF Between
    <3> QED BY <3>1, <3>3 DEF CutAt
  <2>2. step \in [Nat -> [S -> S]]
    BY <1>3, <2>1
  <2>3. none \in S
    OBVIOUS
  <2>4. \A k \in 1 .. N, x \in S : step[k][x] = CutAt(w, x, s[k])
    BY <1>3
  <2> HIDE DEF step, S, none
  <2>5. Runs(S, none, step, N)
    BY <1>3, <2>2, <2>3, Repeated
  <2>6. PICK g \in [0 .. N -> S] : g[0] = none /\ \A k \in 1 .. N : g[k] = step[k][g[k - 1]]
    BY <2>5 DEF Runs
  <2>7. \A k \in 1 .. N : g[k] = CutAt(w, g[k - 1], s[k])
    <3> TAKE k \in 1 .. N
    <3>1. k - 1 \in 0 .. N
      BY <1>3
    <3> QED BY <2>4, <2>6, <3>1
  <2>8. \A k \in 0 .. N : k = 0 \/ k \in 1 .. N
    BY <1>3
  <2>9. E(g)
    BY <2>6, <2>7, <2>8
  <2> QED BY <2>9
<1>6. E(cut)
  BY <1>5
<1> HIDE DEF cut, N
<1>7. cut[0] = none /\ \A n \in 1 .. N : cut[n] = CutAt(w, cut[n - 1], s[n])
  <2>1. 0 \in 0 .. N /\ \A n \in 1 .. N : n \in 0 .. N /\ n # 0
    BY <1>3
  <2>2. \A n \in 0 .. N : cut[n] = IF n = 0 THEN none ELSE CutAt(w, cut[n - 1], s[n])
    BY <1>6
  <2> HIDE DEF none
  <2> QED BY <2>1, <2>2
<1> DEFINE X == {n \in Nat : n <= N => CutTo(w, all, s, n, cut[n])}
<1>8. 0 \in X
  <2>1. cut[0].out = {} /\ cut[0].cursor = w.from
    BY <1>7
  <2>2. IsFiniteSet({}) /\ 1 .. 0 = {}
    BY FS_EmptySet
  <2>3. \A t \in Int : ~(w.from <= t /\ t < w.from)
    OBVIOUS
  <2>4. w.from <= w.from
    OBVIOUS
  <2> HIDE DEF all, none
  <2>5. CutTo(w, all, s, 0, cut[0])
    BY <2>1, <2>2, <2>3, <2>4 DEF CutTo
  <2> QED BY <2>5
<1>9. \A k \in Nat : k \in X => k + 1 \in X
  <2> SUFFICES ASSUME NEW k \in Nat, k + 1 <= N, k <= N => CutTo(w, all, s, k, cut[k])
               PROVE  CutTo(w, all, s, k + 1, cut[k + 1])
    OBVIOUS
  <2>1. k + 1 \in 1 .. N /\ (k + 1) - 1 = k /\ k <= N
    BY <1>3
  <2>2. cut[k + 1] = CutAt(w, cut[k], s[k + 1])
    BY <1>7, <2>1
  <2>3. CutTo(w, all, s, k, cut[k])
    BY <2>1
  <2> QED BY <1>1, <1>3, <2>1, <2>2, <2>3, CutOneMore
<1> HIDE DEF X
<1>10. N \in X
  BY <1>3, <1>8, <1>9, CountedUp
<1>11. CutTo(w, all, s, N, cut[N])
  BY <1>3, <1>10 DEF X
<1> DEFINE c == cut[N].cursor
           out == cut[N].out
           gap == [from |-> c, to |-> w.to]
<1> HIDE DEF all
<1>12. /\ c \in Int /\ w.from <= c /\ (c = w.from \/ Reach(all, c - 1))
       /\ IsFiniteSet(out) /\ \A g \in out : Gap(w, all, g)
       /\ \A t \in Int : w.from <= t /\ t < c /\ ~Reach(all, t) => \E g \in out : Within(g, t)
       /\ \A i \in 1 .. N : s[i].from < w.to => s[i].to <= c
  BY <1>11 DEF CutTo
<1> HIDE DEF c, out
<1>13. \A t \in Int : t < w.to /\ Reach(all, t) => t < c
  <2> SUFFICES ASSUME NEW t \in Int, t < w.to, Reach(all, t) PROVE t < c
    OBVIOUS
  <2>1. PICK i \in 1 .. N : Within(s[i], t)
    BY <1>3 DEF Reach, all, ToSet
  <2>2. s[i].from \in Int /\ s[i].to \in Int /\ s[i].from <= t /\ t < s[i].to
    BY <1>3, <1>4, <2>1 DEF Within
  <2> QED BY <1>12, <2>2
<1>14. gap \in Interval /\ gap.from = c /\ gap.to = w.to
  BY <1>12 DEF Interval
<1> HIDE DEF gap
<1>15. c < w.to => Gap(w, all, gap)
  <2>1. \A t \in Int : Within(gap, t) => ~Reach(all, t)
    BY <1>12, <1>13, <1>14 DEF Within
  <2>2. w.to <= w.to
    OBVIOUS
  <2> QED BY <1>12, <1>14, <2>1, <2>2 DEF Gap
<1>16. \A t \in Int : c <= t /\ t < w.to => Within(gap, t)
  BY <1>14 DEF Within
<1> DEFINE result == Between(out, c, w.to)
<1>17. result = IF w.to > c THEN out \union {gap} ELSE out
  BY DEF Between, gap
<1> HIDE DEF result
<1>18. IsFiniteSet(result) /\ \A g \in result : Gap(w, all, g)
  BY <1>12, <1>15, <1>17, OneMore
<1>19. \A t \in Int : w.from <= t /\ t < w.to /\ ~Reach(all, t) => \E g \in result : Within(g, t)
  BY <1>12, <1>16, <1>17
<1>20. \A g : Gap(w, all, g) => Gap(w, busy, g)
  <2> SUFFICES ASSUME NEW g, Gap(w, all, g) PROVE Gap(w, busy, g)
    OBVIOUS
  <2>1. g \in Interval /\ g.from - 1 \in Int /\ g.to \in Int
    BY <1>4 DEF Gap
  <2> QED BY <1>1, <2>1 DEF Gap
<1>21. Cut(w, busy) = result
  BY <1>2 DEF result, c, out
<1> QED BY <1>1, <1>18, <1>19, <1>20, <1>21

\* Two gaps of one window that share an instant are one gap.
LEMMA GapsApart ==
    ASSUME NEW w, NEW busy, NEW g, NEW h, w.from \in Int, w.to \in Int,
           Gap(w, busy, g), Gap(w, busy, h), NEW t \in Int, Within(g, t), Within(h, t)
    PROVE  g = h
<1>1. \A x \in Interval : x.from \in Int /\ x.to \in Int /\ x = [from |-> x.from, to |-> x.to]
  BY DEF Interval
<1>2. \A x, y : Gap(w, busy, x) /\ Gap(w, busy, y) /\ Within(x, t) /\ Within(y, t)
                => x.from <= y.from /\ x.to >= y.to
  <2> SUFFICES ASSUME NEW x, NEW y, Gap(w, busy, x), Gap(w, busy, y), Within(x, t), Within(y, t)
               PROVE  x.from <= y.from /\ x.to >= y.to
    OBVIOUS
  <2>1. /\ x.from \in Int /\ x.to \in Int /\ y.from \in Int /\ y.to \in Int
        /\ x.from <= t /\ t < x.to /\ y.from <= t /\ t < y.to
        /\ w.from <= y.from /\ y.to <= w.to
    BY <1>1 DEF Gap, Within
  <2>2. x.from <= y.from
    <3> SUFFICES ASSUME y.from < x.from PROVE FALSE
      BY <2>1
    <3>1. Reach(busy, x.from - 1)
      BY <2>1 DEF Gap
    <3>2. Within(y, x.from - 1) /\ x.from - 1 \in Int
      BY <2>1 DEF Within
    <3> QED BY <3>1, <3>2 DEF Gap
  <2>3. x.to >= y.to
    <3> SUFFICES ASSUME x.to < y.to PROVE FALSE
      BY <2>1
    <3>1. Reach(busy, x.to)
      BY <2>1 DEF Gap
    <3>2. Within(y, x.to)
      BY <2>1 DEF Within
    <3> QED BY <2>1, <3>1, <3>2 DEF Gap
  <2> QED BY <2>2, <2>3
<1>3. g.from = h.from /\ g.to = h.to
  <2>1. g \in Interval /\ h \in Interval
    BY DEF Gap
  <2>2. g.from <= h.from /\ g.to >= h.to /\ h.from <= g.from /\ h.to >= g.to
    BY <1>2
  <2> QED BY <1>1, <2>1, <2>2
<1> QED BY <1>1, <1>3 DEF Gap

-----------------------------------------------------------------------------
(* What two sets of windows share.                                         *)

\* Windows with a length that share no instant.
Apart(S) ==
    /\ S \subseteq Interval /\ IsFiniteSet(S) /\ \A x \in S : x.from < x.to
    /\ \A x, y \in S : x = y \/ x.to <= y.from \/ y.to <= x.from

\* Sorted, each ends before the next begins.
InLine(S, s) ==
    /\ s \in Seq(Interval) /\ ToSet(s) = S
    /\ \A i \in DOMAIN s : s[i].from \in Int /\ s[i].to \in Int /\ s[i].from < s[i].to
    /\ \A i, j \in DOMAIN s : i < j => s[i].to <= s[j].from

\* Windows apart, sorted, are in line.
LEMMA ApartInLine ==
    ASSUME NEW S, Apart(S)
    PROVE  InLine(S, ByStart(S))
<1> DEFINE s == ByStart(S)
<1>1. S \in SUBSET Interval /\ IsFiniteSet(S)
  BY DEF Apart
<1>2. /\ s \in Seq(Interval) /\ ToSet(s) = S
      /\ \A i, j \in DOMAIN s : i < j => s[i].from <= s[j].from
      /\ \A i, j \in DOMAIN s : s[i] = s[j] => i = j
  BY <1>1, ByStartIs
<1> HIDE DEF s
<1>3. \A i \in DOMAIN s : s[i] \in S
  BY <1>2 DEF ToSet
<1>4. \A x \in S : x.from \in Int /\ x.to \in Int /\ x.from < x.to
  BY DEF Apart, Interval
<1>5. \A i, j \in DOMAIN s : i < j => s[i].to <= s[j].from
  <2> SUFFICES ASSUME NEW i \in DOMAIN s, NEW j \in DOMAIN s, i < j PROVE s[i].to <= s[j].from
    OBVIOUS
  <2>1. s[i].from <= s[j].from /\ s[i] # s[j]
    <3>1. DOMAIN s = 1 .. Len(s) /\ Len(s) \in Nat
      BY <1>2
    <3>2. i # j
      BY <3>1
    <3> QED BY <1>2, <3>2
  <2>2. s[i].to <= s[j].from \/ s[j].to <= s[i].from
    BY <1>3, <2>1 DEF Apart
  <2> QED BY <1>3, <1>4, <2>1, <2>2
<1>6. InLine(S, s)
  BY <1>2, <1>3, <1>4, <1>5 DEF InLine
<1> QED BY <1>6 DEF s

\* What two windows share.
LEMMA BothIs ==
    ASSUME NEW a \in Interval, NEW b \in Interval
    PROVE  /\ Both(a, b) \in Interval
           /\ \A t \in Int : Within(Both(a, b), t) <=> Within(a, t) /\ Within(b, t)
           /\ Both(a, b).from \in {a.from, b.from} /\ Both(a, b).to \in {a.to, b.to}
           /\ a.to <= b.from \/ b.to <= a.from => ~(Both(a, b).to > Both(a, b).from)
<1>1. a.from \in Int /\ a.to \in Int /\ b.from \in Int /\ b.to \in Int
  BY DEF Interval
<1>2. /\ Both(a, b).from = IF b.from < a.from THEN a.from ELSE b.from
      /\ Both(a, b).to = IF b.to > a.to THEN a.to ELSE b.to
      /\ Both(a, b) = [from |-> Both(a, b).from, to |-> Both(a, b).to]
  BY DEF Both, Clip
<1>3. Both(a, b) \in Interval
  BY <1>1, <1>2 DEF Interval
<1> QED BY <1>1, <1>2, <1>3 DEF Within

\* How far a sweep has come: everything before either place was shared out.
SweptTo(l, r, n, at) ==
    /\ at.i \in 1 .. Len(l) + 1 /\ at.j \in 1 .. Len(r) + 1
    /\ at.i > Len(l) \/ at.j > Len(r) \/ at.i + at.j = n + 2
    /\ \A x \in at.out : \E p \in DOMAIN l, q \in DOMAIN r : x = Both(l[p], r[q]) /\ x.to > x.from
    /\ \A p \in DOMAIN l, q \in DOMAIN r :
          (p < at.i \/ q < at.j) /\ Both(l[p], r[q]).to > Both(l[p], r[q]).from => Both(l[p], r[q]) \in at.out

\* One more step of the sweep keeps what SweptTo says of it.
LEMMA SweptOneMore ==
    ASSUME NEW A, NEW B, NEW l, NEW r, InLine(A, l), InLine(B, r), NEW n \in Nat, NEW at, SweptTo(l, r, n, at)
    PROVE  SweptTo(l, r, n + 1, Advance(l, r, at))
<1> DEFINE i == at.i
           j == at.j
           new == Advance(l, r, at)
<1>1. /\ DOMAIN l = 1 .. Len(l) /\ Len(l) \in Nat /\ DOMAIN r = 1 .. Len(r) /\ Len(r) \in Nat
      /\ \A p \in DOMAIN l : l[p] \in Interval /\ l[p].from \in Int /\ l[p].to \in Int /\ l[p].from < l[p].to
      /\ \A q \in DOMAIN r : r[q] \in Interval /\ r[q].from \in Int /\ r[q].to \in Int /\ r[q].from < r[q].to
      /\ \A p, q \in DOMAIN l : p < q => l[p].to <= l[q].from
      /\ \A p, q \in DOMAIN r : p < q => r[p].to <= r[q].from
  BY DEF InLine
<1>2. /\ i \in 1 .. Len(l) + 1 /\ j \in 1 .. Len(r) + 1
      /\ i > Len(l) \/ j > Len(r) \/ i + j = n + 2
      /\ \A x \in at.out : \E p \in DOMAIN l, q \in DOMAIN r : x = Both(l[p], r[q]) /\ x.to > x.from
      /\ \A p \in DOMAIN l, q \in DOMAIN r :
            (p < i \/ q < j) /\ Both(l[p], r[q]).to > Both(l[p], r[q]).from => Both(l[p], r[q]) \in at.out
  BY DEF SweptTo
<1> HIDE DEF i, j
<1>3. CASE i > Len(l) \/ j > Len(r)
  <2>1. new = at
    BY <1>3 DEF Advance, i, j
  <2> QED BY <1>2, <1>3, <2>1 DEF SweptTo, i, j
<1>4. CASE ~(i > Len(l) \/ j > Len(r))
  <2> DEFINE first == l[i].to < r[j].to
             both == Both(l[i], r[j])
  <2>1. i \in DOMAIN l /\ j \in DOMAIN r /\ i \in Nat /\ j \in Nat
    BY <1>1, <1>2, <1>4
  <2>2. /\ new.i = IF first THEN i + 1 ELSE i
        /\ new.j = IF first THEN j ELSE j + 1
        /\ new.out = at.out \union {x \in {both} : x.to > x.from}
    BY <1>4 DEF Advance, i, j
  <2>3. new.i \in 1 .. Len(l) + 1 /\ new.j \in 1 .. Len(r) + 1 /\ new.i + new.j = (n + 1) + 2
    <3>1. i <= Len(l) /\ j <= Len(r) /\ 1 <= i /\ 1 <= j /\ i + j = n + 2
      BY <1>1, <1>2, <1>4, <2>1
    <3> HIDE DEF first, new
    <3>2. new.i \in {i, i + 1} /\ new.j \in {j, j + 1} /\ new.i + new.j = i + j + 1
      BY <2>1, <2>2
    <3>3. (n + 1) + 2 = (n + 2) + 1
      OBVIOUS
    <3> QED BY <1>1, <2>1, <3>1, <3>2, <3>3
  <2>4. \A x \in new.out : \E p \in DOMAIN l, q \in DOMAIN r : x = Both(l[p], r[q]) /\ x.to > x.from
    BY <1>2, <2>1, <2>2
  <2>5. \A p \in DOMAIN l, q \in DOMAIN r :
           (p < new.i \/ q < new.j) /\ Both(l[p], r[q]).to > Both(l[p], r[q]).from
           => Both(l[p], r[q]) \in new.out
    <3> SUFFICES ASSUME NEW p \in DOMAIN l, NEW q \in DOMAIN r, p < new.i \/ q < new.j,
                        Both(l[p], r[q]).to > Both(l[p], r[q]).from
                 PROVE  Both(l[p], r[q]) \in new.out
      OBVIOUS
    <3>1. ~(l[p].to <= r[q].from) /\ ~(r[q].to <= l[p].from)
      BY <1>1, BothIs
    <3>2. p \in Nat /\ q \in Nat
      BY <1>1
    <3>3. CASE p < i \/ q < j
      BY <1>2, <2>2, <3>3
    <3>4. CASE p = i /\ q = j
      BY <2>2, <3>4
    <3>5. CASE first /\ p = i /\ q > j
      <4>1. r[j].to <= r[q].from /\ l[i].to < r[j].to
        BY <1>1, <2>1, <3>5
      <4> QED BY <1>1, <2>1, <3>1, <3>5, <4>1
    <3>6. CASE ~first /\ q = j /\ p > i
      <4>1. l[i].to <= l[p].from /\ ~(l[i].to < r[j].to)
        BY <1>1, <2>1, <3>6
      <4> QED BY <1>1, <2>1, <3>1, <3>6, <4>1
    <3>7. \/ p < i \/ q < j \/ (p = i /\ q = j) \/ (first /\ p = i /\ q > j)
          \/ (~first /\ q = j /\ p > i)
      <4> HIDE DEF first
      <4>1. CASE first
        <5>1. p < i + 1 \/ q < j
          BY <2>2, <4>1
        <5> QED BY <2>1, <3>2, <4>1, <5>1
      <4>2. CASE ~first
        <5>1. p < i \/ q < j + 1
          BY <2>2, <4>2
        <5> QED BY <2>1, <3>2, <4>2, <5>1
      <4> QED BY <4>1, <4>2
    <3> QED BY <3>3, <3>4, <3>5, <3>6, <3>7
  <2> HIDE DEF new
  <2>6. SweptTo(l, r, n + 1, new)
    BY <2>3, <2>4, <2>5 DEF SweptTo
  <2> QED BY <2>6 DEF new
<1> QED BY <1>3, <1>4

\* Intersect: what any two of the windows share, and nothing else.
LEMMA IntersectIs ==
    ASSUME NEW A, NEW B, Apart(A), Apart(B)
    PROVE  \A x : x \in Intersect(A, B)
                  <=> \E a \in A, b \in B : x = Both(a, b) /\ x.to > x.from
<1> DEFINE l == ByStart(A)
           r == ByStart(B)
           N == Len(l) + Len(r)
           first == [i |-> 1, j |-> 1, out |-> {}]
           E(g) == g = [n \in 0 .. N |-> IF n = 0 THEN first ELSE Advance(l, r, g[n - 1])]
           swept == CHOOSE g : E(g)
<1>1. InLine(A, l) /\ InLine(B, r)
  BY ApartInLine
<1>2. Intersect(A, B) = swept[N].out
  BY DEF Intersect
<1> HIDE DEF l, r
<1>3. /\ Len(l) \in Nat /\ DOMAIN l = 1 .. Len(l) /\ l \in Seq(Interval) /\ ToSet(l) = A
      /\ Len(r) \in Nat /\ DOMAIN r = 1 .. Len(r) /\ r \in Seq(Interval) /\ ToSet(r) = B
  BY <1>1 DEF InLine
<1>4. N \in Nat
  BY <1>3
<1>5. \E g : E(g)
  <2> DEFINE S == [i : Nat \ {0}, j : Nat \ {0}, out : SUBSET Interval]
             step == [k \in Nat |-> [x \in S |-> Advance(l, r, x)]]
  <2>1. \A x \in S : Advance(l, r, x) \in S
    <3> TAKE x \in S
    <3>1. x.i \in Nat \ {0} /\ x.j \in Nat \ {0} /\ x.out \in SUBSET Interval
      OBVIOUS
    <3>2. CASE x.i > Len(l) \/ x.j > Len(r)
      BY <3>2 DEF Advance
    <3>3. CASE ~(x.i > Len(l) \/ x.j > Len(r))
      <4> DEFINE out == x.out \union {y \in {Both(l[x.i], r[x.j])} : y.to > y.from}
                 before == l[x.i].to < r[x.j].to
      <4>1. x.i \in DOMAIN l /\ x.j \in DOMAIN r
        BY <1>3, <3>1, <3>3
      <4>2. l[x.i] \in Interval /\ r[x.j] \in Interval
        BY <1>3, <4>1
      <4>3. Both(l[x.i], r[x.j]) \in Interval
        BY <4>2, BothIs
      <4>4. out \in SUBSET Interval
        BY <3>1, <4>3
      <4>5. Advance(l, r, x) = [i |-> IF before THEN x.i + 1 ELSE x.i,
                                j |-> IF before THEN x.j ELSE x.j + 1, out |-> out]
        BY <3>3 DEF Advance
      <4> HIDE DEF out, before
      <4> QED BY <3>1, <4>4, <4>5
    <3> QED BY <3>2, <3>3
  <2>2. step \in [Nat -> [S -> S]]
    BY <2>1
  <2>3. first \in S
    OBVIOUS
  <2>4. \A k \in Nat, x \in S : step[k][x] = Advance(l, r, x)
    OBVIOUS
  <2> HIDE DEF step, S, first, N
  <2>5. Runs(S, first, step, N)
    BY <1>4, <2>2, <2>3, Repeated
  <2>6. PICK g \in [0 .. N -> S] : g[0] = first /\ \A k \in 1 .. N : g[k] = step[k][g[k - 1]]
    BY <2>5 DEF Runs
  <2>7. \A k \in 1 .. N : g[k] = Advance(l, r, g[k - 1])
    <3> TAKE k \in 1 .. N
    <3>1. k - 1 \in 0 .. N /\ k \in Nat
      BY <1>4
    <3> QED BY <2>4, <2>6, <3>1
  <2>8. \A k \in 0 .. N : k = 0 \/ k \in 1 .. N
    BY <1>4
  <2>9. E(g)
    BY <2>6, <2>7, <2>8
  <2> QED BY <2>9
<1>6. E(swept)
  BY <1>5
<1> HIDE DEF swept, N
<1>7. swept[0] = first /\ \A n \in 1 .. N : swept[n] = Advance(l, r, swept[n - 1])
  <2>1. 0 \in 0 .. N /\ \A n \in 1 .. N : n \in 0 .. N /\ n # 0
    BY <1>4
  <2>2. \A n \in 0 .. N : swept[n] = IF n = 0 THEN first ELSE Advance(l, r, swept[n - 1])
    BY <1>6
  <2> HIDE DEF first
  <2> QED BY <2>1, <2>2
<1> DEFINE X == {n \in Nat : n <= N => SweptTo(l, r, n, swept[n])}
<1>8. 0 \in X
  <2>1. swept[0].out = {} /\ swept[0].i = 1 /\ swept[0].j = 1
    BY <1>7
  <2>2. 1 \in 1 .. Len(l) + 1 /\ 1 \in 1 .. Len(r) + 1 /\ 1 + 1 = 0 + 2
    BY <1>3
  <2>3. (\A p \in DOMAIN l : ~(p < 1)) /\ \A q \in DOMAIN r : ~(q < 1)
    BY <1>3
  <2> HIDE DEF first
  <2>4. SweptTo(l, r, 0, swept[0])
    BY <2>1, <2>2, <2>3 DEF SweptTo
  <2> QED BY <2>4
<1>9. \A k \in Nat : k \in X => k + 1 \in X
  <2> SUFFICES ASSUME NEW k \in Nat, k + 1 <= N, k <= N => SweptTo(l, r, k, swept[k])
               PROVE  SweptTo(l, r, k + 1, swept[k + 1])
    OBVIOUS
  <2>1. k + 1 \in 1 .. N /\ (k + 1) - 1 = k /\ k <= N
    BY <1>4
  <2>2. swept[k + 1] = Advance(l, r, swept[k])
    BY <1>7, <2>1
  <2>3. SweptTo(l, r, k, swept[k])
    BY <2>1
  <2> QED BY <1>1, <2>2, <2>3, SweptOneMore
<1> HIDE DEF X
<1>10. N \in X
  BY <1>4, <1>8, <1>9, CountedUp
<1>11. SweptTo(l, r, N, swept[N])
  BY <1>4, <1>10 DEF X
<1> DEFINE at == swept[N]
<1> HIDE DEF at
<1>12. /\ at.i \in 1 .. Len(l) + 1 /\ at.j \in 1 .. Len(r) + 1
       /\ at.i > Len(l) \/ at.j > Len(r) \/ at.i + at.j = Len(l) + Len(r) + 2
       /\ \A x \in at.out : \E p \in DOMAIN l, q \in DOMAIN r : x = Both(l[p], r[q]) /\ x.to > x.from
       /\ \A p \in DOMAIN l, q \in DOMAIN r :
             (p < at.i \/ q < at.j) /\ Both(l[p], r[q]).to > Both(l[p], r[q]).from
             => Both(l[p], r[q]) \in at.out
  BY <1>11 DEF SweptTo, at, N
<1>13. \A p \in DOMAIN l, q \in DOMAIN r : p < at.i \/ q < at.j
  <2>1. at.i > Len(l) \/ at.j > Len(r)
    BY <1>3, <1>12
  <2> QED BY <1>3, <1>12, <2>1
<1>14. \A x : x \in at.out <=> \E p \in DOMAIN l, q \in DOMAIN r : x = Both(l[p], r[q]) /\ x.to > x.from
  BY <1>12, <1>13
<1>15. A = {l[p] : p \in DOMAIN l} /\ B = {r[q] : q \in DOMAIN r}
  BY <1>3 DEF ToSet
<1>16. Intersect(A, B) = at.out
  BY <1>2 DEF at
<1> QED BY <1>14, <1>15, <1>16

-----------------------------------------------------------------------------
(* Clocks.                                                                 *)

\* A reading is on the day it is past the midnight of.
LEMMA OnDay ==
    ASSUME NEW x \in Int
    PROVE  /\ x \div Day \in Int /\ x % Day = x - (x \div Day) * Day
           /\ \A q \in Int : q * Day \in Int /\ (q <= x \div Day <=> q * Day <= x)
<1> DEFINE d == x \div Day
<1>0. Day \in Nat \ {0}
  BY ClockAssumption
<1>1. d \in Int /\ d * Day <= x /\ x < d * Day + Day /\ x % Day = x - d * Day
  BY <1>0
<1> HIDE DEF d
<1>2. \A q \in Int : q * Day \in Int /\ (q <= d <=> q * Day <= x)
  <2> TAKE q \in Int
  <2>1. q * Day \in Int /\ d * Day \in Int /\ (d + 1) * Day \in Int /\ (d + 1) * Day = d * Day + Day
    BY <1>0, <1>1
  <2>2. CASE q <= d
    <3>1. q * Day <= d * Day
      BY <1>0, <1>1, <2>2, Products
    <3> QED BY <1>1, <2>1, <2>2, <3>1
  <2>3. CASE ~(q <= d)
    <3>1. d + 1 <= q /\ d + 1 \in Int
      BY <1>1, <2>3
    <3>2. (d + 1) * Day <= q * Day
      BY <1>0, <3>1, Products
    <3> QED BY <1>1, <2>1, <2>3, <3>2
  <2> QED BY <2>2, <2>3
<1> QED BY <1>1, <1>2 DEF d

ClockZone == [before : -Day .. Day, after : -Day .. Day, at : Int]

\* A reading the clock shows once divides the instants: those whose clock
\* shows as much are those from there on.  Wall finds it.
LEMMA ShownOnce ==
    ASSUME NEW z \in ClockZone, NEW r \in Int, NEW s \in Int, Local(z, s) = r,
           \A t \in Int : Local(z, t) = r => t = s
    PROVE  /\ Wall(z, r) = s
           /\ \A t \in Int : r <= Local(z, t) <=> s <= t
<1>1. z.before \in Int /\ z.after \in Int /\ z.at \in Int
  BY ClockAssumption DEF ClockZone
<1>2. \A t \in Int : Local(z, t) = IF t < z.at THEN t + z.before ELSE t + z.after
  BY DEF Local, Offset
<1>3. r - z.before < z.at => r - z.before = s
  <2> SUFFICES ASSUME r - z.before < z.at PROVE r - z.before = s
    OBVIOUS
  <2>1. r - z.before \in Int /\ Local(z, r - z.before) = r
    BY <1>1, <1>2
  <2> QED BY <2>1
<1>4. ~(r - z.after < z.at) => r - z.after = s
  <2> SUFFICES ASSUME ~(r - z.after < z.at) PROVE r - z.after = s
    OBVIOUS
  <2>1. r - z.after \in Int /\ Local(z, r - z.after) = r
    BY <1>1, <1>2
  <2> QED BY <2>1
<1>5. r = IF s < z.at THEN s + z.before ELSE s + z.after
  BY <1>2
<1>6. Wall(z, r) = s
  BY <1>1, <1>3, <1>4, <1>5 DEF Wall, Offset
<1>7. \A t \in Int : r <= Local(z, t) <=> s <= t
  BY <1>1, <1>2, <1>3, <1>4, <1>5
<1> QED BY <1>6, <1>7

\* What EdgesAreClear says of one edge.
LEMMA ClearEdge ==
    ASSUME NEW z \in ClockZone, NEW d \in Int, NEW r \in 0 .. Day,
           Cardinality({t \in (d - 1) * Day .. (d + 2) * Day : Local(z, t) = d * Day + r}) = 1
    PROVE  /\ Wall(z, d * Day + r) \in Int
           /\ \A t \in Int : d * Day + r <= Local(z, t) <=> Wall(z, d * Day + r) <= t
<1> DEFINE lo == (d - 1) * Day
           hi == (d + 2) * Day
           S == {t \in lo .. hi : Local(z, t) = d * Day + r}
<1>1. Day \in Nat \ {0} /\ r \in Int /\ 0 <= r /\ r <= Day
  BY ClockAssumption
<1>2. /\ d * Day \in Int /\ lo \in Int /\ hi \in Int
      /\ lo = d * Day - Day /\ hi = d * Day + Day + Day
  BY <1>1
<1>3. /\ z.before \in Int /\ -Day <= z.before /\ z.before <= Day
      /\ z.after \in Int /\ -Day <= z.after /\ z.after <= Day /\ z.at \in Int
  BY <1>1 DEF ClockZone
<1> HIDE DEF lo, hi
<1>4. \A t \in Int : Local(z, t) = IF t < z.at THEN t + z.before ELSE t + z.after
  BY DEF Local, Offset
<1>5. \A t \in Int : Local(z, t) = d * Day + r => t \in S
  <2> SUFFICES ASSUME NEW t \in Int, Local(z, t) = d * Day + r PROVE lo <= t /\ t <= hi
    BY <1>2
  <2> DEFINE m == d * Day
  <2>1. m \in Int
    BY <1>2
  <2>2. lo = m - Day /\ hi = m + Day + Day /\ Local(z, t) = m + r
    BY <1>2
  <2> HIDE DEF m
  <2> QED BY <1>1, <1>3, <1>4, <2>1, <2>2
<1>6. PICK s : S = {s}
  <2>1. IsFiniteSet(lo .. hi)
    BY <1>2, FS_Interval
  <2>2. S \in SUBSET (lo .. hi)
    OBVIOUS
  <2>3. IsFiniteSet(S)
    BY <2>1, <2>2, FS_Subset
  <2>4. Cardinality(S) = 1
    BY DEF lo, hi
  <2> HIDE DEF S
  <2> QED BY <2>3, <2>4, FS_Singleton
<1>7. s \in Int /\ Local(z, s) = d * Day + r
  <2>1. s \in S
    BY <1>6
  <2> QED BY <1>2, <2>1
<1>8. \A t \in Int : Local(z, t) = d * Day + r => t = s
  BY <1>5, <1>6
<1>9. d * Day + r \in Int
  BY <1>1, <1>2
<1> DEFINE e == d * Day + r
<1> HIDE DEF e, S
<1>10. e \in Int /\ Local(z, s) = e /\ \A t \in Int : Local(z, t) = e => t = s
  BY <1>7, <1>8, <1>9 DEF e
<1>11. Wall(z, e) = s /\ \A t \in Int : e <= Local(z, t) <=> s <= t
  BY <1>7, <1>10, ShownOnce
<1> QED BY <1>7, <1>11 DEF e

-----------------------------------------------------------------------------
(* Working hours, and what the gaps of a window are.                       *)

\* Windows that share no instant are apart.
LEMMA NothingShared ==
    ASSUME NEW S \in SUBSET Interval, IsFiniteSet(S), \A x \in S : x.from < x.to,
           \A x, y \in S : \A t \in Int : Within(x, t) /\ Within(y, t) => x = y
    PROVE  Apart(S)
<1>1. \A x, y \in S : x = y \/ x.to <= y.from \/ y.to <= x.from
  <2> SUFFICES ASSUME NEW x \in S, NEW y \in S, ~(x.to <= y.from), ~(y.to <= x.from) PROVE x = y
    OBVIOUS
  <2>1. x.from \in Int /\ x.to \in Int /\ x.from < x.to /\ y.from \in Int /\ y.to \in Int /\ y.from < y.to
    BY DEF Interval
  <2>2. CASE x.from < y.from
    <3>1. Within(x, y.from) /\ Within(y, y.from)
      BY <2>1, <2>2 DEF Within
    <3> QED BY <2>1, <3>1
  <2>3. CASE ~(x.from < y.from)
    <3>1. Within(x, x.from) /\ Within(y, x.from)
      BY <2>1, <2>3 DEF Within
    <3> QED BY <2>1, <3>1
  <2> QED BY <2>2, <2>3
<1> QED BY <1>1 DEF Apart

\* An instant the hours keep, and its edges shown once on every day near w.
Kept(z, h, t) ==
    LET reading == Local(z, t) % Day
    IN  Keeps(h, DateIn(z, t)) /\ h.from <= reading /\ reading < h.to
Clear(z, h, w) ==
    \A d \in DateIn(z, w.from) - 1 .. DateIn(z, w.to) + 1 :
        \A r \in {0, h.from, h.to} :
            Cardinality({t \in (d - 1) * Day .. (d + 2) * Day : Local(z, t) = d * Day + r}) = 1

HoursMask == {h \in [from : 0 .. Day, to : 0 .. Day, days : SUBSET Weekdays] : h.from < h.to}

\* What a day's edges are, one of w's days: the instants of its hours.
LEMMA DayHours ==
    ASSUME NEW z \in ClockZone, NEW h \in HoursMask, NEW w \in Interval, Clear(z, h, w),
           NEW d \in DateIn(z, w.from) .. DateIn(z, w.to)
    PROVE  /\ d \in Int /\ MaskEdges(z, h, d) \in Interval
           /\ \A t \in Int : Within(MaskEdges(z, h, d), t)
                             <=> DateIn(z, t) = d /\ h.from <= Local(z, t) % Day /\ Local(z, t) % Day < h.to
<1> DEFINE lo == DateIn(z, w.from)
           hi == DateIn(z, w.to)
           m == MaskEdges(z, h, d)
<1>1. /\ Day \in Nat \ {0} /\ 0 \in 0 .. Day
      /\ h.from \in 0 .. Day /\ h.to \in 0 .. Day /\ h.from < h.to
      /\ h.from \in Int /\ 0 <= h.from /\ h.to \in Int /\ h.to <= Day
  BY ClockAssumption DEF HoursMask
<1>2. \A t \in Int : Local(z, t) \in Int
  BY <1>1 DEF Local, Offset, ClockZone
<1>3. lo \in Int /\ hi \in Int
  BY <1>1, <1>2 DEF DateIn, Interval
<1> HIDE DEF lo, hi
<1>4. d \in Int /\ d \in lo - 1 .. hi + 1 /\ d + 1 \in Int /\ d + 1 \in lo - 1 .. hi + 1
  BY <1>3 DEF lo, hi
<1> DEFINE Edge(e, r) == /\ Wall(z, e * Day + r) \in Int
                         /\ \A t \in Int : e * Day + r <= Local(z, t) <=> Wall(z, e * Day + r) <= t
<1>5. \A e \in lo - 1 .. hi + 1 : \A r \in {0, h.from, h.to} : Edge(e, r)
  <2> TAKE e \in lo - 1 .. hi + 1
  <2> TAKE r \in {0, h.from, h.to}
  <2>1. e \in Int /\ r \in 0 .. Day
    BY <1>1, <1>3
  <2>2. Cardinality({t \in (e - 1) * Day .. (e + 2) * Day : Local(z, t) = e * Day + r}) = 1
    BY DEF Clear, lo, hi
  <2> QED BY <2>1, <2>2, ClearEdge
<1>6. Edge(d, h.from) /\ Edge(d, h.to) /\ Edge(d, 0) /\ Edge(d + 1, 0)
  BY <1>4, <1>5
<1> DEFINE a == d * Day
<1>7. /\ a \in Int /\ (d + 1) * Day = a + Day
      /\ d * Day + 0 = a /\ (d + 1) * Day + 0 = a + Day
  BY <1>1, <1>4
<1>8. /\ Wall(z, a) \in Int /\ \A t \in Int : a <= Local(z, t) <=> Wall(z, a) <= t
      /\ Wall(z, a + Day) \in Int /\ \A t \in Int : a + Day <= Local(z, t) <=> Wall(z, a + Day) <= t
  BY <1>6, <1>7
<1>9. /\ Wall(z, a + h.from) \in Int
      /\ \A t \in Int : a + h.from <= Local(z, t) <=> Wall(z, a + h.from) <= t
      /\ Wall(z, a + h.to) \in Int
      /\ \A t \in Int : a + h.to <= Local(z, t) <=> Wall(z, a + h.to) <= t
  BY <1>6
<1>10. /\ m = [from |-> m.from, to |-> m.to]
       /\ m.from = IF h.from = 0 THEN Wall(z, a) ELSE Wall(z, a + h.from)
       /\ m.to = IF h.to = Day THEN Wall(z, a + Day) ELSE Wall(z, a + h.to)
  BY <1>7 DEF MaskEdges, StartIn
<1>11. \A t \in Int : /\ a <= Local(z, t) <=> d <= DateIn(z, t)
                      /\ a + Day <= Local(z, t) <=> d + 1 <= DateIn(z, t)
                      /\ DateIn(z, t) \in Int /\ Local(z, t) % Day = Local(z, t) - DateIn(z, t) * Day
  <2> TAKE t \in Int
  <2>1. Local(z, t) \in Int
    BY <1>2
  <2> QED BY <1>4, <1>7, <2>1, OnDay DEF DateIn
<1> HIDE DEF m, a, Edge
<1>12. m \in Interval
  BY <1>8, <1>9, <1>10 DEF Interval
<1>13. \A t \in Int : Within(m, t) <=> a + h.from <= Local(z, t) /\ Local(z, t) < a + h.to
  <2> TAKE t \in Int
  <2>1. m.from <= t <=> a + h.from <= Local(z, t)
    BY <1>1, <1>7, <1>8, <1>9, <1>10
  <2>2. t < m.to <=> Local(z, t) < a + h.to
    <3>1. Local(z, t) \in Int
      BY <1>2
    <3>2. CASE h.to = Day
      BY <1>1, <1>7, <1>8, <1>10, <3>1, <3>2
    <3>3. CASE h.to # Day
      BY <1>1, <1>7, <1>9, <1>10, <3>1, <3>3
    <3> QED BY <3>2, <3>3
  <2> QED BY <2>1, <2>2 DEF Within
<1>14. \A t \in Int : a + h.from <= Local(z, t) /\ Local(z, t) < a + h.to
                      <=> DateIn(z, t) = d /\ h.from <= Local(z, t) % Day /\ Local(z, t) % Day < h.to
  <2> TAKE t \in Int
  <2> DEFINE L == Local(z, t)
             D == DateIn(z, t)
  <2>1. /\ L \in Int /\ D \in Int /\ (a <= L <=> d <= D) /\ (a + Day <= L <=> d + 1 <= D)
        /\ L % Day = L - D * Day
    BY <1>2, <1>11
  <2>2. D = d => L % Day = L - a
    BY <2>1 DEF a
  <2> HIDE DEF L, D
  <2>3. ASSUME a + h.from <= L, L < a + h.to PROVE D = d
    BY <1>1, <1>4, <1>7, <2>1, <2>3
  <2>4. ASSUME D = d PROVE a + h.from <= L /\ L < a + h.to <=> h.from <= L % Day /\ L % Day < h.to
    <3>1. L % Day = L - a
      BY <2>2, <2>4
    <3> QED BY <1>1, <1>7, <2>1, <3>1
  <2>5. a + h.from <= L /\ L < a + h.to <=> D = d /\ h.from <= L % Day /\ L % Day < h.to
    BY <2>3, <2>4
  <2> QED BY <2>5 DEF L, D
<1>15. \A t \in Int : Within(m, t)
                       <=> DateIn(z, t) = d /\ h.from <= Local(z, t) % Day /\ Local(z, t) % Day < h.to
  BY <1>13, <1>14
<1> QED BY <1>4, <1>12, <1>15 DEF m

\* The hours of a window: apart, each on one day, and all the instants the
\* hours keep.
LEMMA WindowsAre ==
    ASSUME NEW z \in ClockZone, NEW h \in HoursMask, NEW w \in Interval, w.from < w.to, Clear(z, h, w)
    PROVE  /\ Apart(Windows(z, h, w))
           /\ \A x \in Windows(z, h, w) : \E d \in Int : \A t \in Int :
                 Within(x, t) <=> Within(w, t) /\ Kept(z, h, t) /\ DateIn(z, t) = d
           /\ \A t \in Int : Within(w, t) /\ Kept(z, h, t) => \E x \in Windows(z, h, w) : Within(x, t)
<1> DEFINE lo == DateIn(z, w.from)
           hi == DateIn(z, w.to)
           dates == {x \in lo .. hi : Keeps(h, x)}
           on(d) == Clip(w, MaskEdges(z, h, d))
           all == {on(d) : d \in dates}
           W == Windows(z, h, w)
<1>1. /\ Day \in Nat \ {0} /\ w.from \in Int /\ w.to \in Int
      /\ \A t \in Int : Local(z, t) \in Int
  BY ClockAssumption DEF Local, Offset, ClockZone, Interval
<1>2. lo \in Int /\ hi \in Int /\ \A t \in Int : DateIn(z, t) \in Int
  BY <1>1 DEF DateIn
<1>3. W = {i \in all : i.to > i.from}
  BY DEF Windows
<1> HIDE DEF W
<1>4. \A d \in dates : /\ d \in Int /\ on(d) \in Interval
                       /\ \A t \in Int : Within(on(d), t)
                                         <=> Within(w, t) /\ Kept(z, h, t) /\ DateIn(z, t) = d
  <2> TAKE d \in dates
  <2> DEFINE m == MaskEdges(z, h, d)
  <2>1. /\ d \in Int /\ m \in Interval
        /\ \A t \in Int : Within(m, t)
                          <=> DateIn(z, t) = d /\ h.from <= Local(z, t) % Day /\ Local(z, t) % Day < h.to
    BY DayHours
  <2>2. Keeps(h, d)
    OBVIOUS
  <2> HIDE DEF m
  <2>3. /\ Both(w, m) \in Interval
        /\ \A t \in Int : Within(Both(w, m), t) <=> Within(w, t) /\ Within(m, t)
    BY <2>1, BothIs
  <2>4. on(d) = Both(w, m)
    BY DEF Both, m
  <2>5. \A t \in Int : Within(m, t) <=> Kept(z, h, t) /\ DateIn(z, t) = d
    BY <2>1, <2>2 DEF Kept
  <2> HIDE DEF on
  <2> QED BY <2>1, <2>3, <2>4, <2>5
<1>5. IsFiniteSet(all)
  <2> DEFINE f == [d \in dates |-> on(d)]
  <2>1. IsFiniteSet(lo .. hi) /\ dates \in SUBSET (lo .. hi)
    BY <1>2, FS_Interval
  <2>2. IsFiniteSet(dates)
    BY <2>1, FS_Subset
  <2>3. f \in Surjection(dates, all)
    BY DEF Surjection
  <2> HIDE DEF f, dates, all
  <2> QED BY <2>2, <2>3, FS_Surjection
<1>6. IsFiniteSet(W)
  <2>1. W \in SUBSET all
    BY <1>3
  <2> HIDE DEF all
  <2> QED BY <1>5, <2>1, FS_Subset
<1> HIDE DEF on
<1>7. \A x \in W : x.from < x.to /\ \E d \in dates : x = on(d)
  <2> TAKE x \in W
  <2>1. PICK d \in dates : x = on(d)
    BY <1>3
  <2>2. x.to > x.from /\ x.from \in Int /\ x.to \in Int
    BY <1>3, <1>4, <2>1 DEF Interval
  <2> QED BY <2>1, <2>2
<1>8. Apart(W)
  <2>1. W \in SUBSET Interval
    BY <1>4, <1>7
  <2>2. \A x, y \in W : \A t \in Int : Within(x, t) /\ Within(y, t) => x = y
    <3> SUFFICES ASSUME NEW x \in W, NEW y \in W, NEW t \in Int, Within(x, t), Within(y, t) PROVE x = y
      OBVIOUS
    <3>1. PICK d \in dates : x = on(d)
      BY <1>7
    <3>2. PICK e \in dates : y = on(e)
      BY <1>7
    <3>3. DateIn(z, t) = d /\ DateIn(z, t) = e
      BY <1>4, <3>1, <3>2
    <3> QED BY <3>1, <3>2, <3>3
  <2> QED BY <1>6, <1>7, <2>1, <2>2, NothingShared
<1>9. \A x \in W : \E d \in Int : \A t \in Int :
         Within(x, t) <=> Within(w, t) /\ Kept(z, h, t) /\ DateIn(z, t) = d
  <2> TAKE x \in W
  <2>1. PICK d \in dates : x = on(d)
    BY <1>7
  <2> WITNESS d \in Int
  <2> QED BY <1>4, <2>1
<1>10. \A t \in Int : Within(w, t) => DateIn(z, t) \in lo .. hi
  <2> SUFFICES ASSUME NEW t \in Int, Within(w, t) PROVE DateIn(z, t) \in lo .. hi
    OBVIOUS
  <2> DEFINE Edge(e) == /\ Wall(z, e * Day + 0) \in Int
                        /\ \A u \in Int : e * Day + 0 <= Local(z, u) <=> Wall(z, e * Day + 0) <= u
  <2>1. \A e \in lo - 1 .. hi + 1 : Edge(e)
    <3> TAKE e \in lo - 1 .. hi + 1
    <3>1. e \in Int /\ 0 \in 0 .. Day
      BY <1>1, <1>2
    <3>2. Cardinality({u \in (e - 1) * Day .. (e + 2) * Day : Local(z, u) = e * Day + 0}) = 1
      BY DEF Clear
    <3> QED BY <3>1, <3>2, ClearEdge
  <2> HIDE DEF lo, hi
  <2>2. \A e \in Int, u \in Int : e * Day + 0 <= Local(z, u) <=> e <= DateIn(z, u)
    <3> TAKE e \in Int, u \in Int
    <3>1. e * Day \in Int /\ Local(z, u) \in Int
      BY <1>1
    <3> QED BY <3>1, OnDay DEF DateIn
  <2>3. w.from <= t /\ t < w.to
    BY DEF Within
  <2>4. lo - 1 <= hi + 1
    <3>1. z.before \in -Day .. Day /\ z.after \in -Day .. Day /\ z.at \in Int
      BY DEF ClockZone
    <3> DEFINE l == Local(z, w.from)
               m == Local(z, w.to)
    <3>2. l \in Int /\ m \in Int
      BY <1>1
    <3>3. l <= m + Day + Day
      BY <1>1, <3>1 DEF Local, Offset
    <3>4. \A q \in Int : q * Day \in Int /\ (q <= lo <=> q * Day <= l) /\ (q <= hi <=> q * Day <= m)
      BY <3>2, OnDay DEF lo, hi, DateIn
    <3> HIDE DEF l, m
    <3>5. /\ lo - 2 \in Int /\ lo * Day \in Int /\ (lo - 2) * Day \in Int
          /\ (lo - 2) * Day = lo * Day - Day - Day
      BY <1>1, <1>2
    <3>6. lo * Day <= l
      BY <1>2, <3>4
    <3>7. (lo - 2) * Day <= m
      BY <1>1, <3>2, <3>3, <3>5, <3>6
    <3>8. lo - 2 <= hi
      BY <3>4, <3>5, <3>7
    <3> QED BY <1>2, <3>8
  <2>5. \A e \in Int, u \in Int : Edge(e) => (e <= DateIn(z, u) <=> Wall(z, e * Day + 0) <= u)
    BY <2>2
  <2>6. DateIn(z, w.from) = lo /\ DateIn(z, w.to) = hi
    BY DEF lo, hi
  <2>7. \A e \in Int, u, v \in Int : Edge(e) /\ e <= DateIn(z, u) /\ u <= v => e <= DateIn(z, v)
    <3> SUFFICES ASSUME NEW e \in Int, NEW u \in Int, NEW v \in Int, Edge(e), e <= DateIn(z, u), u <= v
                 PROVE  e <= DateIn(z, v)
      OBVIOUS
    <3>1. Wall(z, e * Day + 0) \in Int /\ Wall(z, e * Day + 0) <= u
      BY <2>5
    <3>2. Wall(z, e * Day + 0) <= v
      BY <3>1
    <3> QED BY <2>5, <3>2
  <2> HIDE DEF Edge
  <2>8. lo - 1 <= hi
    <3>1. lo - 1 \in Int /\ lo - 1 \in lo - 1 .. hi + 1 /\ lo - 1 <= lo /\ w.from <= w.to
      BY <1>1, <1>2, <2>4
    <3> QED BY <1>1, <2>1, <2>6, <2>7, <3>1
  <2>9. lo <= DateIn(z, t)
    <3>1. lo \in lo - 1 .. hi + 1 /\ lo <= lo
      BY <1>2, <2>8
    <3> QED BY <1>1, <1>2, <2>1, <2>3, <2>6, <2>7, <3>1
  <2>10. DateIn(z, t) <= hi
    <3>1. hi + 1 \in Int /\ hi + 1 \in lo - 1 .. hi + 1 /\ t <= w.to
      BY <1>1, <1>2, <2>3, <2>8
    <3>2. hi + 1 <= DateIn(z, t) => hi + 1 <= hi
      BY <1>1, <2>1, <2>6, <2>7, <3>1
    <3> QED BY <1>2, <3>2
  <2> QED BY <1>2, <2>9, <2>10
<1>11. \A t \in Int : Within(w, t) /\ Kept(z, h, t) => \E x \in W : Within(x, t)
  <2> SUFFICES ASSUME NEW t \in Int, Within(w, t), Kept(z, h, t) PROVE \E x \in W : Within(x, t)
    OBVIOUS
  <2> DEFINE d == DateIn(z, t)
  <2>1. d \in dates
    BY <1>10 DEF Kept
  <2>2. Within(on(d), t) /\ on(d) \in Interval
    BY <1>4, <2>1
  <2>3. on(d).to > on(d).from
    BY <2>2 DEF Within, Interval
  <2>4. on(d) \in W
    BY <1>3, <2>1, <2>3
  <2> QED BY <2>2, <2>4
<1> QED BY <1>8, <1>9, <1>11 DEF W

\* The whole stretches of F, where J says which instant goes on to the next.
Stretch(F, J, g) ==
    /\ g.from < g.to
    /\ g.from .. g.to - 2 \subseteq J
    /\ g.to - 1 \in F
    /\ g.from - 1 \notin J /\ g.to - 1 \notin J

\* Windows that are stretches, with every instant in one, are all of them.
LEMMA Stretches ==
    ASSUME NEW F \in SUBSET Int, NEW J \in SUBSET F, NEW G \in SUBSET Interval,
           \A g \in G : Stretch(F, J, g) /\ \A t \in Int : Within(g, t) => t \in F,
           \A t \in F : \E g \in G : Within(g, t)
    PROVE  G = {g \in [from : F, to : {t + 1 : t \in F}] : Stretch(F, J, g)}
<1> DEFINE all == {g \in [from : F, to : {t + 1 : t \in F}] : Stretch(F, J, g)}
<1>1. \A x \in Interval : x.from \in Int /\ x.to \in Int /\ x = [from |-> x.from, to |-> x.to]
  BY DEF Interval
<1>2. ASSUME NEW g \in G PROVE g \in all
  <2>1. g.from \in Int /\ g.to \in Int /\ g = [from |-> g.from, to |-> g.to]
    BY <1>1
  <2>2. g.from < g.to /\ g.to - 1 \in F
    BY DEF Stretch
  <2>3. Within(g, g.from)
    BY <2>1, <2>2 DEF Within
  <2>4. g.from \in F
    BY <2>1, <2>3
  <2>5. g.to = (g.to - 1) + 1
    BY <2>1
  <2>6. g.to \in {t + 1 : t \in F}
    BY <2>2, <2>5
  <2> QED BY <2>1, <2>4, <2>6
<1>3. ASSUME NEW g \in all PROVE g \in G
  <2>1. g.from \in F /\ g.from \in Int /\ g.to \in Int /\ g = [from |-> g.from, to |-> g.to]
    <3> DEFINE ends == {t + 1 : t \in F}
    <3>1. \A x \in ends : x \in Int
      OBVIOUS
    <3>2. g \in [from : F, to : ends]
      OBVIOUS
    <3> HIDE DEF ends, all
    <3> QED BY <3>1, <3>2
  <2>2. Stretch(F, J, g)
    OBVIOUS
  <2> HIDE DEF all
  <2>3. PICK x \in G : Within(x, g.from)
    BY <2>1
  <2>4. /\ x.from \in Int /\ x.to \in Int /\ x = [from |-> x.from, to |-> x.to]
        /\ x.from <= g.from /\ g.from < x.to
    BY <1>1, <2>3 DEF Within
  <2>5. g.from < g.to /\ g.from - 1 \notin J /\ g.to - 1 \notin J
        /\ \A t \in Int : g.from <= t /\ t < g.to - 1 => t \in J
    BY <2>1, <2>2 DEF Stretch
  <2>6. x.to - 1 \notin J /\ \A t \in Int : x.from <= t /\ t < x.to - 1 => t \in J
    BY <2>4 DEF Stretch
  <2>7. ~(x.from < g.from)
    <3> SUFFICES ASSUME x.from < g.from PROVE FALSE
      OBVIOUS
    <3>1. g.from - 1 \in Int /\ x.from <= g.from - 1 /\ g.from - 1 < x.to - 1
      BY <2>1, <2>4
    <3> QED BY <2>5, <2>6, <3>1
  <2>8. ~(g.to < x.to)
    <3> SUFFICES ASSUME g.to < x.to PROVE FALSE
      OBVIOUS
    <3>1. g.to - 1 \in Int /\ x.from <= g.to - 1 /\ g.to - 1 < x.to - 1
      BY <2>1, <2>4, <2>5
    <3> QED BY <2>5, <2>6, <3>1
  <2>9. ~(x.to < g.to)
    <3> SUFFICES ASSUME x.to < g.to PROVE FALSE
      OBVIOUS
    <3>1. x.to - 1 \in Int /\ g.from <= x.to - 1 /\ x.to - 1 < g.to - 1
      BY <2>1, <2>4, <2>5
    <3> QED BY <2>5, <2>6, <3>1
  <2>10. x.from = g.from /\ x.to = g.to
    BY <2>1, <2>4, <2>7, <2>8, <2>9
  <2>11. x = g
    BY <2>1, <2>4, <2>10
  <2> QED BY <2>11
<1> HIDE DEF all
<1>4. G = all
  BY <1>2, <1>3
<1> QED BY <1>4 DEF all

\* The instants of w that are free, and those that go on to the next.
FreeIn(z, w, busy, h) ==
    {t \in w.from .. w.to - 1 : ~Reach(busy, t) /\ (h = NoHours \/ Kept(z, h, t))}
GoesOn(z, w, busy, h) ==
    {t \in FreeIn(z, w, busy, h) :
        /\ t + 1 \in FreeIn(z, w, busy, h)
        /\ h = NoHours \/ DateIn(z, t) = DateIn(z, t + 1)}

\* Without hours the gaps are the stretches no period reaches.
LEMMA CutStretches ==
    ASSUME NEW z, NEW w \in Interval, NEW busy \in SUBSET Interval, IsFiniteSet(busy),
           \A b \in busy : b.from < b.to,
           NEW F \in SUBSET Int, NEW J \in SUBSET F,
           F = FreeIn(z, w, busy, NoHours), J = GoesOn(z, w, busy, NoHours)
    PROVE  /\ Cut(w, busy) \in SUBSET Interval
           /\ \A g \in Cut(w, busy) : Stretch(F, J, g) /\ \A t \in Int : Within(g, t) => t \in F
           /\ \A t \in F : \E g \in Cut(w, busy) : Within(g, t)
<1>1. w.from \in Int /\ w.to \in Int
  BY DEF Interval
<1>2. \A t \in Int : t \in F <=> w.from <= t /\ t < w.to /\ ~Reach(busy, t)
  BY <1>1 DEF FreeIn
<1>3. \A t \in Int : t \in J <=> t \in F /\ t + 1 \in F
  BY DEF GoesOn
<1> DEFINE C == Cut(w, busy)
<1>4. /\ \A g \in C : Gap(w, busy, g)
      /\ \A t \in Int : w.from <= t /\ t < w.to /\ ~Reach(busy, t) => \E g \in C : Within(g, t)
  BY <1>1, CutIs
<1> HIDE DEF C
<1>5. ASSUME NEW g \in C
      PROVE  g \in Interval /\ Stretch(F, J, g) /\ \A t \in Int : Within(g, t) => t \in F
  <2>1. /\ g \in Interval /\ g.from \in Int /\ g.to \in Int
        /\ g.from < g.to /\ w.from <= g.from /\ g.to <= w.to
        /\ \A t \in Int : Within(g, t) => ~Reach(busy, t)
        /\ g.from = w.from \/ Reach(busy, g.from - 1)
        /\ g.to = w.to \/ Reach(busy, g.to)
    BY <1>4 DEF Gap, Interval
  <2>2. \A t \in Int : g.from <= t /\ t < g.to => t \in F
    BY <1>1, <1>2, <2>1 DEF Within
  <2>3. \A t \in Int : g.from <= t /\ t < g.to - 1 => t \in J
    BY <1>3, <2>1, <2>2
  <2>4. g.to - 1 \in F
    BY <2>1, <2>2
  <2>5. g.from - 1 \notin F /\ g.to \notin F
    BY <1>1, <1>2, <2>1
  <2>6. g.from - 1 \notin J /\ g.to - 1 \notin J
    <3>1. (g.to - 1) + 1 = g.to /\ g.to - 1 \in Int
      BY <2>1
    <3> QED BY <1>3, <2>5, <3>1
  <2> QED BY <2>1, <2>2, <2>3, <2>4, <2>6 DEF Stretch, Within
<1>6. \A t \in F : \E g \in C : Within(g, t)
  BY <1>2, <1>4
<1> QED BY <1>5, <1>6 DEF C

\* With hours they are what those gaps share with the windows.
LEMMA MaskedStretches ==
    ASSUME NEW z \in ClockZone, NEW w \in Interval, w.from < w.to,
           NEW busy \in SUBSET Interval, IsFiniteSet(busy), \A b \in busy : b.from < b.to,
           NEW h \in HoursMask, Clear(z, h, w),
           NEW F \in SUBSET Int, NEW J \in SUBSET F,
           F = FreeIn(z, w, busy, h), J = GoesOn(z, w, busy, h)
    PROVE  LET G == Intersect(Cut(w, busy), Windows(z, h, w))
           IN  /\ G \in SUBSET Interval
               /\ \A g \in G : Stretch(F, J, g) /\ \A t \in Int : Within(g, t) => t \in F
               /\ \A t \in F : \E g \in G : Within(g, t)
<1> DEFINE C == Cut(w, busy)
           W == Windows(z, h, w)
           G == Intersect(C, W)
<1>1. w.from \in Int /\ w.to \in Int /\ h # NoHours
  BY DEF Interval, HoursMask, NoHours
<1>2. \A t \in Int : t \in F <=> Within(w, t) /\ ~Reach(busy, t) /\ Kept(z, h, t)
  BY <1>1 DEF FreeIn, Within
<1>3. \A t \in Int : t \in J <=> t \in F /\ t + 1 \in F /\ DateIn(z, t) = DateIn(z, t + 1)
  BY <1>1 DEF GoesOn
<1>4. /\ IsFiniteSet(C) /\ \A g \in C : Gap(w, busy, g)
      /\ \A t \in Int : w.from <= t /\ t < w.to /\ ~Reach(busy, t) => \E g \in C : Within(g, t)
  BY <1>1, CutIs
<1>5. /\ Apart(W)
      /\ \A x \in W : \E d \in Int : \A t \in Int :
            Within(x, t) <=> Within(w, t) /\ Kept(z, h, t) /\ DateIn(z, t) = d
      /\ \A t \in Int : Within(w, t) /\ Kept(z, h, t) => \E x \in W : Within(x, t)
  BY WindowsAre
<1> HIDE DEF C, W
<1>6. Apart(C)
  <2>1. C \in SUBSET Interval /\ \A x \in C : x.from < x.to
    BY <1>4 DEF Gap
  <2>2. \A x, y \in C : \A t \in Int : Within(x, t) /\ Within(y, t) => x = y
    BY <1>1, <1>4, GapsApart
  <2> QED BY <1>4, <2>1, <2>2, NothingShared
<1>7. \A x : x \in G <=> \E a \in C, b \in W : x = Both(a, b) /\ x.to > x.from
  BY <1>5, <1>6, IntersectIs
<1>8. C \in SUBSET Interval /\ W \in SUBSET Interval /\ \A x \in Interval : x.from \in Int /\ x.to \in Int
  BY <1>5, <1>6 DEF Apart, Interval
<1> HIDE DEF G
<1>9. ASSUME NEW g \in G
      PROVE  g \in Interval /\ Stretch(F, J, g) /\ \A t \in Int : Within(g, t) => t \in F
  <2>1. PICK a \in C, b \in W : g = Both(a, b) /\ g.to > g.from
    BY <1>7
  <2>2. /\ g \in Interval /\ g.from \in {a.from, b.from} /\ g.to \in {a.to, b.to}
        /\ \A t \in Int : Within(g, t) <=> Within(a, t) /\ Within(b, t)
    BY <1>8, <2>1, BothIs
  <2>3. /\ a.from \in Int /\ a.to \in Int /\ b.from \in Int /\ b.to \in Int
        /\ g.from \in Int /\ g.to \in Int /\ g.from < g.to
    BY <1>8, <2>1, <2>2
  <2>4. PICK d \in Int : \A t \in Int : Within(b, t) <=> Within(w, t) /\ Kept(z, h, t) /\ DateIn(z, t) = d
    BY <1>5
  <2>5. /\ \A t \in Int : Within(a, t) => ~Reach(busy, t)
        /\ a.from = w.from \/ Reach(busy, a.from - 1)
        /\ a.to = w.to \/ Reach(busy, a.to)
    BY <1>4 DEF Gap
  <2>6. \A t \in Int : Within(g, t) => t \in F /\ DateIn(z, t) = d
    BY <1>2, <2>2, <2>4, <2>5
  <2>7. \A t \in Int : g.from <= t /\ t < g.to => t \in F /\ DateIn(z, t) = d
    BY <2>6 DEF Within
  <2>8. \A t \in Int : g.from <= t /\ t < g.to - 1 => t \in J
    <3> SUFFICES ASSUME NEW t \in Int, g.from <= t, t < g.to - 1 PROVE t \in J
      OBVIOUS
    <3>1. t + 1 \in Int /\ t < g.to /\ g.from <= t + 1 /\ t + 1 < g.to
      BY <2>3
    <3> QED BY <1>3, <2>7, <3>1
  <2>9. g.to - 1 \in F /\ g.from \in F /\ DateIn(z, g.to - 1) = d /\ DateIn(z, g.from) = d
    <3>1. g.to - 1 \in Int /\ g.from <= g.to - 1 /\ g.to - 1 < g.to /\ g.from <= g.from
      BY <2>3
    <3> QED BY <2>3, <2>7, <3>1
  <2>10. g.from - 1 \notin J
    <3> SUFFICES ASSUME g.from - 1 \in J PROVE FALSE
      OBVIOUS
    <3>1. g.from - 1 \in Int /\ (g.from - 1) + 1 = g.from
      BY <2>3
    <3>2. g.from - 1 \in F /\ DateIn(z, g.from - 1) = d
      BY <1>3, <2>9, <3>1
    <3>3. Within(w, g.from - 1) /\ ~Reach(busy, g.from - 1) /\ Within(b, g.from - 1)
      BY <1>2, <2>4, <3>1, <3>2
    <3>4. CASE g.from = a.from
      BY <1>1, <2>3, <2>5, <3>3, <3>4 DEF Within
    <3>5. CASE g.from = b.from
      BY <2>3, <3>3, <3>5 DEF Within
    <3> QED BY <2>2, <3>4, <3>5
  <2>11. g.to - 1 \notin J
    <3> SUFFICES ASSUME g.to - 1 \in J PROVE FALSE
      OBVIOUS
    <3>1. g.to - 1 \in Int /\ (g.to - 1) + 1 = g.to
      BY <2>3
    <3>2. g.to \in F /\ DateIn(z, g.to) = d
      BY <1>3, <2>9, <3>1
    <3>3. Within(w, g.to) /\ ~Reach(busy, g.to) /\ Within(b, g.to)
      BY <1>2, <2>3, <2>4, <3>2
    <3>4. CASE g.to = a.to
      BY <1>1, <2>3, <2>5, <3>3, <3>4 DEF Within
    <3>5. CASE g.to = b.to
      BY <2>3, <3>3, <3>5 DEF Within
    <3> QED BY <2>2, <3>4, <3>5
  <2> QED BY <2>2, <2>3, <2>6, <2>8, <2>9, <2>10, <2>11 DEF Stretch
<1>10. ASSUME NEW t \in F PROVE \E g \in G : Within(g, t)
  <2>1. t \in Int /\ Within(w, t) /\ ~Reach(busy, t) /\ Kept(z, h, t)
    BY <1>2
  <2>2. PICK a \in C : Within(a, t)
    BY <1>4, <2>1 DEF Within
  <2>3. PICK b \in W : Within(b, t)
    BY <1>5, <2>1
  <2>4. Both(a, b) \in Interval /\ Within(Both(a, b), t)
    BY <1>8, <2>1, <2>2, <2>3, BothIs
  <2>5. Both(a, b).to > Both(a, b).from
    BY <1>8, <2>1, <2>4 DEF Within
  <2> QED BY <1>7, <2>4, <2>5
<1> QED BY <1>9, <1>10 DEF G, C, W

\* FreeGaps: the stretches of free time in the hours that are long enough,
\* when every edge of the hours is shown once.
LEMMA FreeGapsAre ==
    ASSUME NEW z \in ClockZone, NEW w \in Interval, w.from < w.to,
           NEW busy \in SUBSET Interval, IsFiniteSet(busy), \A b \in busy : b.from < b.to,
           NEW h \in HoursMask \union {NoHours}, h # NoHours => Clear(z, h, w), NEW least
    PROVE  LET F == FreeIn(z, w, busy, h)
           IN  FreeGaps(z, w, busy, least, h) =
                   {g \in [from : F, to : {t + 1 : t \in F}] :
                        Stretch(F, GoesOn(z, w, busy, h), g) /\ g.to - g.from >= least}
<1> DEFINE F == FreeIn(z, w, busy, h)
           J == GoesOn(z, w, busy, h)
           G == IF h = NoHours THEN Cut(w, busy) ELSE Intersect(Cut(w, busy), Windows(z, h, w))
<1>1. F \in SUBSET Int /\ J \in SUBSET F
  BY DEF FreeIn, GoesOn, Interval
<1>2. FreeGaps(z, w, busy, least, h) = {g \in G : g.to - g.from >= least}
  BY DEF FreeGaps, LongEnough
<1>3. /\ G \in SUBSET Interval
      /\ \A g \in G : Stretch(F, J, g) /\ \A t \in Int : Within(g, t) => t \in F
      /\ \A t \in F : \E g \in G : Within(g, t)
  <2>1. CASE h = NoHours
    <3>1. F = FreeIn(z, w, busy, NoHours) /\ J = GoesOn(z, w, busy, NoHours) /\ G = Cut(w, busy)
      BY <2>1
    <3> HIDE DEF F, J, G
    <3> QED BY <1>1, <3>1, CutStretches
  <2>2. CASE h # NoHours
    <3>1. h \in HoursMask /\ Clear(z, h, w) /\ G = Intersect(Cut(w, busy), Windows(z, h, w))
      BY <2>2
    <3>2. F = FreeIn(z, w, busy, h) /\ J = GoesOn(z, w, busy, h)
      OBVIOUS
    <3> HIDE DEF F, J, G
    <3> QED BY <1>1, <3>1, <3>2, MaskedStretches
  <2> QED BY <2>1, <2>2
<1> HIDE DEF F, J, G
<1>4. G = {g \in [from : F, to : {t + 1 : t \in F}] : Stretch(F, J, g)}
  BY <1>1, <1>3, Stretches
<1>5. FreeGaps(z, w, busy, least, h) =
         {g \in [from : F, to : {t + 1 : t \in F}] : Stretch(F, J, g) /\ g.to - g.from >= least}
  BY <1>2, <1>4
<1> QED BY <1>5 DEF F, J

-----------------------------------------------------------------------------
(* The gaps of a call.                                                     *)

\* What the assumptions say of zones, bounds and hours.
LEMMA CallConstants ==
    /\ "refused" \notin DOMAIN Zones /\ \A name \in DOMAIN Zones : Zones[name] \in ClockZone
    /\ \A a \in Asks : /\ a.zone \in ZoneNames /\ a.window.from \in Bounds /\ a.window.to \in Bounds
                       /\ a.hours.from \in -1 .. Day /\ a.hours.to \in -1 .. Day
    /\ \A g \in Worlds : g.zone \in [Addresses -> ZoneNames] /\ g.settings \in ZoneNames
BY AvailabilityAssumption DEF AvailabilityAssumption, ClockZone

\* A call that was not refused has a zone, a window and hours.
LEMMA CallIsSound ==
    ASSUME google \in Worlds, ask \in Asks, ~Refused
    PROVE  /\ Zone \in ClockZone /\ Window \in Interval /\ Window.from < Window.to
           /\ Hours \in HoursMask \union {NoHours}
<1>1. /\ "untitled" \notin ToSet(ask.refs) /\ ZoneName # "refused" /\ ~(Window.to <= Window.from)
      /\ ~HoursRefused(ask.hours.from, ask.hours.to, ask.hours.days)
  BY DEF Refused
<1>2. Ids \in Seq(Addresses)
  BY <1>1, IdsAre
<1>3. FirstZone \in ZoneNames
  <2> DEFINE zoned == {i \in DOMAIN Ids : google.zone[Ids[i]] # ""}
             i0 == CHOOSE i \in zoned : \A j \in zoned : i <= j
  <2>1. DOMAIN Ids \subseteq Nat /\ \A i \in DOMAIN Ids : Ids[i] \in Addresses
    BY <1>2
  <2>2. \A a \in Addresses : google.zone[a] \in ZoneNames
    BY CallConstants
  <2>3. FirstZone = IF zoned = {} THEN "" ELSE google.zone[Ids[i0]]
    BY DEF FirstZone
  <2>4. zoned # {} => i0 \in DOMAIN Ids
    <3> SUFFICES ASSUME zoned # {} PROVE i0 \in zoned
      OBVIOUS
    <3>1. zoned \in SUBSET Nat
      BY <2>1
    <3> HIDE DEF zoned
    <3>2. PICK i \in zoned : \A j \in zoned : i <= j
      BY <3>1, LeastOf
    <3> QED BY <3>2
  <2> HIDE DEF i0, zoned
  <2> QED BY <2>1, <2>2, <2>3, <2>4 DEF ZoneNames
<1>4. ZoneName \in DOMAIN Zones
  <2>1. ask.zone \in ZoneNames /\ google.settings \in ZoneNames
    BY CallConstants
  <2>2. \A c, f, s \in ZoneNames : ResolveZone(c, f, s) \in DOMAIN Zones \union {"refused"}
    BY DEF ResolveZone, ZoneNames
  <2> QED BY <1>1, <1>3, <2>1, <2>2 DEF ZoneName
<1>5. Zone \in ClockZone
  BY <1>4, CallConstants DEF Zone
<1>6. \A b \in Bounds : \A upper \in BOOLEAN : ParseBound(Zone, b, upper) \in Int
  <2> SUFFICES ASSUME NEW b \in Bounds, NEW upper \in BOOLEAN PROVE ParseBound(Zone, b, upper) \in Int
    OBVIOUS
  <2>1. Zone.before \in Int /\ Zone.after \in Int /\ Zone.at \in Int
    BY <1>5, ClockAssumption DEF ClockZone
  <2>2. \A r \in Int : Wall(Zone, r) \in Int
    BY <2>1 DEF Wall, Offset
  <2>3. b.kind \in {"instant", "date"} /\ b.at \in Int
    BY DEF Bounds
  <2>4. \A d \in Int : d * Day \in Int
    BY ClockAssumption
  <2>5. DayWindow(Zone, b.at).from \in Int /\ DayWindow(Zone, b.at).to \in Int
    BY <2>2, <2>3, <2>4 DEF DayWindow, StartIn
  <2> QED BY <2>3, <2>5 DEF ParseBound
<1>7. Window \in Interval
  <2>1. ask.window.from \in Bounds /\ ask.window.to \in Bounds
    BY CallConstants
  <2> QED BY <1>6, <2>1 DEF Window, Interval
<1>8. Window.from < Window.to
  BY <1>1, <1>7 DEF Interval
<1>9. Hours \in HoursMask \union {NoHours}
  <2> DEFINE from == ask.hours.from
             to == ask.hours.to
             days == ask.hours.days
  <2>1. from \in -1 .. Day /\ to \in -1 .. Day /\ Day \in Nat \ {0}
    BY CallConstants, ClockAssumption
  <2>2. ~HoursRefused(from, to, days) /\ Hours = ParseHours(from, to, days)
    BY <1>1 DEF Hours
  <2> HIDE DEF from, to, days
  <2>3. days \ Weekdays = {} /\ ((from = -1 /\ to = -1) \/ (from # -1 /\ to # -1 /\ ~(to <= from)))
    BY <2>2 DEF HoursRefused
  <2>4. CASE from = -1 /\ to = -1 /\ days = {}
    BY <2>2, <2>4 DEF ParseHours
  <2>5. CASE from = -1 /\ to = -1 /\ days # {}
    <3>1. Hours = [from |-> 0, to |-> Day, days |-> days]
      BY <2>2, <2>5 DEF ParseHours
    <3>2. days \in SUBSET Weekdays
      BY <2>3
    <3>3. 0 \in 0 .. Day /\ Day \in 0 .. Day /\ 0 < Day
      BY <2>1
    <3>4. Hours \in [from : 0 .. Day, to : 0 .. Day, days : SUBSET Weekdays]
      BY <3>1, <3>2, <3>3
    <3> QED BY <3>1, <3>3, <3>4 DEF HoursMask
  <2>6. CASE from # -1 /\ to # -1 /\ ~(to <= from)
    <3>1. Hours = [from |-> from, to |-> to, days |-> days]
      BY <2>2, <2>6 DEF ParseHours
    <3>2. days \in SUBSET Weekdays
      BY <2>3
    <3>3. from \in 0 .. Day /\ to \in 0 .. Day /\ from < to
      BY <2>1, <2>6
    <3>4. Hours \in [from : 0 .. Day, to : 0 .. Day, days : SUBSET Weekdays]
      BY <3>1, <3>2, <3>3
    <3> QED BY <3>1, <3>3, <3>4 DEF HoursMask
  <2> QED BY <2>3, <2>4, <2>5, <2>6
<1> QED BY <1>5, <1>7, <1>8, <1>9

\* What asks Google anything was not refused.
NotRefused == pc \notin {"idle", "refused"} => ~Refused

\* The busy periods of the answers that are known.
KnownBusy == UNION {report[id].busy : id \in GapsFrom}

\* They are finitely many, and reach the times somebody known is busy.
LEMMA KnownBusyIs ==
    ASSUME AvailInv, pc = "answered"
    PROVE  /\ KnownBusy \in SUBSET Interval /\ IsFiniteSet(KnownBusy)
           /\ \A b \in KnownBusy : b.from < b.to
           /\ \A t \in Int : Reach(KnownBusy, t) <=> Busy(t)
<1>1. \A id \in GapsFrom :
         /\ \A t \in Int : Reach(report[id].busy, t) <=> \E c \in Held(id) : Reach(google.busy[c], t)
         /\ report[id].busy \in SUBSET Interval /\ IsFiniteSet(report[id].busy)
         /\ \A b \in report[id].busy : b.from < b.to
  BY KnownAnswer DEF GapsFrom
<1> DEFINE all == {report[id].busy : id \in GapsFrom}
<1>2. IsFiniteSet(all)
  <2> DEFINE f == [id \in GapsFrom |-> report[id].busy]
  <2>1. Ids \in Seq(Addresses) /\ DOMAIN report = ToSet(Ids)
    BY AnsweredIds
  <2>2. IsFiniteSet(ToSet(Ids)) /\ GapsFrom \in SUBSET ToSet(Ids)
    BY <2>1, SeqFinite DEF GapsFrom
  <2>3. IsFiniteSet(GapsFrom)
    BY <2>2, FS_Subset
  <2>4. f \in Surjection(GapsFrom, all)
    BY DEF Surjection
  <2> HIDE DEF f, all
  <2> QED BY <2>3, <2>4, FS_Surjection
<1>3. \A T \in all : IsFiniteSet(T)
  BY <1>1
<1>4. KnownBusy = UNION all
  BY DEF KnownBusy
<1>5. IsFiniteSet(KnownBusy)
  <2> HIDE DEF all
  <2> QED BY <1>2, <1>3, <1>4, FS_UNION
<1>6. KnownBusy \in SUBSET Interval /\ \A b \in KnownBusy : b.from < b.to
  BY <1>1 DEF KnownBusy
<1>7. \A t \in Int : Reach(KnownBusy, t) <=> \E id \in GapsFrom : Reach(report[id].busy, t)
  BY DEF KnownBusy, Reach
<1>8. \A t \in Int : Reach(KnownBusy, t) <=> Busy(t)
  BY <1>1, <1>7 DEF Busy, Reach, Within
<1> QED BY <1>5, <1>6, <1>8

\* The gaps are the free time of the window as its zone's clock shows it:
\* each a whole stretch that is free on the timeline, inside the hours and
\* long enough, and every such stretch is there.
THEOREM GapsAreFree == AvailSpec => []GapsAreTheFreeTime
<1>1. AvailInit => NotRefused
  BY DEF AvailInit, NotRefused
<1>2. NotRefused /\ [AvailNext]_availVars => NotRefused'
  <2> SUFFICES ASSUME NotRefused, [AvailNext]_availVars PROVE NotRefused'
    OBVIOUS
  <2>1. UNCHANGED <<google, ask>>
    BY DEF AvailNext, Start, Query, AskAgain, QueryFails, Report, availVars
  <2>2. Refused' <=> Refused
    BY <2>1 DEF Refused, ZoneName, FirstZone, Ids, Window, Zone
  <2>3. pc' \notin {"idle", "refused"} => pc \notin {"idle", "refused"} \/ ~Refused
    BY DEF AvailNext, Start, Query, AskAgain, QueryFails, Report, availVars
  <2> QED BY <2>2, <2>3 DEF NotRefused
<1>3. AvailInv /\ NotRefused => GapsAreTheFreeTime
  <2> SUFFICES ASSUME AvailInv, NotRefused, pc = "answered", GapsFrom # {}, EdgesAreClear
               PROVE  GapsAreTheFreeTime
    BY DEF GapsAreTheFreeTime
  <2> DEFINE w == Window
             free == {t \in w.from .. w.to - 1 : Free(t)}
             joined == {t \in free : t + 1 \in free /\ SameGap(t, t + 1)}
             F == FreeIn(Zone, w, KnownBusy, Hours)
             J == GoesOn(Zone, w, KnownBusy, Hours)
  <2>1. /\ Zone \in ClockZone /\ w \in Interval /\ w.from < w.to
        /\ Hours \in HoursMask \union {NoHours}
    BY CallIsSound DEF AvailInv, NotRefused
  <2>2. /\ KnownBusy \in SUBSET Interval /\ IsFiniteSet(KnownBusy)
        /\ \A b \in KnownBusy : b.from < b.to
        /\ \A t \in Int : Reach(KnownBusy, t) <=> Busy(t)
    BY KnownBusyIs
  <2>3. Clear(Zone, Hours, w)
    BY DEF EdgesAreClear, Clear
  <2>4. Gaps = FreeGaps(Zone, w, KnownBusy, ask.least, Hours)
    BY DEF Gaps, KnownBusy
  <2>5. \A t \in w.from .. w.to - 1 :
           Free(t) <=> ~Reach(KnownBusy, t) /\ (Hours = NoHours \/ Kept(Zone, Hours, t))
    BY <2>1, <2>2 DEF Free, InHours, Kept, Interval
  <2>6. free = F
    BY <2>5 DEF FreeIn
  <2>7. joined = J
    <3>1. \A t \in free : Free(t)
      OBVIOUS
    <3> HIDE DEF free
    <3> QED BY <2>6, <3>1 DEF GoesOn, SameGap
  <2>8. Gaps = {g \in [from : F, to : {t + 1 : t \in F}] : Stretch(F, J, g) /\ g.to - g.from >= ask.least}
    BY <2>1, <2>2, <2>3, <2>4, FreeGapsAre
  <2>9. Gaps = {g \in [from : free, to : {t + 1 : t \in free}] :
                   Stretch(free, joined, g) /\ g.to - g.from >= ask.least}
    <3> HIDE DEF F, J, free, joined
    <3> QED BY <2>6, <2>7, <2>8
  <2>10. Gaps =
            {g \in [from : free, to : {t + 1 : t \in free}] :
                /\ g.from < g.to /\ g.to - g.from >= ask.least
                /\ g.from .. g.to - 2 \subseteq joined
                /\ g.to - 1 \in free
                /\ g.from - 1 \notin joined /\ g.to - 1 \notin joined}
    <3> HIDE DEF F, J, free, joined
    <3> QED BY <2>9 DEF Stretch
  <2> QED BY <2>10 DEF GapsAreTheFreeTime
<1> QED BY <1>1, <1>2, <1>3, AvailSound, PTL DEF AvailSpec
=============================================================================
