------------------------ MODULE ManageCalendarProofs ------------------------
(***************************************************************************)
(* Proofs about ManageCalendar, for any calls, calendars, requests and     *)
(* bounds.                                                                 *)
(***************************************************************************)
EXTENDS ManageCalendar, TLAPS

-----------------------------------------------------------------------------
(* The inductive invariant.                                                *)

Outcomes == {"none", "ok", "failed", "stale", "ambiguous", "unavailable"}

CallState ==
    [pc: {"idle", "page", "install", "found", "byid", "do", "send", "back", "done"},
     req: Requests, todo: Seq(Steps), page: 0 .. Pages + 1, got: SUBSET RowSpace,
     row: RowSpace, base: Nat, sends: Sends, unsure: BOOLEAN, changed: SUBSET Steps,
     outcome: Outcomes, did: SUBSET (Steps \X Sends), last: RowSpace]

Entry == [live: BOOLEAN, inList: BOOLEAN, name: Nat \ {0}, look: Nat \ {0}]

HasDone(k, s) == \E d \in call[k].did : d[1] = s

\* The steps of a call are taken one at a time, each once.
StepsInTurn(k) ==
    /\ call[k].pc \in {"byid", "do", "send", "back"} => call[k].todo # <<>>
    /\ IsInjective(call[k].todo)
    /\ call[k].pc = "page" => call[k].page <= Pages
    /\ call[k].pc \in {"idle", "page", "install", "found", "byid"} =>
        call[k].did = {} /\ call[k].changed = {}
    /\ \A d \in call[k].did :
        d[1] \in Range(call[k].todo) =>
            d[1] = Step(k) /\ call[k].pc \in {"send", "back", "done"}

\* What is said to be changed was carried out, nothing twice.
SaidAndDone(k) ==
    /\ \A s \in call[k].changed \ {"recolor"} : HasDone(k, s)
    /\ \A d, e \in call[k].did : d[1] = e[1] /\ d[1] # "clear" => d = e
    /\ call[k].pc = "back" => HasDone(k, Step(k))

\* A step that was carried out and is sent again finds its version gone.
SpentBase(k) ==
    call[k].pc = "send" /\ HasDone(k, Step(k)) =>
        /\ Step(k) \notin {"create", "subscribe"}
        /\ Step(k) = "clear" \/ ~There(k) \/ call[k].base < Version(k)

\* The version a call last knew, the one its request names, and the one
\* there is, are in that order.
Known(k) == IF OnEntry(Step(k)) THEN call[k].last.look ELSE call[k].last.name

VersionsInOrder(k) ==
    /\ call[k].last.name <= google[At(k)].name
    /\ call[k].last.look <= google[At(k)].look
    /\ "subscribe" \in call[k].changed
            \/ (call[k].pc = "back" /\ Step(k) = "subscribe") =>
        call[k].row.look = call[k].last.look
    /\ call[k].pc = "send" /\ Step(k) \notin {"create", "subscribe"} =>
        Known(k) <= call[k].base /\ call[k].base <= Version(k)

\* A stale call knew an older version.
StaleSince(k) ==
    /\ call[k].outcome = "stale" => call[k].pc = "done"
    /\ call[k].outcome = "stale" /\ ~call[k].unsure => Known(k) < Version(k)

CallInv(k) ==
    StepsInTurn(k) /\ SaidAndDone(k) /\ SpentBase(k) /\ VersionsInOrder(k)
        /\ StaleSince(k)

IInv == \A k \in Calls : CallInv(k)

-----------------------------------------------------------------------------
(* Steps, versions, types.                                                 *)

\* The head of a list of different steps, and the rest of it.
LEMMA HeadAndTail ==
    ASSUME NEW s \in Seq(Steps), s # <<>>, IsInjective(s)
    PROVE  /\ Head(s) \in Steps /\ Tail(s) \in Seq(Steps) /\ IsInjective(Tail(s))
           /\ Range(Tail(s)) \subseteq Range(s)
           /\ Head(s) \in Range(s) /\ Head(s) \notin Range(Tail(s))
<1>1. Len(s) \in Nat \ {0} /\ DOMAIN s = 1 .. Len(s) /\ Head(s) = s[1]
  OBVIOUS
<1>2. /\ Tail(s) \in Seq(Steps) /\ DOMAIN Tail(s) = 1 .. Len(s) - 1
      /\ \A i \in 1 .. Len(s) - 1 : Tail(s)[i] = s[i + 1]
  OBVIOUS
<1>3. \A i \in 1 .. Len(s) - 1 : i + 1 \in 1 .. Len(s) /\ i + 1 # 1
  BY <1>1
<1>4. IsInjective(Tail(s))
  BY <1>1, <1>2, <1>3 DEF IsInjective
<1>5. Range(Tail(s)) \subseteq Range(s)
  BY <1>1, <1>2, <1>3 DEF Range
<1>6. 1 \in 1 .. Len(s) /\ Head(s) \in Range(s) /\ Head(s) \in Steps
  BY <1>1 DEF Range
<1>7. Head(s) \notin Range(Tail(s))
  BY <1>1, <1>2, <1>3, <1>6 DEF Range, IsInjective
<1> QED BY <1>2, <1>4, <1>5, <1>6, <1>7

\* Versions only grow, and what comes back comes back with a new one.
Grows(g, h) ==
    \A c \in Cals :
        /\ g[c].name <= h[c].name /\ g[c].look <= h[c].look
        /\ h[c].live /\ ~g[c].live => g[c].name < h[c].name
        /\ h[c].inList /\ ~g[c].inList => g[c].look < h[c].look

\* The parts of the state.
LEMMA Parts ==
    ASSUME TypeOK
    PROVE  /\ google \in [Cals -> Entry]
           /\ call \in [Calls -> CallState]
           /\ \A c \in Cals : /\ google[c].name \in Nat \ {0} /\ google[c].look \in Nat \ {0}
                              /\ google[c].live \in BOOLEAN /\ google[c].inList \in BOOLEAN
           /\ \A k \in Calls : /\ call[k] \in CallState /\ At(k) \in Cals
                               /\ call[k].todo \in Seq(Steps)
                               /\ call[k].req.steps \in Seq(Steps)
                               /\ IsInjective(call[k].req.steps)
                               /\ call[k].last.name \in Nat /\ call[k].last.look \in Nat
                               /\ call[k].row.look \in Nat /\ call[k].base \in Nat
<1>1. google \in [Cals -> Entry] /\ call \in [Calls -> CallState]
  BY DEF TypeOK, Entry, CallState, Outcomes
<1>2. \A k \in Calls : call[k] \in CallState /\ call[k].req \in Requests
        /\ call[k].todo \in Seq(Steps) /\ call[k].base \in Nat
        /\ call[k].last \in RowSpace /\ call[k].row \in RowSpace
  BY <1>1 DEF CallState
<1>3. \A k \in Calls : /\ At(k) \in Cals /\ call[k].req.steps \in Seq(Steps)
                       /\ IsInjective(call[k].req.steps)
  BY <1>2, CalendarAssumption DEF At
<1>4. \A c \in Cals : /\ google[c].name \in Nat \ {0} /\ google[c].look \in Nat \ {0}
                      /\ google[c].live \in BOOLEAN /\ google[c].inList \in BOOLEAN
  BY <1>1 DEF Entry
<1> QED BY <1>1, <1>2, <1>3, <1>4 DEF RowSpace

\* A calendar's row has its type.
LEMMA RowType ==
    ASSUME NEW g \in [Cals -> Entry], NEW c \in Cals
    PROVE  RowIn(g, c) \in RowSpace /\ RowIn(g, c).name = g[c].name
           /\ RowIn(g, c).look = g[c].look
BY DEF RowIn, RowSpace, Entry

\* The bounds are numbers.
LEMMA BoundsTyped == Pages \in Nat \ {0} /\ MaxRetries \in Nat /\ MaxEdits \in Nat
BY CalendarAssumption

\* What a step does to Google.
LEMMA EffectGrows ==
    ASSUME TypeOK, NEW k \in Calls, Able(k), Step(k) \in Steps
    PROVE  /\ Effect(k) \in [Cals -> Entry] /\ Grows(google, Effect(k))
           /\ Step(k) \notin {"clear", "create", "subscribe"} =>
                IF Step(k) \in {"rename", "recolor"}
                THEN Version(k) < IF OnEntry(Step(k)) THEN Effect(k)[At(k)].look
                                  ELSE Effect(k)[At(k)].name
                ELSE IF OnEntry(Step(k)) THEN ~Effect(k)[At(k)].inList
                     ELSE ~Effect(k)[At(k)].live
<1> DEFINE c == At(k)
           e == google[c]
<1>t. /\ google \in [Cals -> Entry] /\ c \in Cals /\ e \in Entry
      /\ e.name \in Nat \ {0} /\ e.look \in Nat \ {0}
      /\ e.live \in BOOLEAN /\ e.inList \in BOOLEAN
      /\ \A x \in Cals : google[x].name \in Nat /\ google[x].look \in Nat
  BY Parts DEF Entry
<1>o. ASSUME NEW f \in Entry, Effect(k) = [google EXCEPT ![c] = f],
             e.name <= f.name, e.look <= f.look,
             f.live /\ ~e.live => e.name < f.name,
             f.inList /\ ~e.inList => e.look < f.look
      PROVE  /\ Effect(k) \in [Cals -> Entry] /\ Grows(google, Effect(k))
             /\ Effect(k)[c] = f
  BY <1>t, <1>o DEF Grows
<1>1. CASE Step(k) = "clear"
  <2>1. Effect(k) = google
    BY <1>1 DEF Effect
  <2> QED BY <1>t, <1>1, <2>1 DEF Grows
<1>2. CASE Step(k) = "create"
  <2> DEFINE f == [live |-> TRUE, inList |-> TRUE, name |-> e.name + 1, look |-> e.look + 1]
  <2>1. Effect(k) = [google EXCEPT ![c] = f]
    BY <1>t, <1>2 DEF Effect
  <2>2. f \in Entry
    BY <1>t DEF Entry
  <2>3. e.name <= f.name /\ e.look <= f.look /\ e.name < f.name /\ e.look < f.look
    BY <1>t
  <2> HIDE DEF f
  <2> QED BY <1>2, <1>o, <2>1, <2>2, <2>3
<1>3. CASE Step(k) = "subscribe"
  <2> DEFINE i == [e EXCEPT !.inList = TRUE]
             f == [i EXCEPT !.look = e.look + 1]
  <2>1. i \in Entry /\ i.name = e.name /\ i.live = e.live
    BY <1>t DEF Entry
  <2>2. Effect(k) = [google EXCEPT ![c] = f]
    BY <1>t, <1>3 DEF Effect, Entry
  <2> HIDE DEF i
  <2>3. f \in Entry /\ f.name = e.name /\ f.live = e.live /\ f.look = e.look + 1
    BY <1>t, <2>1 DEF Entry
  <2> HIDE DEF f
  <2>4. /\ e.name <= f.name /\ e.look <= f.look
        /\ f.live /\ ~e.live => e.name < f.name
        /\ f.inList /\ ~e.inList => e.look < f.look
    BY <1>t, <2>3
  <2>5. /\ Effect(k) \in [Cals -> Entry] /\ Grows(google, Effect(k))
        /\ Effect(k)[c] = f
    BY <1>o, <2>2, <2>3, <2>4
  <2> QED BY <1>t, <1>3, <2>3, <2>5
<1>4. CASE Step(k) = "rename"
  <2> DEFINE f == [e EXCEPT !.name = e.name + 1]
  <2>1. Effect(k) = [google EXCEPT ![c] = f]
    BY <1>t, <1>4 DEF Effect
  <2>2. /\ f \in Entry /\ f.look = e.look /\ f.name = e.name + 1
        /\ f.live = e.live /\ f.inList = e.inList
    BY <1>t DEF Entry
  <2> HIDE DEF f
  <2>3. Version(k) = e.name
    BY <1>4 DEF Version, OnEntry
  <2>4. /\ e.name <= f.name /\ e.look <= f.look
        /\ f.live /\ ~e.live => e.name < f.name
        /\ f.inList /\ ~e.inList => e.look < f.look
    BY <1>t, <2>2
  <2>5. /\ Effect(k) \in [Cals -> Entry] /\ Grows(google, Effect(k))
        /\ Effect(k)[c] = f
    BY <1>o, <2>1, <2>2, <2>4
  <2> QED BY <1>t, <1>4, <2>2, <2>3, <2>5 DEF OnEntry
<1>5. CASE Step(k) = "recolor"
  <2> DEFINE f == [e EXCEPT !.look = e.look + 1]
  <2>1. Effect(k) = [google EXCEPT ![c] = f]
    BY <1>t, <1>5 DEF Effect
  <2>2. /\ f \in Entry /\ f.name = e.name /\ f.look = e.look + 1
        /\ f.live = e.live /\ f.inList = e.inList
    BY <1>t DEF Entry
  <2> HIDE DEF f
  <2>3. Version(k) = e.look
    BY <1>5 DEF Version, OnEntry
  <2>4. /\ e.name <= f.name /\ e.look <= f.look
        /\ f.live /\ ~e.live => e.name < f.name
        /\ f.inList /\ ~e.inList => e.look < f.look
    BY <1>t, <2>2
  <2>5. /\ Effect(k) \in [Cals -> Entry] /\ Grows(google, Effect(k))
        /\ Effect(k)[c] = f
    BY <1>o, <2>1, <2>2, <2>4
  <2> QED BY <1>t, <1>5, <2>2, <2>3, <2>5 DEF OnEntry
<1>6. CASE Step(k) = "unsubscribe"
  <2> DEFINE f == [e EXCEPT !.inList = FALSE]
  <2>1. Effect(k) = [google EXCEPT ![c] = f]
    BY <1>t, <1>6 DEF Effect
  <2>2. /\ f \in Entry /\ f.name = e.name /\ f.look = e.look
        /\ f.live = e.live /\ ~f.inList
    BY <1>t DEF Entry
  <2> HIDE DEF f
  <2>3. /\ e.name <= f.name /\ e.look <= f.look
        /\ f.live /\ ~e.live => e.name < f.name
        /\ f.inList /\ ~e.inList => e.look < f.look
    BY <1>t, <2>2
  <2>4. /\ Effect(k) \in [Cals -> Entry] /\ Grows(google, Effect(k))
        /\ Effect(k)[c] = f
    BY <1>o, <2>1, <2>2, <2>3
  <2> QED BY <1>t, <1>6, <2>2, <2>4 DEF OnEntry
<1>7. CASE Step(k) = "delete"
  <2> DEFINE i == [e EXCEPT !.live = FALSE]
             f == [i EXCEPT !.inList = FALSE]
  <2>1. i \in Entry /\ i.name = e.name /\ i.look = e.look /\ ~i.live
    BY <1>t DEF Entry
  <2>2. Effect(k) = [google EXCEPT ![c] = f]
    BY <1>t, <1>7 DEF Effect, Entry
  <2> HIDE DEF i
  <2>3. /\ f \in Entry /\ f.name = e.name /\ f.look = e.look /\ ~f.live /\ ~f.inList
    BY <2>1 DEF Entry
  <2> HIDE DEF f
  <2>4. /\ e.name <= f.name /\ e.look <= f.look
        /\ f.live /\ ~e.live => e.name < f.name
        /\ f.inList /\ ~e.inList => e.look < f.look
    BY <1>t, <2>3
  <2>5. /\ Effect(k) \in [Cals -> Entry] /\ Grows(google, Effect(k))
        /\ Effect(k)[c] = f
    BY <1>o, <2>2, <2>3, <2>4
  <2> QED BY <1>t, <1>7, <2>3, <2>5 DEF OnEntry
<1> QED BY <1>1, <1>2, <1>3, <1>4, <1>5, <1>6, <1>7 DEF Steps

\* A call that does nothing keeps its invariant, whatever the others do.
LEMMA KeptByOthers ==
    ASSUME TypeOK, NEW b \in Calls, CallInv(b), call'[b] = call[b],
           google' \in [Cals -> Entry], Grows(google, google')
    PROVE  CallInv(b)'
<1> DEFINE c == At(b)
<1>t. /\ c \in Cals /\ call[b].last.name \in Nat /\ call[b].last.look \in Nat
      /\ call[b].base \in Nat
      /\ google[c].name \in Nat /\ google[c].look \in Nat
      /\ google'[c].name \in Nat /\ google'[c].look \in Nat
      /\ google[c].live \in BOOLEAN /\ google[c].inList \in BOOLEAN
      /\ google'[c].live \in BOOLEAN /\ google'[c].inList \in BOOLEAN
  BY Parts DEF Entry
<1>g. /\ google[c].name <= google'[c].name /\ google[c].look <= google'[c].look
      /\ google'[c].live /\ ~google[c].live => google[c].name < google'[c].name
      /\ google'[c].inList /\ ~google[c].inList => google[c].look < google'[c].look
  BY <1>t DEF Grows
<1>s. Step(b)' = Step(b) /\ At(b)' = c /\ Known(b)' = Known(b)
  BY DEF Step, At, Known
<1>v. /\ Version(b) <= Version(b)'
      /\ There(b)' /\ ~There(b) => Version(b) < Version(b)'
      /\ Version(b) \in Nat /\ Version(b)' \in Nat /\ Known(b) \in Nat
  BY <1>t, <1>g, <1>s DEF Version, There, Known
<1> HIDE DEF c
<1>1. StepsInTurn(b)' /\ SaidAndDone(b)'
  BY <1>s DEF CallInv, StepsInTurn, SaidAndDone, HasDone
<1>2. SpentBase(b)' /\ VersionsInOrder(b)'
  <2>1. VersionsInOrder(b)'
    BY <1>t, <1>g, <1>s, <1>v DEF CallInv, VersionsInOrder, c
  <2>2. HasDone(b, Step(b))' <=> HasDone(b, Step(b))
    BY <1>s DEF HasDone
  <2>3. SpentBase(b)'
    <3> SUFFICES ASSUME call[b].pc = "send", HasDone(b, Step(b))
        PROVE  /\ Step(b) \notin {"create", "subscribe"}
               /\ Step(b) = "clear" \/ ~There(b)' \/ call[b].base < Version(b)'
      BY <1>s, <2>2 DEF SpentBase
    <3>1. /\ Step(b) \notin {"create", "subscribe"}
          /\ Step(b) = "clear" \/ ~There(b) \/ call[b].base < Version(b)
      BY DEF CallInv, SpentBase
    <3>2. call[b].base <= Version(b)
      BY <3>1 DEF CallInv, VersionsInOrder
    <3> QED BY <1>t, <1>v, <3>1, <3>2
  <2> QED BY <2>1, <2>3
<1>3. StaleSince(b)'
  BY <1>s, <1>v DEF CallInv, StaleSince
<1> QED BY <1>1, <1>2, <1>3 DEF CallInv

-----------------------------------------------------------------------------
(* What one step of a call does.                                           *)

\* The call as it was but for the fields that are named in each kind.
Same(k, j) ==
    /\ j.todo = call[k].todo /\ j.changed = call[k].changed
    /\ j.last = call[k].last

Begins(k, j) ==
    /\ google' = google
    /\ call[k].pc = "idle" /\ j.pc \in {"send", "page", "found"}
    /\ j.pc = "send" => Creates(k)
    /\ j.pc = "page" => j.page <= Pages
    /\ j.todo = call[k].req.steps /\ j.changed = call[k].changed
    /\ j.did = call[k].did /\ j.last = Row(At(k)) /\ j.outcome = call[k].outcome

Finds(k, j) ==
    /\ google' = google /\ Same(k, j)
    /\ call[k].pc \in {"page", "install", "found", "byid"}
    /\ j.pc \in {"page", "install", "found", "byid", "do"}
    /\ j.pc \in {"byid", "do"} => j.todo # <<>>
    /\ j.pc = "page" => j.page <= Pages
    /\ j.did = call[k].did /\ j.outcome = call[k].outcome

Ends(k, j) ==
    /\ google' = google /\ Same(k, j)
    /\ j.row = call[k].row /\ j.did = call[k].did
    /\ call[k].pc \in {"page", "found", "byid", "do", "send"} /\ j.pc = "done"
    /\ j.outcome = "stale" =>
        /\ call[k].pc = "send" /\ Version(k) # call[k].base
        /\ Step(k) \notin {"create", "subscribe"}

\* Leaves the step it is at behind, with what is changed by now.
Leaves(k, j, changed) ==
    /\ google' = google
    /\ j.todo = Tail(call[k].todo)
    /\ j.pc = IF Tail(call[k].todo) = <<>> THEN "done" ELSE "do"
    /\ j.outcome \in {"ok", call[k].outcome}
    /\ j.changed = changed /\ j.did = call[k].did
    /\ j.row = call[k].row /\ j.last = call[k].last

Skips(k, j) == call[k].pc = "do" /\ Leaves(k, j, call[k].changed)

Answers(k, j) ==
    call[k].pc = "back" /\ Leaves(k, j, call[k].changed \union {Step(k)})

Sets(k, j) ==
    /\ google' = google
    /\ call[k].pc = "do" /\ j.pc = "send"
    /\ j.todo = call[k].todo /\ j.last = call[k].last /\ j.row = call[k].row
    /\ j.did = call[k].did /\ j.outcome = call[k].outcome
    /\ j.changed \in {call[k].changed, call[k].changed \union {"recolor"}}
    /\ Step(k) = "subscribe" \/ j.base = VersionRead(k)

Acts(k, j) ==
    /\ google' = Effect(k) /\ Able(k)
    /\ call[k].pc = "send" /\ j.pc = "back"
    /\ j.todo = call[k].todo /\ j.changed = call[k].changed
    /\ j.did = Carried(k) /\ j.outcome = call[k].outcome
    /\ j.last = Reported(k, call[k].last) /\ j.row = Reported(k, call[k].row)

Loses(k, j) ==
    /\ Same(k, j)
    /\ call[k].pc = "send" /\ j.pc \in {"send", "done"}
    /\ j.pc = "send" => Step(k) \notin {"create", "subscribe"}
    /\ j.row = call[k].row /\ j.base = call[k].base
    /\ j.outcome \in {call[k].outcome, "ambiguous", "unavailable"}
    /\ \/ google' = google /\ j.did = call[k].did
       \/ google' = Effect(k) /\ Able(k) /\ j.did = Carried(k)

Moves(k, j) ==
    /\ j \in CallState
    /\ call' = [call EXCEPT ![k] = j]
    /\ j.req = call[k].req
    /\ call[k].pc # "done"
    /\ cache' \in [read: BOOLEAN, rows: SUBSET RowSpace]
    /\ tainted' \subseteq Cals
    /\ edits' = edits
    /\ \/ Begins(k, j) \/ Finds(k, j) \/ Ends(k, j) \/ Skips(k, j)
       \/ Sets(k, j) \/ Acts(k, j) \/ Loses(k, j) \/ Answers(k, j)

\* A step that is under way is a step.
LEMMA StepType ==
    ASSUME TypeOK, IInv, NEW k \in Calls,
           call[k].pc \in {"byid", "do", "send", "back"}
    PROVE  /\ Step(k) \in Steps /\ Tail(call[k].todo) \in Seq(Steps)
           /\ IsInjective(Tail(call[k].todo))
           /\ Range(Tail(call[k].todo)) \subseteq Range(call[k].todo)
           /\ Step(k) \in Range(call[k].todo)
           /\ Step(k) \notin Range(Tail(call[k].todo))
           /\ call[k].todo # <<>>
<1>1. call[k].todo \in Seq(Steps) /\ call[k].todo # <<>> /\ IsInjective(call[k].todo)
  BY Parts DEF IInv, CallInv, StepsInTurn
<1> QED BY <1>1, HeadAndTail DEF Step

\* Google grows at every step.
LEMMA GoogleGrows ==
    ASSUME TypeOK, IInv, NEW k \in Calls, NEW j, Moves(k, j)
    PROVE  google' \in [Cals -> Entry] /\ Grows(google, google')
<1>1. google' = google \/ (google' = Effect(k) /\ Able(k) /\ call[k].pc = "send")
  BY DEF Moves, Begins, Finds, Ends, Skips, Sets, Acts, Loses, Answers, Leaves
<1>2. CASE google' = google
  BY <1>2, Parts DEF Grows
<1>3. CASE google' = Effect(k) /\ Able(k) /\ call[k].pc = "send"
  BY <1>3, StepType, EffectGrows
<1> QED BY <1>1, <1>2, <1>3

\* The types are kept.
LEMMA TypeStep ==
    ASSUME TypeOK, IInv, NEW k \in Calls, NEW j, Moves(k, j)
    PROVE  TypeOK'
<1>1. call' \in [Calls -> CallState] /\ google' \in [Cals -> Entry]
  BY Parts, GoogleGrows DEF Moves
<1> QED BY <1>1 DEF TypeOK, Moves, Entry, CallState, Outcomes

\* The call that moves, after it moved.
LEMMA Mover ==
    ASSUME TypeOK, NEW k \in Calls, NEW j, Moves(k, j)
    PROVE  /\ call'[k] = j /\ At(k)' = At(k) /\ Step(k)' = Head(j.todo)
           /\ j.did \subseteq Steps \X Sends /\ j.todo \in Seq(Steps)
           /\ j.base \in Nat /\ j.row.look \in Nat
           /\ j.last.name \in Nat /\ j.last.look \in Nat
           /\ \A s : HasDone(k, s)' <=> \E d \in j.did : d[1] = s
<1>1. call'[k] = j /\ j \in CallState /\ j.req = call[k].req
  BY Parts DEF Moves
<1>2. /\ j.row \in RowSpace /\ j.last \in RowSpace /\ j.todo \in Seq(Steps)
      /\ j.did \subseteq Steps \X Sends /\ j.base \in Nat
  BY <1>1 DEF CallState
<1>3. At(k)' = At(k) /\ Step(k)' = Head(j.todo)
  BY <1>1 DEF At, Step
<1>4. \A s : HasDone(k, s)' <=> \E d \in j.did : d[1] = s
  BY <1>1 DEF HasDone
<1>5. j.row.look \in Nat /\ j.last.name \in Nat /\ j.last.look \in Nat
  BY <1>2 DEF RowSpace
<1> QED BY <1>1, <1>2, <1>3, <1>4, <1>5

\* One step more has been carried out.
LEMMA CarriedOut ==
    ASSUME TypeOK, NEW k \in Calls
    PROVE  /\ call[k].did \subseteq Carried(k)
           /\ \A d \in Carried(k) : d \in call[k].did \/ d[1] = Step(k)
           /\ \E d \in Carried(k) : d[1] = Step(k)
           /\ ~HasDone(k, Step(k)) =>
                \A d, e \in Carried(k) :
                    d[1] = e[1] => d = e \/ (d \in call[k].did /\ e \in call[k].did)
<1> DEFINE new == <<Step(k), call[k].sends>>
<1>1. Carried(k) = call[k].did \union {new} /\ new[1] = Step(k)
  BY DEF Carried
<1> HIDE DEF new
<1>2. /\ call[k].did \subseteq Carried(k)
      /\ \A d \in Carried(k) : d \in call[k].did \/ d[1] = Step(k)
      /\ \E d \in Carried(k) : d[1] = Step(k)
  BY <1>1
<1>3. ASSUME ~HasDone(k, Step(k)), NEW d \in Carried(k), NEW e \in Carried(k), d[1] = e[1]
      PROVE  d = e \/ (d \in call[k].did /\ e \in call[k].did)
  <2>1. d = new \/ d \in call[k].did
    BY <1>1
  <2>2. e = new \/ e \in call[k].did
    BY <1>1
  <2>3. \A x \in call[k].did : x[1] # Step(k)
    BY <1>3 DEF HasDone
  <2> QED BY <1>1, <1>3, <2>1, <2>2, <2>3
<1> QED BY <1>2, <1>3

\* A step that Google can carry out now was not carried out before, unless
\* it is a clear.
LEMMA FirstTime ==
    ASSUME TypeOK, NEW k \in Calls, CallInv(k), call[k].pc = "send", Able(k),
           Step(k) # "clear"
    PROVE  ~HasDone(k, Step(k))
<1>1. SUFFICES ASSUME HasDone(k, Step(k)) PROVE FALSE
  OBVIOUS
<1>2. Step(k) \notin {"create", "subscribe"} /\ (~There(k) \/ call[k].base < Version(k))
  BY <1>1 DEF CallInv, SpentBase
<1>3. There(k) /\ Version(k) = call[k].base
  BY <1>2 DEF Able
<1> QED BY <1>2, <1>3, Parts

\* A call begins, and finds its calendar.
LEMMA BeginsInv ==
    ASSUME TypeOK, IInv, NEW k \in Calls, NEW j, Moves(k, j), Begins(k, j)
    PROVE  CallInv(k)'
<1>t. /\ google \in [Cals -> Entry] /\ At(k) \in Cals /\ call[k].req \in Requests
      /\ call[k].req.steps \in Seq(Steps) /\ IsInjective(call[k].req.steps)
      /\ google[At(k)].name \in Nat /\ google[At(k)].look \in Nat
  BY Parts DEF CallState
<1>i. call[k].did = {} /\ call[k].changed = {} /\ call[k].outcome # "stale"
  BY DEF Begins, IInv, CallInv, StepsInTurn, StaleSince
<1>j. /\ call'[k] = j /\ At(k)' = At(k) /\ Step(k)' = Head(j.todo)
      /\ google' = google /\ j.todo = call[k].req.steps /\ j.did = {} /\ j.changed = {}
      /\ j.outcome # "stale" /\ j.last = Row(At(k))
      /\ j.pc \in {"send", "page", "found"} /\ (j.pc = "page" => j.page <= Pages)
  BY <1>i, Mover DEF Begins
<1>c. j.pc = "send" => j.todo # <<>> /\ Head(j.todo) = "create"
  <2> SUFFICES ASSUME Creates(k)
      PROVE  call[k].req.steps # <<>> /\ Head(call[k].req.steps) = "create"
    BY <1>j DEF Begins
  <2> DEFINE q == call[k].req.steps
  <2>1. "create" \in Range(q) /\ Len(q) = 1
    BY <1>t, CalendarAssumption DEF Creates, Allowed
  <2> QED BY <1>t, <2>1 DEF Range
<1>1. StepsInTurn(k)' /\ SaidAndDone(k)' /\ SpentBase(k)'
  BY <1>t, <1>j, <1>c DEF StepsInTurn, SaidAndDone, SpentBase, HasDone
<1>2. VersionsInOrder(k)'
  <2>1. j.last.name = google[At(k)].name /\ j.last.look = google[At(k)].look
    BY <1>t, <1>j, RowType DEF Row
  <2> QED BY <1>t, <1>j, <1>c, <2>1 DEF VersionsInOrder
<1>3. StaleSince(k)'
  BY <1>j DEF StaleSince
<1> QED BY <1>1, <1>2, <1>3 DEF CallInv

LEMMA FindsInv ==
    ASSUME TypeOK, IInv, NEW k \in Calls, NEW j, Moves(k, j), Finds(k, j)
    PROVE  CallInv(k)'
<1>i. /\ call[k].did = {} /\ call[k].changed = {} /\ call[k].outcome # "stale"
      /\ IsInjective(call[k].todo)
  BY DEF Finds, IInv, CallInv, StepsInTurn, StaleSince
<1>j. /\ call'[k] = j /\ At(k)' = At(k)
      /\ google' = google /\ j.todo = call[k].todo /\ j.did = {} /\ j.changed = {}
      /\ j.outcome # "stale" /\ j.last = call[k].last
      /\ j.pc \in {"page", "install", "found", "byid", "do"}
      /\ j.pc \in {"byid", "do"} => j.todo # <<>>
      /\ j.pc = "page" => j.page <= Pages
  BY <1>i, Mover DEF Finds, Same
<1>1. StepsInTurn(k)' /\ SaidAndDone(k)' /\ SpentBase(k)' /\ StaleSince(k)'
  BY <1>i, <1>j DEF StepsInTurn, SaidAndDone, SpentBase, HasDone, StaleSince
<1>2. VersionsInOrder(k)'
  BY <1>j DEF IInv, CallInv, VersionsInOrder
<1> QED BY <1>1, <1>2 DEF CallInv

\* A call ends.
LEMMA EndsInv ==
    ASSUME TypeOK, IInv, NEW k \in Calls, NEW j, Moves(k, j), Ends(k, j)
    PROVE  CallInv(k)'
<1>t. /\ call[k].base \in Nat /\ Known(k) \in Nat /\ Version(k) \in Nat
  BY Parts DEF Known, Version
<1>j. /\ call'[k] = j /\ At(k)' = At(k) /\ Step(k)' = Step(k)
      /\ google' = google /\ j.todo = call[k].todo /\ j.did = call[k].did
      /\ j.changed = call[k].changed /\ j.last = call[k].last /\ j.row = call[k].row
      /\ j.pc = "done" /\ call[k].pc \in {"page", "found", "byid", "do", "send"}
      /\ \A s : HasDone(k, s)' <=> HasDone(k, s)
  BY Mover DEF Ends, Same, Step, HasDone
<1>v. Known(k)' = Known(k) /\ Version(k)' = Version(k)
  BY <1>j DEF Known, Version
<1>1. StepsInTurn(k)'
  BY <1>j DEF IInv, CallInv, StepsInTurn
<1>2. SaidAndDone(k)' /\ SpentBase(k)'
  BY <1>j DEF IInv, CallInv, SaidAndDone, SpentBase
<1>3. VersionsInOrder(k)'
  BY <1>j DEF IInv, CallInv, VersionsInOrder
<1>4. StaleSince(k)'
  <2> SUFFICES ASSUME j.outcome = "stale" PROVE Known(k) < Version(k)
    BY <1>j, <1>v DEF StaleSince
  <2>1. Known(k) <= call[k].base /\ call[k].base <= Version(k) /\ Version(k) # call[k].base
    BY DEF Ends, IInv, CallInv, VersionsInOrder
  <2> QED BY <1>t, <2>1
<1> QED BY <1>1, <1>2, <1>3, <1>4 DEF CallInv

\* A call leaves a step behind.
LEMMA LeavesInv ==
    ASSUME TypeOK, IInv, NEW k \in Calls, NEW j, NEW changed, Moves(k, j),
           Leaves(k, j, changed), call[k].pc \in {"do", "back"},
           \A s \in changed \ {"recolor"} : HasDone(k, s),
           "subscribe" \in changed => call[k].row.look = call[k].last.look
    PROVE  CallInv(k)'
<1> DEFINE rest == Tail(call[k].todo)
<1>t. /\ IsInjective(rest) /\ Range(rest) \subseteq Range(call[k].todo)
      /\ Step(k) \notin Range(rest) /\ rest \in Seq(Steps)
  BY StepType
<1> HIDE DEF rest
<1>j. /\ call'[k] = j /\ At(k)' = At(k)
      /\ google' = google /\ j.todo = rest /\ j.did = call[k].did
      /\ j.changed = changed /\ j.last = call[k].last /\ j.row = call[k].row
      /\ j.pc = IF rest = <<>> THEN "done" ELSE "do"
      /\ \A s : HasDone(k, s)' <=> HasDone(k, s)
  BY Mover DEF Leaves, HasDone, rest
<1>o. j.outcome # "stale"
  BY DEF Leaves, IInv, CallInv, StaleSince
<1>1. StepsInTurn(k)'
  <2>1. \A d \in j.did : d[1] \notin Range(rest)
    BY <1>t, <1>j DEF IInv, CallInv, StepsInTurn
  <2> QED BY <1>t, <1>j, <2>1 DEF StepsInTurn
<1>2. SaidAndDone(k)'
  BY <1>j DEF IInv, CallInv, SaidAndDone
<1>3. VersionsInOrder(k)'
  BY <1>j DEF IInv, CallInv, VersionsInOrder
<1>4. SpentBase(k)' /\ StaleSince(k)'
  BY <1>j, <1>o DEF SpentBase, StaleSince
<1> QED BY <1>1, <1>2, <1>3, <1>4 DEF CallInv

LEMMA SkipsInv ==
    ASSUME TypeOK, IInv, NEW k \in Calls, NEW j, Moves(k, j), Skips(k, j)
    PROVE  CallInv(k)'
<1>1. /\ \A s \in call[k].changed \ {"recolor"} : HasDone(k, s)
      /\ "subscribe" \in call[k].changed => call[k].row.look = call[k].last.look
  BY DEF IInv, CallInv, SaidAndDone, VersionsInOrder
<1> QED BY <1>1, LeavesInv DEF Skips

LEMMA AnswersInv ==
    ASSUME TypeOK, IInv, NEW k \in Calls, NEW j, Moves(k, j), Answers(k, j)
    PROVE  CallInv(k)'
<1> DEFINE changed == call[k].changed \union {Step(k)}
<1>1. /\ \A s \in changed \ {"recolor"} : HasDone(k, s)
      /\ "subscribe" \in changed => call[k].row.look = call[k].last.look
  BY DEF Answers, IInv, CallInv, SaidAndDone, VersionsInOrder
<1>2. Leaves(k, j, changed) /\ call[k].pc \in {"do", "back"}
  BY DEF Answers
<1> HIDE DEF changed
<1> QED BY <1>1, <1>2, LeavesInv

\* A call plans its request from the version it reads, or from the entry it
\* has just made.
LEMMA SetsInv ==
    ASSUME TypeOK, IInv, NEW k \in Calls, NEW j, Moves(k, j), Sets(k, j)
    PROVE  CallInv(k)'
<1>t. /\ call[k].last.name \in Nat /\ call[k].last.look \in Nat /\ At(k) \in Cals
      /\ google[At(k)].name \in Nat /\ google[At(k)].look \in Nat
  BY Parts
<1>j. /\ call'[k] = j /\ At(k)' = At(k) /\ Step(k)' = Step(k)
      /\ google' = google /\ j.todo = call[k].todo /\ j.did = call[k].did
      /\ j.last = call[k].last /\ j.row = call[k].row /\ j.pc = "send"
      /\ call[k].pc = "do" /\ j.outcome = call[k].outcome
      /\ \A s : HasDone(k, s)' <=> HasDone(k, s)
      /\ j.changed \in {call[k].changed, call[k].changed \union {"recolor"}}
      /\ Step(k) = "subscribe" \/ j.base = VersionRead(k)
  BY Mover DEF Sets, Step, HasDone
<1>n. ~HasDone(k, Step(k))
  <2>1. Step(k) \in Range(call[k].todo)
    BY <1>j, StepType
  <2> QED BY <1>j, <2>1 DEF IInv, CallInv, StepsInTurn, HasDone
<1>1. StepsInTurn(k)'
  BY <1>j DEF IInv, CallInv, StepsInTurn
<1>2. SaidAndDone(k)'
  BY <1>j DEF IInv, CallInv, SaidAndDone
<1>3. SpentBase(k)'
  BY <1>j, <1>n DEF SpentBase
<1>4. VersionsInOrder(k)'
  <2>1. /\ call[k].last.name <= google[At(k)].name
        /\ call[k].last.look <= google[At(k)].look
        /\ "subscribe" \in call[k].changed => call[k].row.look = call[k].last.look
    BY DEF IInv, CallInv, VersionsInOrder
  <2>2. ASSUME Step(k) \notin {"create", "subscribe"}
        PROVE  Known(k) <= j.base /\ j.base <= Version(k)
    <3>1. CASE Step(k) = "recolor" /\ "subscribe" \in call[k].changed
      BY <1>t, <1>j, <2>1, <3>1 DEF VersionRead, Known, Version, OnEntry
    <3>2. CASE ~(Step(k) = "recolor" /\ "subscribe" \in call[k].changed)
      <4>1. j.base = Version(k)
        BY <1>j, <2>2, <3>2 DEF VersionRead
      <4> QED BY <1>t, <2>1, <4>1 DEF Known, Version
    <3> QED BY <3>1, <3>2
  <2>3. Known(k)' = Known(k) /\ Version(k)' = Version(k)
    BY <1>j DEF Known, Version
  <2> QED BY <1>j, <2>1, <2>2, <2>3 DEF VersionsInOrder
<1>5. StaleSince(k)'
  BY <1>j DEF IInv, CallInv, StaleSince
<1> QED BY <1>1, <1>2, <1>3, <1>4, <1>5 DEF CallInv

\* The steps carried out, once one more is.
LEMMA CarriedInv ==
    ASSUME TypeOK, IInv, NEW k \in Calls, NEW j, Moves(k, j),
           call[k].pc = "send", Able(k), j.did = Carried(k),
           j.todo = call[k].todo, j.changed = call[k].changed,
           j.pc \in {"send", "back", "done"}
    PROVE  StepsInTurn(k)' /\ SaidAndDone(k)'
<1>j. /\ call'[k] = j /\ Step(k)' = Step(k)
      /\ \A s : HasDone(k, s)' <=> \E d \in j.did : d[1] = s
  BY Mover DEF Step
<1>c. /\ call[k].did \subseteq j.did
      /\ \A d \in j.did : d \in call[k].did \/ d[1] = Step(k)
      /\ \E d \in j.did : d[1] = Step(k)
  BY CarriedOut
<1>1. StepsInTurn(k)'
  BY <1>j, <1>c DEF IInv, CallInv, StepsInTurn
<1>2. \A d, e \in j.did : d[1] = e[1] /\ d[1] # "clear" => d = e
  <2>1. \A d, e \in call[k].did : d[1] = e[1] /\ d[1] # "clear" => d = e
    BY DEF IInv, CallInv, SaidAndDone
  <2>2. CASE Step(k) = "clear"
    BY <1>c, <2>1, <2>2
  <2>3. CASE Step(k) # "clear"
    BY <2>1, <2>3, CarriedOut, FirstTime DEF IInv
  <2> QED BY <2>2, <2>3
<1>3. \A s \in j.changed \ {"recolor"} : \E d \in j.did : d[1] = s
  BY <1>c DEF IInv, CallInv, SaidAndDone, HasDone
<1>4. SaidAndDone(k)'
  BY <1>j, <1>c, <1>2, <1>3 DEF SaidAndDone
<1> QED BY <1>1, <1>4

\* A request is carried out, and answered.
LEMMA ActsInv ==
    ASSUME TypeOK, IInv, NEW k \in Calls, NEW j, Moves(k, j), Acts(k, j)
    PROVE  CallInv(k)'
<1> DEFINE c == At(k)
           g == Effect(k)
           row == RowIn(g, c)
<1>t. /\ c \in Cals /\ g \in [Cals -> Entry] /\ Grows(google, g)
      /\ call[k].last.name \in Nat /\ call[k].last.look \in Nat
      /\ google[c].name \in Nat /\ google[c].look \in Nat
      /\ call[k].row \in RowSpace /\ call[k].last \in RowSpace
  BY Parts, StepType, EffectGrows DEF Acts, CallState
<1>g. g[c].name \in Nat /\ g[c].look \in Nat /\ google[c].look <= g[c].look
  BY <1>t DEF Grows, Entry
<1>r. row \in RowSpace /\ row.name = g[c].name /\ row.look = g[c].look
  BY <1>t, RowType
<1>j. /\ call'[k] = j /\ At(k)' = c /\ Step(k)' = Step(k)
      /\ google' = g /\ j.todo = call[k].todo /\ j.did = Carried(k)
      /\ j.changed = call[k].changed /\ j.pc = "back" /\ call[k].pc = "send"
      /\ j.outcome = call[k].outcome
      /\ j.last = Reported(k, call[k].last) /\ j.row = Reported(k, call[k].row)
  BY Mover DEF Acts, Step
<1>1. StepsInTurn(k)' /\ SaidAndDone(k)'
  BY <1>j, CarriedInv DEF Acts
<1>2. SpentBase(k)' /\ StaleSince(k)'
  BY <1>j DEF SpentBase, StaleSince, IInv, CallInv
<1>3. VersionsInOrder(k)'
  <2>1. /\ call[k].last.look <= google[c].look
        /\ "subscribe" \in call[k].changed => call[k].row.look = call[k].last.look
    BY DEF IInv, CallInv, VersionsInOrder
  <2>2. CASE Step(k) = "rename"
    <3>1. j.last = [row EXCEPT !.look = call[k].last.look]
          /\ j.row = [row EXCEPT !.look = call[k].row.look]
      BY <1>j, <2>2 DEF Reported
    <3> HIDE DEF row, c, g
    <3>2. j.last.name = g[c].name /\ j.last.look = call[k].last.look
          /\ j.row.look = call[k].row.look
      BY <1>r, <3>1 DEF RowSpace
    <3>3. j.last.name <= g[c].name /\ j.last.look <= g[c].look
      BY <1>t, <1>g, <2>1, <3>2
    <3> QED BY <1>j, <2>1, <2>2, <3>2, <3>3 DEF VersionsInOrder
  <2>3. CASE Step(k) # "rename"
    <3>1. j.last = j.row /\ (j.row = row \/ j.row = Bare(row))
      BY <1>j, <2>3 DEF Reported
    <3> HIDE DEF row, c, g
    <3>2. j.last.name = g[c].name /\ j.last.look \in {g[c].look, 0}
      BY <1>r, <3>1 DEF RowSpace, Bare
    <3> QED BY <1>j, <1>g, <1>r, <3>1, <3>2 DEF VersionsInOrder
  <2> QED BY <2>2, <2>3
<1> QED BY <1>1, <1>2, <1>3 DEF CallInv

\* A request goes unanswered.
LEMMA LosesInv ==
    ASSUME TypeOK, IInv, NEW k \in Calls, NEW j, Moves(k, j), Loses(k, j)
    PROVE  CallInv(k)'
<1> DEFINE c == At(k)
<1>t. /\ c \in Cals /\ call[k].last.name \in Nat /\ call[k].last.look \in Nat
      /\ google[c].name \in Nat /\ google[c].look \in Nat /\ call[k].base \in Nat
      /\ google[c].live \in BOOLEAN /\ google[c].inList \in BOOLEAN
  BY Parts
<1>g. google' \in [Cals -> Entry] /\ Grows(google, google')
  BY GoogleGrows
<1>h. /\ google'[c].name \in Nat /\ google'[c].look \in Nat
      /\ google'[c].live \in BOOLEAN /\ google'[c].inList \in BOOLEAN
      /\ google[c].name <= google'[c].name /\ google[c].look <= google'[c].look
      /\ google'[c].live /\ ~google[c].live => google[c].name < google'[c].name
      /\ google'[c].inList /\ ~google[c].inList => google[c].look < google'[c].look
  BY <1>t, <1>g DEF Grows, Entry
<1>j. /\ call'[k] = j /\ At(k)' = c /\ Step(k)' = Step(k)
      /\ j.todo = call[k].todo /\ j.changed = call[k].changed
      /\ j.last = call[k].last /\ j.row = call[k].row /\ j.base = call[k].base
      /\ call[k].pc = "send" /\ j.pc \in {"send", "done"}
      /\ j.outcome # "stale"
      /\ j.pc = "send" => Step(k) \notin {"create", "subscribe"}
      /\ \A s : HasDone(k, s)' <=> \E d \in j.did : d[1] = s
  BY Mover DEF Loses, Same, Step, IInv, CallInv, StaleSince
<1>v. /\ Known(k)' = Known(k) /\ Known(k) \in Nat
      /\ Version(k) \in Nat /\ Version(k)' \in Nat /\ Version(k) <= Version(k)'
      /\ There(k)' /\ ~There(k) => Version(k) < Version(k)'
  BY <1>t, <1>h, <1>j DEF Known, Version, There
<1>1. StepsInTurn(k)' /\ SaidAndDone(k)'
  <2>1. CASE j.did = call[k].did
    <3>1. \A s : HasDone(k, s)' <=> HasDone(k, s)
      BY <1>j, <2>1 DEF HasDone
    <3> QED BY <1>j, <2>1, <3>1 DEF IInv, CallInv, StepsInTurn, SaidAndDone
  <2>2. CASE Able(k) /\ j.did = Carried(k)
    BY <1>j, <2>2, CarriedInv
  <2> QED BY <2>1, <2>2 DEF Loses
<1>2. VersionsInOrder(k)'
  <2>1. /\ call[k].last.name <= google[c].name /\ call[k].last.look <= google[c].look
        /\ "subscribe" \in call[k].changed => call[k].row.look = call[k].last.look
        /\ Step(k) \notin {"create", "subscribe"} =>
            Known(k) <= call[k].base /\ call[k].base <= Version(k)
    BY <1>j DEF IInv, CallInv, VersionsInOrder
  <2>2. call[k].last.name <= google'[c].name /\ call[k].last.look <= google'[c].look
    BY <1>t, <1>h, <2>1
  <2>3. Step(k) \notin {"create", "subscribe"} => call[k].base <= Version(k)'
    BY <1>t, <1>v, <2>1
  <2> HIDE DEF c
  <2> QED BY <1>j, <1>v, <2>1, <2>2, <2>3 DEF VersionsInOrder
<1>3. SpentBase(k)'
  <2> SUFFICES ASSUME j.pc = "send", HasDone(k, Step(k))', Step(k) # "clear"
      PROVE  ~There(k)' \/ call[k].base < Version(k)'
    BY <1>j DEF SpentBase
  <2>1. Step(k) \notin {"create", "subscribe"} /\ call[k].base <= Version(k)
    BY <1>j DEF IInv, CallInv, VersionsInOrder
  <2>2. CASE google' = google /\ j.did = call[k].did
    <3>1. HasDone(k, Step(k))
      BY <1>j, <2>2 DEF HasDone
    <3>2. ~There(k) \/ call[k].base < Version(k)
      BY <1>j, <3>1 DEF IInv, CallInv, SpentBase
    <3> QED BY <1>t, <1>v, <2>1, <3>2
  <2>3. CASE google' = Effect(k) /\ Able(k) /\ j.did = Carried(k)
    <3>1. Step(k) \in Steps
      BY <1>j, StepType
    <3>2. IF Step(k) \in {"rename", "recolor"}
          THEN Version(k) < Version(k)'
          ELSE ~There(k)'
      BY <1>j, <2>1, <2>3, <3>1, EffectGrows DEF Version, There
    <3>3. Version(k) < Version(k)' => call[k].base < Version(k)'
      BY <1>t, <1>v, <2>1
    <3> QED BY <3>2, <3>3
  <2> QED BY <2>2, <2>3 DEF Loses
<1>4. StaleSince(k)'
  BY <1>j DEF StaleSince
<1> QED BY <1>1, <1>2, <1>3, <1>4 DEF CallInv

\* The invariant is kept by every step of a call.
LEMMA InvStep ==
    ASSUME TypeOK, IInv, NEW k \in Calls, NEW j, Moves(k, j)
    PROVE  IInv'
<1>1. CallInv(k)'
  BY BeginsInv, FindsInv, EndsInv, SkipsInv, SetsInv, ActsInv, LosesInv, AnswersInv
     DEF Moves
<1>2. ASSUME NEW b \in Calls \ {k} PROVE CallInv(b)'
  <2>1. call'[b] = call[b] /\ CallInv(b)
    BY Parts DEF Moves, IInv
  <2> QED BY <2>1, GoogleGrows, KeptByOthers
<1> QED BY <1>1, <1>2 DEF IInv

-----------------------------------------------------------------------------
(* Every action is such a step.                                            *)

\* A call that ends with an outcome.
LEMMA FinishStep ==
    ASSUME TypeOK, NEW k \in Calls, NEW o \in Outcomes, Finish(k, o),
           UNCHANGED <<google, cache, tainted, edits>>,
           call[k].pc \in {"page", "found", "byid", "do", "send"},
           o = "stale" => /\ call[k].pc = "send" /\ Version(k) # call[k].base
                          /\ Step(k) \notin {"create", "subscribe"}
    PROVE  \E j : Moves(k, j)
<1> DEFINE j == [call[k] EXCEPT !.pc = "done", !.outcome = o]
<1>t. call[k] \in CallState
  BY Parts
<1>1. call' = [call EXCEPT ![k] = j]
  BY DEF Finish
<1>2. /\ j \in CallState /\ j.req = call[k].req /\ j.todo = call[k].todo
      /\ j.changed = call[k].changed /\ j.last = call[k].last /\ j.row = call[k].row
      /\ j.did = call[k].did /\ j.pc = "done" /\ j.outcome = o
  BY <1>t DEF CallState
<1> HIDE DEF j
<1>3. Ends(k, j)
  BY <1>2 DEF Ends, Same
<1> QED BY <1>1, <1>2, <1>3 DEF Moves, TypeOK

\* A call that leaves its step behind.
LEMMA AfterType ==
    ASSUME TypeOK, IInv, NEW k \in Calls, call[k].pc \in {"do", "back"}
    PROVE  /\ After(k) \in CallState /\ After(k).req = call[k].req
           /\ After(k).todo = Tail(call[k].todo)
           /\ After(k).pc = IF Tail(call[k].todo) = <<>> THEN "done" ELSE "do"
           /\ After(k).outcome \in {"ok", call[k].outcome}
           /\ After(k).changed = call[k].changed /\ After(k).did = call[k].did
           /\ After(k).row = call[k].row /\ After(k).last = call[k].last
<1> DEFINE rest == Tail(call[k].todo)
           pc == IF rest = <<>> THEN "done" ELSE "do"
           o == IF rest = <<>> THEN "ok" ELSE call[k].outcome
           i == [call[k] EXCEPT !.todo = rest, !.pc = pc]
<1>t. call[k] \in CallState /\ rest \in Seq(Steps) /\ call[k].outcome \in Outcomes
  BY Parts, StepType DEF CallState
<1>1. After(k) = [i EXCEPT !.outcome = o]
  BY <1>t DEF After, CallState
<1>2. pc \in {"done", "do"} /\ o \in Outcomes /\ o \in {"ok", call[k].outcome}
  BY <1>t DEF Outcomes
<1> HIDE DEF rest, o
<1>3. /\ i \in CallState /\ i.req = call[k].req /\ i.todo = rest /\ i.pc = pc
      /\ i.changed = call[k].changed /\ i.did = call[k].did
      /\ i.row = call[k].row /\ i.last = call[k].last
  BY <1>t, <1>2 DEF CallState
<1> HIDE DEF i, pc
<1> DEFINE f == [i EXCEPT !.outcome = o]
<1>4. /\ f \in CallState /\ f.req = call[k].req /\ f.todo = rest /\ f.pc = pc
      /\ f.outcome = o
      /\ f.changed = call[k].changed /\ f.did = call[k].did
      /\ f.row = call[k].row /\ f.last = call[k].last
  BY <1>2, <1>3 DEF CallState
<1> QED BY <1>1, <1>2, <1>4 DEF rest, pc

\* The steps of a call before its first write.
LEMMA EarlySteps ==
    ASSUME TypeOK, IInv, NEW k \in Calls,
           Begin(k) \/ ReadPage(k) \/ Install(k) \/ Resolve(k) \/ ReadByID(k)
    PROVE  \E j : Moves(k, j)
<1>t. /\ call[k] \in CallState /\ google \in [Cals -> Entry] /\ At(k) \in Cals
      /\ call[k].req.steps \in Seq(Steps) /\ Pages \in Nat \ {0}
      /\ cache \in [read: BOOLEAN, rows: SUBSET RowSpace]
      /\ tainted \subseteq Cals
      /\ \A c \in Cals : Row(c) \in RowSpace
  BY Parts, RowType, BoundsTyped DEF TypeOK, Row
<1>1. ASSUME Begin(k) PROVE \E j : Moves(k, j)
  <2> DEFINE pc == IF Creates(k) THEN "send" ELSE IF Fetches(k) THEN "page" ELSE "found"
             rows == IF cache.read THEN cache.rows ELSE {}
             i == [call[k] EXCEPT !.pc = pc, !.todo = call[k].req.steps]
             h == [i EXCEPT !.page = 1, !.got = rows]
             j == [h EXCEPT !.last = Row(At(k))]
  <2>1. call' = [call EXCEPT ![k].pc = pc, ![k].todo = call[k].req.steps,
                             ![k].page = 1, ![k].got = rows, ![k].last = Row(At(k))]
    BY <1>1 DEF Begin
  <2>2. pc \in {"send", "page", "found"} /\ (pc = "send" => Creates(k))
    OBVIOUS
  <2>3. rows \subseteq RowSpace /\ 1 \in 0 .. Pages + 1 /\ 1 <= Pages
    BY <1>t
  <2> HIDE DEF pc, rows
  <2>4. call' = [call EXCEPT ![k] = j]
    BY <1>t, <2>1, Parts DEF CallState
  <2>5. /\ i \in CallState /\ i.req = call[k].req /\ i.todo = call[k].req.steps
        /\ i.pc = pc /\ i.changed = call[k].changed /\ i.did = call[k].did
        /\ i.outcome = call[k].outcome
    BY <1>t, <2>2 DEF CallState
  <2> HIDE DEF i
  <2>6. /\ h \in CallState /\ h.req = call[k].req /\ h.todo = call[k].req.steps
        /\ h.pc = pc /\ h.changed = call[k].changed /\ h.did = call[k].did
        /\ h.outcome = call[k].outcome /\ h.page = 1
    BY <2>3, <2>5 DEF CallState
  <2> HIDE DEF h
  <2>7. /\ j \in CallState /\ j.req = call[k].req /\ j.todo = call[k].req.steps
        /\ j.pc = pc /\ j.changed = call[k].changed /\ j.did = call[k].did
        /\ j.outcome = call[k].outcome /\ j.page = 1 /\ j.last = Row(At(k))
    BY <1>t, <2>6 DEF CallState
  <2> HIDE DEF j
  <2>8. Begins(k, j)
    BY <1>1, <2>2, <2>3, <2>7 DEF Begin, Begins
  <2>9. tainted' \subseteq Cals
    BY <1>1, <1>t DEF Begin, Overlaps
  <2> QED BY <1>1, <1>t, <2>4, <2>7, <2>8, <2>9 DEF Begin, Moves
<1>2. ASSUME ReadPage(k) PROVE \E j : Moves(k, j)
  <2> DEFINE rows == {Row(c) : c \in {x \in Listed : PageOf[x] = call[k].page}}
             got == call[k].got \union rows
             pc == IF call[k].page = Pages THEN "install" ELSE "page"
             page == call[k].page + 1
             i == [call[k] EXCEPT !.got = got, !.page = page]
             j == [i EXCEPT !.pc = pc]
  <2>1. call' = [call EXCEPT ![k].got = got, ![k].page = page, ![k].pc = pc]
    BY <1>2, <1>t, Parts DEF ReadPage, CallState
  <2>2. rows \subseteq RowSpace
    BY <1>t DEF Listed
  <2>3. call[k].page \in 0 .. Pages + 1 /\ call[k].page <= Pages
        /\ call[k].got \subseteq RowSpace
    BY <1>2, <1>t DEF CallState, ReadPage, IInv, CallInv, StepsInTurn
  <2>4. /\ got \subseteq RowSpace /\ page \in 0 .. Pages + 1
        /\ pc \in {"install", "page"} /\ (pc = "page" => page <= Pages)
    BY <1>t, <2>2, <2>3
  <2> HIDE DEF rows, got, page, pc
  <2>5. call' = [call EXCEPT ![k] = j]
    BY <1>t, <2>1, Parts DEF CallState
  <2>6. /\ i \in CallState /\ i.req = call[k].req /\ i.todo = call[k].todo
        /\ i.changed = call[k].changed /\ i.did = call[k].did
        /\ i.outcome = call[k].outcome /\ i.last = call[k].last /\ i.page = page
    BY <1>t, <2>4 DEF CallState
  <2> HIDE DEF i
  <2>7. /\ j \in CallState /\ j.req = call[k].req /\ j.todo = call[k].todo
        /\ j.changed = call[k].changed /\ j.did = call[k].did
        /\ j.outcome = call[k].outcome /\ j.last = call[k].last /\ j.page = page
        /\ j.pc = pc
    BY <2>4, <2>6 DEF CallState
  <2> HIDE DEF j
  <2>8. Finds(k, j)
    BY <1>2, <2>4, <2>7 DEF ReadPage, Finds, Same
  <2> QED BY <1>2, <1>t, <2>5, <2>7, <2>8 DEF ReadPage, Moves
<1>f. ASSUME NEW j \in CallState, call' = [call EXCEPT ![k] = j],
             UNCHANGED <<google, tainted, edits>>,
             cache' \in [read: BOOLEAN, rows: SUBSET RowSpace],
             j.req = call[k].req, j.todo = call[k].todo,
             j.changed = call[k].changed, j.did = call[k].did,
             j.outcome = call[k].outcome, j.last = call[k].last,
             call[k].pc \in {"install", "found", "byid"},
             j.pc \in {"found", "byid", "do"},
             j.pc \in {"byid", "do"} => j.todo # <<>>
      PROVE  Moves(k, j)
  <2>1. Finds(k, j)
    BY <1>f DEF Finds, Same
  <2> QED BY <1>f, <1>t, <2>1 DEF Moves
<1>3. ASSUME Install(k) PROVE \E j : Moves(k, j)
  <2> DEFINE j == [call[k] EXCEPT !.pc = "found"]
  <2>1. call' = [call EXCEPT ![k] = j]
    BY <1>3 DEF Install
  <2>2. /\ j \in CallState /\ j.req = call[k].req /\ j.todo = call[k].todo
        /\ j.changed = call[k].changed /\ j.did = call[k].did
        /\ j.outcome = call[k].outcome /\ j.last = call[k].last /\ j.pc = "found"
    BY <1>t DEF CallState
  <2>3. cache' \in [read: BOOLEAN, rows: SUBSET RowSpace]
    BY <1>3, <1>t DEF Install, CallState
  <2> HIDE DEF j
  <2> QED BY <1>3, <1>f, <2>1, <2>2, <2>3 DEF Install
<1>4. ASSUME Resolve(k) PROVE \E j : Moves(k, j)
  <2>1. CASE call[k].todo = <<>>
    <3>1. Finish(k, "ok") /\ UNCHANGED <<google, cache, tainted, edits>>
          /\ call[k].pc = "found"
      BY <1>4, <2>1 DEF Resolve
    <3>2. "ok" \in Outcomes
      BY DEF Outcomes
    <3> QED BY <3>1, <3>2, FinishStep
  <2>2. ASSUME call[k].todo # <<>>, NEW r \in call[k].got,
               call' = [call EXCEPT ![k].pc = "do", ![k].row = r]
        PROVE  \E j : Moves(k, j)
    <3> DEFINE j == [call[k] EXCEPT !.pc = "do", !.row = r]
    <3>1. call' = [call EXCEPT ![k] = j]
      BY <2>2
    <3>2. /\ j \in CallState /\ j.req = call[k].req /\ j.todo = call[k].todo
          /\ j.changed = call[k].changed /\ j.did = call[k].did
          /\ j.outcome = call[k].outcome /\ j.last = call[k].last /\ j.pc = "do"
      BY <1>t, <2>2 DEF CallState
    <3> HIDE DEF j
    <3> QED BY <1>4, <1>f, <1>t, <2>2, <3>1, <3>2 DEF Resolve
  <2>3. ASSUME call[k].todo # <<>>, call' = [call EXCEPT ![k].pc = "byid"]
        PROVE  \E j : Moves(k, j)
    <3> DEFINE j == [call[k] EXCEPT !.pc = "byid"]
    <3>1. call' = [call EXCEPT ![k] = j]
      BY <2>3
    <3>2. /\ j \in CallState /\ j.req = call[k].req /\ j.todo = call[k].todo
          /\ j.changed = call[k].changed /\ j.did = call[k].did
          /\ j.outcome = call[k].outcome /\ j.last = call[k].last /\ j.pc = "byid"
      BY <1>t DEF CallState
    <3> HIDE DEF j
    <3> QED BY <1>4, <1>f, <1>t, <2>3, <3>1, <3>2 DEF Resolve
  <2> QED BY <1>4, <2>1, <2>2, <2>3 DEF Resolve
<1>5. ASSUME ReadByID(k) PROVE \E j : Moves(k, j)
  <2> DEFINE r == IF google[At(k)].inList THEN Row(At(k)) ELSE Bare(Row(At(k)))
             j == [call[k] EXCEPT !.pc = "do", !.row = r]
  <2>1. call' = [call EXCEPT ![k] = j]
    BY <1>5 DEF ReadByID
  <2>2. r \in RowSpace
    BY <1>t DEF RowSpace, Bare
  <2> HIDE DEF r
  <2>3. /\ j \in CallState /\ j.req = call[k].req /\ j.todo = call[k].todo
        /\ j.changed = call[k].changed /\ j.did = call[k].did
        /\ j.outcome = call[k].outcome /\ j.last = call[k].last /\ j.pc = "do"
    BY <1>t, <2>2 DEF CallState
  <2>4. call[k].todo # <<>>
    BY <1>5 DEF ReadByID, IInv, CallInv, StepsInTurn
  <2> HIDE DEF j
  <2> QED BY <1>5, <1>f, <1>t, <2>1, <2>3, <2>4 DEF ReadByID
<1> QED BY <1>1, <1>2, <1>3, <1>4, <1>5

\* Its steps before a request, and when it gives up.
LEMMA PlanSteps ==
    ASSUME TypeOK, IInv, NEW k \in Calls,
           Subscribe(k) \/ ReadVersion(k) \/ NothingToSend(k) \/ GivesUp(k)
    PROVE  \E j : Moves(k, j)
<1>t. /\ call[k] \in CallState /\ google \in [Cals -> Entry]
      /\ cache \in [read: BOOLEAN, rows: SUBSET RowSpace] /\ tainted \subseteq Cals
      /\ 0 \in Sends /\ Version(k) \in Nat /\ call[k].row.look \in Nat
  BY Parts, BoundsTyped DEF TypeOK, Sends, Version
<1>a. ASSUME call[k].pc = "do", call' = [call EXCEPT ![k] = After(k)],
             UNCHANGED <<google, cache, tainted, edits>>
      PROVE  \E j : Moves(k, j)
  <2>1. Skips(k, After(k)) /\ After(k) \in CallState /\ After(k).req = call[k].req
    BY <1>a, AfterType DEF Skips, Leaves
  <2> QED BY <1>a, <1>t, <2>1 DEF Moves
<1>1. ASSUME Subscribe(k) PROVE \E j : Moves(k, j)
  <2>1. CASE At(k) \in CalsOf(cache.rows)
    BY <1>1, <1>a, <2>1, Parts DEF Subscribe
  <2>2. CASE At(k) \notin CalsOf(cache.rows)
    <3> DEFINE j == [call[k] EXCEPT !.pc = "send", !.sends = 0, !.unsure = FALSE]
    <3>1. call' = [call EXCEPT ![k] = j]
      BY <1>1, <2>2, Parts DEF Subscribe
    <3>2. /\ j \in CallState /\ j.req = call[k].req /\ j.todo = call[k].todo
          /\ j.changed = call[k].changed /\ j.did = call[k].did /\ j.row = call[k].row
          /\ j.outcome = call[k].outcome /\ j.last = call[k].last /\ j.pc = "send"
      BY <1>t DEF CallState
    <3> HIDE DEF j
    <3>3. Sets(k, j)
      BY <1>1, <3>2 DEF Subscribe, Sets
    <3> QED BY <1>1, <1>t, <3>1, <3>2, <3>3 DEF Subscribe, Moves
  <2> QED BY <2>1, <2>2
<1>2. ASSUME ReadVersion(k) PROVE \E j : Moves(k, j)
  <2> DEFINE base == VersionRead(k)
             changed == call[k].changed \union Listing(k)
             i == [call[k] EXCEPT !.pc = "send", !.sends = 0, !.unsure = FALSE]
             j == [i EXCEPT !.base = base, !.changed = changed]
  <2>1. call' = [call EXCEPT ![k].pc = "send", ![k].sends = 0, ![k].unsure = FALSE,
                             ![k].base = base, ![k].changed = changed]
    BY <1>2, <1>t, Parts DEF ReadVersion, CallState
  <2>2. base \in Nat
    BY <1>t DEF VersionRead
  <2>3. changed \subseteq Steps
        /\ changed \in {call[k].changed, call[k].changed \union {"recolor"}}
    BY <1>t DEF Listing, Steps, CallState
  <2> HIDE DEF base, changed
  <2>4. call' = [call EXCEPT ![k] = j]
    BY <1>t, <2>1, Parts DEF CallState
  <2>5. /\ i \in CallState /\ i.req = call[k].req /\ i.todo = call[k].todo
        /\ i.did = call[k].did /\ i.row = call[k].row
        /\ i.outcome = call[k].outcome /\ i.last = call[k].last /\ i.pc = "send"
    BY <1>t DEF CallState
  <2> HIDE DEF i
  <2>6. /\ j \in CallState /\ j.req = call[k].req /\ j.todo = call[k].todo
        /\ j.did = call[k].did /\ j.row = call[k].row
        /\ j.outcome = call[k].outcome /\ j.last = call[k].last /\ j.pc = "send"
        /\ j.base = base /\ j.changed = changed
    BY <2>2, <2>3, <2>5 DEF CallState
  <2> HIDE DEF j
  <2>7. Sets(k, j)
    BY <1>2, <2>3, <2>6 DEF ReadVersion, Sets, base
  <2> QED BY <1>2, <1>t, <2>4, <2>6, <2>7 DEF ReadVersion, Moves
<1>3. ASSUME NothingToSend(k) PROVE \E j : Moves(k, j)
  BY <1>3, <1>a DEF NothingToSend
<1>4. ASSUME GivesUp(k) PROVE \E j : Moves(k, j)
  <2>1. "failed" \in Outcomes
    BY DEF Outcomes
  <2> QED BY <1>4, <2>1, FinishStep DEF GivesUp
<1> QED BY <1>1, <1>2, <1>3, <1>4

\* Its request, and the answer.
LEMMA RequestSteps ==
    ASSUME TypeOK, IInv, NEW k \in Calls, Request(k)
    PROVE  \E j : Moves(k, j)
<1>t. /\ call[k] \in CallState /\ google \in [Cals -> Entry]
      /\ cache \in [read: BOOLEAN, rows: SUBSET RowSpace] /\ tainted \subseteq Cals
      /\ At(k) \in Cals /\ call[k].row \in RowSpace /\ call[k].last \in RowSpace
      /\ call[k].sends \in Sends /\ call[k].did \subseteq Steps \X Sends
      /\ call[k].changed \subseteq Steps
  BY Parts DEF TypeOK, CallState
<1>s. call[k].pc \in {"send", "back"} => Step(k) \in Steps
  BY StepType
<1>e. call[k].pc = "send" /\ Able(k) => Effect(k) \in [Cals -> Entry]
  BY <1>s, EffectGrows
<1>c. call[k].pc = "send" => Carried(k) \subseteq Steps \X Sends
  BY <1>t, <1>s DEF Carried
<1>1. ASSUME Lands(k) PROVE \E j : Moves(k, j)
  <2> DEFINE did == Carried(k)
             row == Reported(k, call[k].row)
             last == Reported(k, call[k].last)
             i == [call[k] EXCEPT !.pc = "back", !.did = did]
             j == [i EXCEPT !.row = row, !.last = last]
  <2>1. call' = [call EXCEPT ![k].pc = "back", ![k].did = did, ![k].row = row,
                             ![k].last = last]
    BY <1>1 DEF Lands
  <2>2. row \in RowSpace /\ last \in RowSpace
    <3>1. RowIn(Effect(k), At(k)) \in RowSpace
      BY <1>1, <1>e, <1>t, RowType DEF Lands
    <3> QED BY <1>t, <3>1 DEF Reported, RowSpace, Bare
  <2>3. did \subseteq Steps \X Sends
    BY <1>1, <1>c DEF Lands
  <2> HIDE DEF did, row, last
  <2>4. call' = [call EXCEPT ![k] = j]
    BY <1>t, <2>1, Parts DEF CallState
  <2>5. /\ i \in CallState /\ i.req = call[k].req /\ i.todo = call[k].todo
        /\ i.changed = call[k].changed /\ i.did = did
        /\ i.outcome = call[k].outcome /\ i.pc = "back"
    BY <1>t, <2>3 DEF CallState
  <2> HIDE DEF i
  <2>6. /\ j \in CallState /\ j.req = call[k].req /\ j.todo = call[k].todo
        /\ j.changed = call[k].changed /\ j.did = did
        /\ j.outcome = call[k].outcome /\ j.pc = "back"
        /\ j.row = row /\ j.last = last
    BY <2>2, <2>5 DEF CallState
  <2> HIDE DEF j
  <2>7. Acts(k, j)
    BY <1>1, <2>6 DEF Lands, Acts, did, row, last
  <2>8. tainted' \subseteq Cals
    BY <1>1, <1>t DEF Lands
  <2> QED BY <1>1, <1>t, <2>4, <2>6, <2>7, <2>8 DEF Lands, Moves
<1>2. ASSUME Refused(k) PROVE \E j : Moves(k, j)
  <2> DEFINE o == IF There(k) /\ Version(k) # call[k].base
                     /\ Step(k) \notin {"create", "subscribe"} THEN "stale"
                  ELSE IF ~There(k) /\ call[k].unsure
                     /\ Step(k) \in {"unsubscribe", "delete"} THEN "ambiguous"
                  ELSE "failed"
  <2>1. o \in Outcomes /\ (o = "stale" => /\ Version(k) # call[k].base
                                          /\ Step(k) \notin {"create", "subscribe"})
    BY DEF Outcomes
  <2>2. Finish(k, o)
    BY <1>2 DEF Refused
  <2> HIDE DEF o
  <2> QED BY <1>2, <2>1, <2>2, FinishStep DEF Refused
<1>3. ASSUME Unanswered(k) PROVE \E j : Moves(k, j)
  <2> DEFINE next == IF Retryable(k)
                     THEN [call[k] EXCEPT !.sends = @ + 1, !.unsure = TRUE]
                     ELSE [call[k] EXCEPT !.pc = "done",
                              !.outcome = IF Step(k) = "create" THEN "ambiguous"
                                          ELSE "unavailable"]
             did == Carried(k)
             j == [next EXCEPT !.did = did]
  <2>1. /\ call[k].pc = "send" /\ cache' = cache /\ edits' = edits
        /\ tainted' \subseteq Cals
        /\ \/ call' = [call EXCEPT ![k] = next] /\ google' = google
           \/ Able(k) /\ google' = Effect(k) /\ call' = [call EXCEPT ![k] = j]
    BY <1>3, <1>t DEF Unanswered
  <2>2. /\ next \in CallState /\ next.req = call[k].req /\ next.todo = call[k].todo
        /\ next.changed = call[k].changed /\ next.did = call[k].did
        /\ next.last = call[k].last /\ next.row = call[k].row
        /\ next.base = call[k].base /\ next.pc \in {"send", "done"}
        /\ next.pc = "send" => Step(k) \notin {"create", "subscribe"}
        /\ next.outcome \in {call[k].outcome, "ambiguous", "unavailable"}
    <3>1. CASE Retryable(k)
      <4> DEFINE n == [call[k] EXCEPT !.sends = @ + 1, !.unsure = TRUE]
      <4>1. next = n /\ Step(k) \notin {"create", "subscribe"}
        BY <3>1 DEF Retryable
      <4>2. call[k].sends + 1 \in Sends
        BY <1>t, <3>1, BoundsTyped DEF Retryable, Sends
      <4> HIDE DEF next
      <4> QED BY <1>t, <2>1, <4>1, <4>2 DEF CallState
    <3>2. CASE ~Retryable(k)
      <4> DEFINE o == IF Step(k) = "create" THEN "ambiguous" ELSE "unavailable"
                 n == [call[k] EXCEPT !.pc = "done", !.outcome = o]
      <4>1. next = n
        BY <3>2
      <4>2. o \in {"ambiguous", "unavailable"} /\ o \in Outcomes
        BY DEF Outcomes
      <4> HIDE DEF next, o
      <4> QED BY <1>t, <4>1, <4>2 DEF CallState
    <3> QED BY <3>1, <3>2
  <2> HIDE DEF next
  <2>3. did \subseteq Steps \X Sends
    BY <1>c, <2>1
  <2> HIDE DEF did
  <2>4. /\ j \in CallState /\ j.req = call[k].req /\ j.todo = call[k].todo
        /\ j.changed = call[k].changed /\ j.did = did
        /\ j.last = call[k].last /\ j.row = call[k].row
        /\ j.base = call[k].base /\ j.pc \in {"send", "done"}
        /\ j.pc = "send" => Step(k) \notin {"create", "subscribe"}
        /\ j.outcome \in {call[k].outcome, "ambiguous", "unavailable"}
    BY <2>2, <2>3 DEF CallState
  <2> HIDE DEF j
  <2>5. CASE call' = [call EXCEPT ![k] = next] /\ google' = google
    <3>1. Loses(k, next)
      BY <2>1, <2>2, <2>5 DEF Loses, Same
    <3> QED BY <1>t, <2>1, <2>2, <2>5, <3>1 DEF Moves
  <2>6. CASE Able(k) /\ google' = Effect(k) /\ call' = [call EXCEPT ![k] = j]
    <3>1. Loses(k, j)
      BY <2>1, <2>4, <2>6 DEF Loses, Same, did
    <3> QED BY <1>t, <2>1, <2>4, <2>6, <3>1 DEF Moves
  <2> QED BY <2>1, <2>5, <2>6
<1>4. ASSUME Answered(k) PROVE \E j : Moves(k, j)
  <2> DEFINE a == After(k)
             changed == call[k].changed \union {Step(k)}
             j == [a EXCEPT !.changed = changed]
  <2>1. call' = [call EXCEPT ![k] = [a EXCEPT !.changed = @ \union {Step(k)}]]
        /\ call[k].pc = "back" /\ google' = google /\ tainted' = tainted
        /\ edits' = edits
    BY <1>4 DEF Answered
  <2>2. /\ a \in CallState /\ a.req = call[k].req
        /\ a.todo = Tail(call[k].todo)
        /\ a.pc = IF Tail(call[k].todo) = <<>> THEN "done" ELSE "do"
        /\ a.outcome \in {"ok", call[k].outcome}
        /\ a.changed = call[k].changed /\ a.did = call[k].did
        /\ a.row = call[k].row /\ a.last = call[k].last
    BY <2>1, AfterType
  <2>3. changed \subseteq Steps
    BY <1>t, <1>s, <2>1
  <2> HIDE DEF a
  <2>4. call' = [call EXCEPT ![k] = j]
    BY <2>1, <2>2
  <2> HIDE DEF changed
  <2>5. /\ j \in CallState /\ j.req = a.req /\ j.todo = a.todo /\ j.pc = a.pc
        /\ j.outcome = a.outcome /\ j.changed = changed /\ j.did = a.did
        /\ j.row = a.row /\ j.last = a.last
    BY <2>2, <2>3 DEF CallState
  <2> HIDE DEF j
  <2>6. Answers(k, j)
    BY <2>1, <2>2, <2>5 DEF Answers, Leaves, changed
  <2>7. cache' \in [read: BOOLEAN, rows: SUBSET RowSpace]
    <3>1. Corrected(k, cache.rows) \subseteq RowSpace
      BY <1>t DEF Corrected, Without, Returned
    <3> QED BY <1>4, <1>t, <3>1 DEF Answered
  <2> QED BY <1>t, <2>1, <2>2, <2>4, <2>5, <2>6, <2>7 DEF Moves
<1> QED BY <1>1, <1>2, <1>3, <1>4 DEF Request

-----------------------------------------------------------------------------
(* The theorems.                                                           *)

\* The invariant holds at the start.
LEMMA InitInv == ASSUME Init PROVE TypeOK /\ IInv
<1>1. google \in [Cals -> Entry] /\ \A c \in Cals : google[c].name = 1 /\ google[c].look = 1
  BY DEF Init, Entry
<1>2. /\ NoRow \in RowSpace /\ NoRow.name = 0 /\ NoRow.look = 0
      /\ 0 \in 0 .. Pages + 1 /\ 0 \in Sends /\ 0 \in 0 .. MaxEdits
      /\ <<>> \in Seq(Steps) /\ IsInjective(<<>>) /\ Range(<<>>) = {}
  BY BoundsTyped, CalendarAssumption DEF NoRow, RowSpace, Sends, IsInjective, Range
<1> DEFINE Starts == [pc : {"idle"}, req : Requests, todo : {<<>>}, page : {0},
                      got : {{}}, row : {NoRow}, base : {0}, sends : {0},
                      unsure : {FALSE}, changed : {{}}, outcome : {"none"},
                      did : {{}}, last : {NoRow}]
<1>3. ASSUME NEW r \in Starts
      PROVE  /\ r \in CallState /\ r.pc = "idle" /\ r.todo = <<>>
             /\ r.changed = {} /\ r.did = {} /\ r.last = NoRow
             /\ r.outcome = "none"
  <2>1. "none" \in Outcomes
    BY DEF Outcomes
  <2>2. {} \in SUBSET RowSpace /\ {} \in SUBSET Steps /\ {} \in SUBSET (Steps \X Sends)
    OBVIOUS
  <2>3. /\ NoRow \in RowSpace /\ 0 \in 0 .. Pages + 1 /\ 0 \in Sends
        /\ <<>> \in Seq(Steps) /\ 0 \in Nat
    BY <1>2
  <2> QED BY <2>1, <2>2, <2>3 DEF CallState
<1>4. call \in [Calls -> Starts]
  BY DEF Init
<1>5. \A k \in Calls :
        /\ call[k] \in CallState /\ call[k].pc = "idle" /\ call[k].todo = <<>>
        /\ call[k].changed = {} /\ call[k].did = {} /\ call[k].last = NoRow
        /\ call[k].outcome = "none"
  <2> HIDE DEF Starts
  <2> QED BY <1>3, <1>4
<1>6. call \in [Calls -> CallState]
  BY <1>5 DEF Init
<1>7. TypeOK
  BY <1>1, <1>2, <1>6 DEF Init, TypeOK, Entry, CallState, Outcomes
<1>8. ASSUME NEW k \in Calls PROVE CallInv(k)
  <2>1. call[k].last.name = 0 /\ call[k].last.look = 0
    BY <1>2, <1>5
  <2>2. google[At(k)].name \in Nat /\ google[At(k)].look \in Nat
    BY <1>7, Parts
  <2> QED BY <1>2, <1>5, <2>1, <2>2
          DEF CallInv, StepsInTurn, SaidAndDone, SpentBase, VersionsInOrder, StaleSince
<1> QED BY <1>7, <1>8 DEF IInv

\* A change from outside keeps it.
LEMMA EditStep ==
    ASSUME TypeOK, IInv, NEW c \in Cals, Edit(c)
    PROVE  TypeOK' /\ IInv'
<1> DEFINE e == google[c]
<1>t. /\ google \in [Cals -> Entry] /\ e \in Entry /\ e.live
      /\ e.name \in Nat \ {0} /\ e.look \in Nat \ {0} /\ e.inList \in BOOLEAN
      /\ \A x \in Cals : google[x].name \in Nat /\ google[x].look \in Nat
  BY Parts DEF Edit, Entry
<1>1. PICK f \in Edited(c) : google' = [google EXCEPT ![c] = f]
  BY DEF Edit
<1>2. /\ f \in Entry /\ e.name <= f.name /\ e.look <= f.look
      /\ f.inList /\ ~e.inList => e.look < f.look
  <2>1. CASE f = [e EXCEPT !.name = @ + 1]
    BY <1>t, <2>1 DEF Entry
  <2>2. CASE f = [e EXCEPT !.look = @ + 1]
    BY <1>t, <2>2 DEF Entry
  <2>3. CASE f = [e EXCEPT !.inList = ~@, !.look = @ + 1]
    <3> DEFINE i == [e EXCEPT !.inList = ~@]
               h == [i EXCEPT !.look = @ + 1]
    <3>1. f = h
      BY <2>3
    <3>2. i \in Entry /\ i.name = e.name /\ i.look = e.look
      BY <1>t DEF Entry
    <3> HIDE DEF i
    <3>3. h \in Entry /\ h.name = e.name /\ h.look = e.look + 1
      BY <1>t, <3>2 DEF Entry
    <3> QED BY <1>t, <3>1, <3>3
  <2>4. CASE f = [e EXCEPT !.live = FALSE, !.inList = FALSE]
    <3> DEFINE i == [e EXCEPT !.live = FALSE]
               h == [i EXCEPT !.inList = FALSE]
    <3>1. f = h
      BY <2>4
    <3>2. i \in Entry /\ i.name = e.name /\ i.look = e.look
      BY <1>t DEF Entry
    <3> HIDE DEF i
    <3>3. h \in Entry /\ h.name = e.name /\ h.look = e.look /\ ~h.inList
      BY <1>t, <3>2 DEF Entry
    <3> QED BY <1>t, <3>1, <3>3
  <2> QED BY <1>1, <2>1, <2>2, <2>3, <2>4 DEF Edited
<1> HIDE DEF e
<1>3. google' \in [Cals -> Entry] /\ Grows(google, google')
  <2>1. google' \in [Cals -> Entry] /\ google'[c] = f
        /\ \A x \in Cals \ {c} : google'[x] = google[x]
    BY <1>t, <1>1, <1>2
  <2> QED BY <1>t, <1>2, <2>1 DEF Grows, e
<1>4. call' = call /\ cache' = cache /\ tainted' \subseteq Cals
      /\ edits' \in 0 .. MaxEdits
  BY BoundsTyped DEF Edit, TypeOK
<1>5. TypeOK'
  BY <1>3, <1>4 DEF TypeOK, Entry
<1>6. \A k \in Calls : CallInv(k)'
  BY <1>3, <1>4, KeptByOthers DEF IInv
<1> QED BY <1>5, <1>6 DEF IInv

\* Every step keeps it.
LEMMA NextInv == ASSUME TypeOK, IInv, [Next]_vars PROVE TypeOK' /\ IInv'
<1>1. ASSUME NEW k \in Calls, Begin(k) \/ Works(k) \/ Request(k)
      PROVE  TypeOK' /\ IInv'
  <2>1. PICK j : Moves(k, j)
    BY <1>1, EarlySteps, PlanSteps, RequestSteps DEF Works
  <2> QED BY <2>1, TypeStep, InvStep
<1>2. ASSUME NEW c \in Cals, Edit(c) PROVE TypeOK' /\ IInv'
  BY <1>2, EditStep
<1>3. CASE UNCHANGED vars
  BY <1>3 DEF vars, TypeOK, IInv, CallInv, StepsInTurn, SaidAndDone, SpentBase,
              VersionsInOrder, StaleSince, Known, Version, There, Step, At, HasDone
<1> QED BY <1>1, <1>2, <1>3 DEF Next

\* The types are right and the invariant holds, always.
THEOREM Soundness == Spec => [](TypeOK /\ IInv)
<1>1. Init => TypeOK /\ IInv
  BY InitInv
<1>2. TypeOK /\ IInv /\ [Next]_vars => TypeOK' /\ IInv'
  BY NextInv
<1> QED BY <1>1, <1>2, PTL DEF Spec

\* Every variable has its type.
THEOREM TypeCorrect == Spec => []TypeOK
BY Soundness, PTL

\* Whatever steps one call is made of, in any order and with any answer
\* lost: what it reports as changed was carried out, and no step but a clear
\* is carried out twice.
THEOREM ReportsAreTrue == Spec => []ClaimsLanded
<1>1. IInv => ClaimsLanded
  BY DEF IInv, CallInv, SaidAndDone, HasDone, ClaimsLanded
<1> QED BY <1>1, Soundness, PTL

\* However old the kept list, a call is refused as stale only when somebody
\* changed what it writes after it last knew it.
THEOREM StaleIsTrue == Spec => []StaleMeansChanged
<1>1. TypeOK /\ IInv => StaleMeansChanged
  <2> SUFFICES ASSUME TypeOK, IInv, NEW k \in Calls, call[k].outcome = "stale",
                      ~call[k].unsure
      PROVE  Version(k) # Known(k)
    BY DEF StaleMeansChanged, Known
  <2>1. Known(k) < Version(k)
    BY DEF IInv, CallInv, StaleSince
  <2>2. Known(k) \in Nat /\ Version(k) \in Nat
    BY Parts DEF Known, Version
  <2> QED BY <2>1, <2>2
<1> QED BY <1>1, Soundness, PTL
-----------------------------------------------------------------------------
(* The kept list is current: the invariant.                                *)

RowsOf(rows, c) == {r \in rows : r.cal = c}
RowNow(c) == IF c \in Listed THEN {Row(c)} ELSE {}

\* The row of a calendar this process created may lack the entry's half.
BareNow(c) == IF c \in Fresh \intersect Listed THEN {Bare(Row(c))} ELSE {}
Likely(c) == RowNow(c) \union BareNow(c)
Kept(rows, c) ==
    RowsOf(rows, c) = RowNow(c) \/ (BareNow(c) # {} /\ RowsOf(rows, c) = BareNow(c))

\* A call at work has the steps it was asked for; one that has fetched has
\* read every page; what comes back is a row of its own calendar.
Ready(k) ==
    /\ call[k].pc \in {"byid", "do", "send", "back"} => call[k].req.steps # <<>>
    /\ call[k].pc \in {"page", "install", "found"} => call[k].todo = call[k].req.steps
    /\ call[k].pc = "install" => call[k].page = Pages + 1
    /\ call[k].pc = "back" => call[k].row.cal = At(k)
    /\ call[k].pc \in {"byid", "do", "send", "back"} =>
        Range(call[k].todo) \subseteq Range(call[k].req.steps)

\* Only a calendar that is there is in a list.
ListedIsLive == \A c \in Cals : google[c].inList => google[c].live

\* A write to a calendar that is not tainted is the only call that fetches
\* or writes to it.
Alone(c) == \A w \in Writers(c), k \in Fetching \union Writers(c) : k = w

\* A write is back from Google and has not corrected the kept list yet.
ToCorrect(c) ==
    {k \in Calls : call[k].pc = "back" /\ At(k) = c /\ Step(k) # "clear"}

CacheCurrent(c) ==
    cache.read /\ ToCorrect(c) = {} => Kept(cache.rows, c)

\* What a fetch has read by now, page by page.
FetchCurrent(c, k) ==
    k \in Fetching =>
        RowsOf(call[k].got, c) = IF PageOf[c] < call[k].page THEN RowNow(c) ELSE {}

\* The rows a write resolves with, and the row it carries along.
FoundCurrent(c, k) ==
    call[k].pc = "found" /\ k \in Writers(c) => RowsOf(call[k].got, c) \subseteq Likely(c)

RowCurrent(c, k) ==
    /\ k \in Writers(c) /\ c \in Listed
    /\ call[k].pc \in {"do", "back"} \/ (call[k].pc = "send" /\ Step(k) # "create")
    => call[k].row \in Likely(c)

\* What was carried out shows in the list at Google.
BackCurrent(c, k) ==
    k \in Writers(c) /\ call[k].pc = "back" =>
        /\ Step(k) \in {"unsubscribe", "delete"} => c \notin Listed
        /\ Step(k) \notin {"unsubscribe", "delete", "clear"} => c \in Listed

CallCurrent(c, k) ==
    FetchCurrent(c, k) /\ FoundCurrent(c, k) /\ RowCurrent(c, k) /\ BackCurrent(c, k)

Current(c) == Alone(c) /\ CacheCurrent(c) /\ \A k \in Calls : CallCurrent(c, k)

CInv ==
    /\ \A k \in Calls : Ready(k)
    /\ ListedIsLive
    /\ \A c \in Cals \ tainted : Current(c)

-----------------------------------------------------------------------------
(* The kept list is current: its parts, step by step.                      *)

\* What a call has said to do, and the page a calendar is on.
LEMMA AskedFor ==
    ASSUME TypeOK, NEW k \in Calls
    PROVE  /\ At(k) \in Cals /\ call[k].got \subseteq RowSpace
           /\ call[k].page \in Nat
           /\ call[k].row \in RowSpace
           /\ Creates(k) => call[k].req.steps # <<>> /\ Head(call[k].req.steps) = "create"
<1>1. call[k] \in CallState /\ call[k].req \in Requests /\ Pages \in Nat
  BY Parts, BoundsTyped DEF CallState
<1>2. At(k) \in Cals /\ call[k].req.steps \in Seq(Steps) /\ Allowed(call[k].req)
  BY <1>1, CalendarAssumption DEF At
<1>3. ASSUME Creates(k)
      PROVE  call[k].req.steps # <<>> /\ Head(call[k].req.steps) = "create"
  <2> DEFINE s == call[k].req.steps
  <2>1. "create" \in Range(s) /\ Len(s) = 1
    BY <1>2, <1>3 DEF Creates, Allowed
  <2>2. PICK i \in DOMAIN s : s[i] = "create"
    BY <2>1 DEF Range
  <2>3. s \in Seq(Steps) /\ DOMAIN s = 1 .. 1
    BY <1>2, <2>1
  <2>4. i = 1 /\ s # <<>> /\ Head(s) = s[1]
    BY <2>1, <2>2, <2>3
  <2> QED BY <2>2, <2>4
<1> QED BY <1>1, <1>2, <1>3 DEF CallState

\* A calendar Google has unchanged has the row it had.
LEMMA RowStays ==
    ASSUME NEW c \in Cals, google'[c] = google[c]
    PROVE  /\ Row(c)' = Row(c) /\ (c \in Listed)' = (c \in Listed) /\ RowNow(c)' = RowNow(c)
           /\ BareNow(c)' = BareNow(c) /\ Likely(c)' = Likely(c)
<1>1. Row(c)' = Row(c)
  BY DEF Row, RowIn
<1>2. (c \in Listed)' = (c \in Listed)
  BY DEF Listed
<1>3. RowNow(c)' = RowNow(c)
  BY <1>1, <1>2 DEF RowNow
<1>4. BareNow(c)' = BareNow(c)
  BY <1>1, <1>2 DEF BareNow, Bare
<1> QED BY <1>1, <1>2, <1>3, <1>4 DEF Likely

\* The row of a calendar names it.
LEMMA RowNames == \A g, c : RowIn(g, c).cal = c
BY DEF RowIn

\* Where the others are does not change with a call that is not theirs.
LEMMA OthersStay ==
    ASSUME NEW c \in Cals, NEW b \in Calls, call'[b] = call[b], CallCurrent(c, b),
           google'[c] = google[c] \/ b \notin Fetching \union Writers(c)
    PROVE  CallCurrent(c, b)'
<1>1. /\ (b \in Writers(c))' = (b \in Writers(c)) /\ (b \in Fetching)' = (b \in Fetching)
      /\ Step(b)' = Step(b)
  BY DEF Writers, Running, At, Fetching, Step
<1>2. CASE google'[c] = google[c]
  <2>1. (c \in Listed)' = (c \in Listed) /\ RowNow(c)' = RowNow(c) /\ Likely(c)' = Likely(c)
    BY <1>2, RowStays
  <2>2. FetchCurrent(c, b)' /\ FoundCurrent(c, b)'
    BY <1>1, <2>1 DEF CallCurrent, FetchCurrent, FoundCurrent, RowsOf
  <2>3. RowCurrent(c, b)' /\ BackCurrent(c, b)'
    BY <1>1, <2>1 DEF CallCurrent, RowCurrent, BackCurrent
  <2> QED BY <2>2, <2>3 DEF CallCurrent
<1>3. CASE b \notin Fetching \union Writers(c)
  BY <1>1, <1>3 DEF CallCurrent, FetchCurrent, FoundCurrent, RowCurrent, BackCurrent
<1> QED BY <1>2, <1>3

\* A call that neither fetches nor writes here has nothing to keep.
LEMMA NotHere ==
    ASSUME NEW c \in Cals, NEW k \in Calls,
           ~(k \in Fetching)', ~(k \in Writers(c))'
    PROVE  CallCurrent(c, k)'
BY DEF CallCurrent, FetchCurrent, FoundCurrent, RowCurrent, BackCurrent

\* Only beginning brings another fetch or another write.
LEMMA AloneStays ==
    ASSUME NEW c \in Cals, NEW k \in Calls, Alone(c),
           \A b \in Calls \ {k} : call'[b] = call[b],
           call'[k].req = call[k].req, Running(k),
           call'[k].pc \in {"page", "install"} => call[k].pc \in {"page", "install"}
    PROVE  Alone(c)'
<1>1. \A b \in Calls : /\ (b \in Writers(c))' => b \in Writers(c)
                       /\ (b \in Fetching)' => b \in Fetching
  BY DEF Writers, Running, At, Fetching
<1>2. Writers(c)' \subseteq Writers(c) /\ Fetching' \subseteq Fetching
  <2>1. Writers(c)' \subseteq Calls /\ Fetching' \subseteq Calls
    BY DEF Writers, Fetching
  <2> QED BY <1>1, <2>1
<1> QED BY <1>2 DEF Alone

\* What one call does leaves the rest of the invariant alone.
LEMMA StepKeeps ==
    ASSUME CInv, NEW k \in Calls,
           \A b \in Calls \ {k} : call'[b] = call[b],
           tainted \subseteq tainted',
           \A c \in Cals \ tainted' : google'[c] = google[c] \/ k \in Writers(c),
           Ready(k)', ListedIsLive',
           \A c \in Cals \ tainted' : Alone(c)' /\ CacheCurrent(c)' /\ CallCurrent(c, k)'
    PROVE  CInv'
<1>1. ASSUME NEW b \in Calls PROVE Ready(b)'
  <2>1. CASE b # k
    <3>1. call'[b] = call[b] /\ Ready(b)
      BY <2>1 DEF CInv
    <3> QED BY <3>1 DEF Ready, At
  <2> QED BY <2>1
<1>2. ASSUME NEW c \in Cals \ tainted', NEW b \in Calls PROVE CallCurrent(c, b)'
  <2>1. CASE b # k
    <3>1. call'[b] = call[b] /\ CallCurrent(c, b) /\ Alone(c)
      BY <2>1 DEF CInv, Current
    <3>2. google'[c] = google[c] \/ b \notin Fetching \union Writers(c)
      BY <2>1, <3>1 DEF Alone
    <3> QED BY <3>1, <3>2, OthersStay
  <2> QED BY <2>1
<1>3. ASSUME NEW c \in Cals \ tainted' PROVE Current(c)'
  BY <1>2 DEF Current
<1> QED BY <1>1, <1>3 DEF CInv

\* Calls that do not come back from Google leave what has to be corrected.
LEMMA CacheStays ==
    ASSUME NEW c \in Cals, NEW k \in Calls, CacheCurrent(c),
           \A b \in Calls \ {k} : call'[b] = call[b],
           call[k].pc # "back", call'[k].pc # "back",
           google'[c] = google[c], cache' = cache
    PROVE  CacheCurrent(c)'
<1>1. ToCorrect(c)' = ToCorrect(c)
  BY DEF ToCorrect, At, Step
<1> QED BY <1>1, RowStays DEF CacheCurrent, Kept, RowsOf

\* Two lists of rows, and the rows of one calendar in them.
LEMMA RowsOfBoth ==
    ASSUME NEW a, NEW b, NEW c
    PROVE  RowsOf(a \union b, c) = RowsOf(a, c) \union RowsOf(b, c)
BY DEF RowsOf

\* A call begins: it finds nobody at work on a calendar it does not taint.
LEMMA BeginCurrent ==
    ASSUME TypeOK, IInv, CInv, NEW k \in Calls, Begin(k)
    PROVE  CInv'
<1> DEFINE pc == IF Creates(k) THEN "send" ELSE IF Fetches(k) THEN "page" ELSE "found"
           rows == IF cache.read THEN cache.rows ELSE {}
<1>t. call[k] \in CallState /\ call \in [Calls -> CallState]
  BY Parts
<1>1. /\ call'[k].pc = pc /\ call'[k].todo = call[k].req.steps /\ call'[k].page = 1
      /\ call'[k].got = rows /\ call'[k].req = call[k].req
      /\ \A b \in Calls \ {k} : call'[b] = call[b]
  <2> HIDE DEF pc, rows
  <2>1. call' = [call EXCEPT ![k].pc = pc, ![k].todo = call[k].req.steps,
                             ![k].page = 1, ![k].got = rows, ![k].last = Row(At(k))]
    BY DEF Begin, pc, rows
  <2> QED BY <1>t, <2>1 DEF CallState
<1>2. google' = google /\ cache' = cache /\ tainted' = tainted \union Overlaps(k)
      /\ call[k].pc = "idle"
  BY DEF Begin
<1>3. Step(k)' = Head(call[k].req.steps) /\ At(k)' = At(k)
  BY <1>1 DEF Step, At
<1>4. Ready(k)'
  BY <1>1, AskedFor DEF Ready
<1>5. ListedIsLive'
  BY <1>2 DEF CInv, ListedIsLive
<1>6. ASSUME NEW c \in Cals \ tainted'
      PROVE  Alone(c)' /\ CacheCurrent(c)' /\ CallCurrent(c, k)'
  <2>1. c \notin tainted /\ c \notin Overlaps(k) /\ Current(c)
    BY <1>2 DEF CInv
  <2>2. Fetches(k) => Writers(c) = {}
    BY <2>1 DEF Overlaps
  <2>3. c = At(k) /\ call[k].req.steps # <<>> => Writers(c) = {} /\ Fetching = {}
    BY <2>1 DEF Overlaps
  <2>4. \A b \in Calls \ {k} : /\ (b \in Writers(c))' = (b \in Writers(c))
                               /\ (b \in Fetching)' = (b \in Fetching)
    BY <1>1 DEF Writers, Running, At, Fetching
  <2>5. /\ (k \in Writers(c))' => c = At(k) /\ call[k].req.steps # <<>>
        /\ (k \in Fetching)' => Fetches(k)
        /\ Writers(c)' \subseteq Calls /\ Fetching' \subseteq Calls
    BY <1>1 DEF Writers, At, Fetching
  <2>6. Alone(c)'
    <3> SUFFICES ASSUME NEW w \in Writers(c)', NEW b \in Fetching' \union Writers(c)'
                 PROVE  b = w
      BY DEF Alone
    <3>1. CASE w = k
      BY <2>3, <2>4, <2>5, <3>1
    <3>2. CASE w # k /\ b = k
      BY <2>2, <2>3, <2>4, <2>5, <3>2
    <3>3. CASE w # k /\ b # k
      BY <2>1, <2>4, <2>5, <3>3 DEF Current, Alone
    <3> QED BY <3>1, <3>2, <3>3
  <2>7. CacheCurrent(c)'
    BY <1>1, <1>2, <2>1, CacheStays DEF Current
  <2>8. FetchCurrent(c, k)'
    <3>1. (k \in Fetching)' => call'[k].got = {} /\ call'[k].page = 1
      BY <1>1, <2>5 DEF Fetches
    <3>2. ~(PageOf[c] < 1)
      BY CalendarAssumption
    <3> QED BY <3>1, <3>2 DEF FetchCurrent, RowsOf
  <2>9. FoundCurrent(c, k)'
    <3> SUFFICES ASSUME (k \in Writers(c))'
                 PROVE  RowsOf(rows, c) \subseteq Likely(c)
      <4>1. Likely(c)' = Likely(c)
        BY <1>2, RowStays
      <4> HIDE DEF rows
      <4> QED BY <1>1, <4>1 DEF FoundCurrent, RowsOf
    <3>1. ToCorrect(c) = {}
      BY <2>3, <2>5 DEF ToCorrect, Writers, Running, CInv, Ready
    <3> QED BY <2>1, <3>1 DEF Current, CacheCurrent, Kept, Likely, RowsOf
  <2>10. RowCurrent(c, k)' /\ BackCurrent(c, k)'
    BY <1>1, <1>3, AskedFor DEF RowCurrent, BackCurrent
  <2> QED BY <2>6, <2>7, <2>8, <2>9, <2>10 DEF CallCurrent
<1> QED BY <1>1, <1>2, <1>4, <1>5, <1>6, StepKeeps
\* A page is read: what it says of a calendar is what there is.
LEMMA ReadPageCurrent ==
    ASSUME TypeOK, IInv, CInv, NEW k \in Calls, ReadPage(k)
    PROVE  CInv'
<1> DEFINE more == {Row(x) : x \in {y \in Listed : PageOf[y] = call[k].page}}
           pc == IF call[k].page = Pages THEN "install" ELSE "page"
<1>t. /\ call[k] \in CallState /\ call \in [Calls -> CallState] /\ call[k].page \in Nat
      /\ Pages \in Nat /\ PageOf \in [Cals -> 1 .. Pages]
  BY Parts, AskedFor, CalendarAssumption
<1>1. /\ call'[k].pc = pc /\ call'[k].todo = call[k].todo
      /\ call'[k].page = call[k].page + 1 /\ call'[k].got = call[k].got \union more
      /\ call'[k].req = call[k].req
      /\ \A b \in Calls \ {k} : call'[b] = call[b]
  <2> HIDE DEF pc, more
  <2>1. call' = [call EXCEPT ![k].got = @ \union more, ![k].page = @ + 1, ![k].pc = pc]
    BY DEF ReadPage, pc, more
  <2> QED BY <1>t, <2>1 DEF CallState
<1>2. google' = google /\ cache' = cache /\ tainted' = tainted /\ call[k].pc = "page"
  BY DEF ReadPage
<1>3. Ready(k)'
  BY <1>1, <1>2, <1>t DEF Ready, CInv
<1>4. ListedIsLive'
  BY <1>2 DEF CInv, ListedIsLive
<1>5. ASSUME NEW c \in Cals \ tainted'
      PROVE  Alone(c)' /\ CacheCurrent(c)' /\ CallCurrent(c, k)'
  <2>1. Current(c) /\ k \in Fetching /\ RowNow(c)' = RowNow(c) /\ PageOf[c] \in Nat
    BY <1>2, <1>t, RowStays DEF CInv, Fetching
  <2>2. Alone(c)' /\ CacheCurrent(c)'
    BY <1>1, <1>2, <2>1, AloneStays, CacheStays DEF Current, Running
  <2>3. RowsOf(more, c) = IF PageOf[c] = call[k].page THEN RowNow(c) ELSE {}
    BY RowNames DEF RowsOf, RowNow, Row, Listed
  <2>4. RowsOf(call[k].got, c) = IF PageOf[c] < call[k].page THEN RowNow(c) ELSE {}
    BY <2>1 DEF Current, CallCurrent, FetchCurrent
  <2> HIDE DEF more
  <2>5. RowsOf(call'[k].got, c) = IF PageOf[c] < call[k].page + 1 THEN RowNow(c) ELSE {}
    <3>1. RowsOf(call'[k].got, c) = RowsOf(call[k].got, c) \union RowsOf(more, c)
      BY <1>1, RowsOfBoth
    <3>2. PageOf[c] < call[k].page + 1 <=> PageOf[c] < call[k].page \/ PageOf[c] = call[k].page
      BY <1>t, <2>1
    <3> QED BY <2>3, <2>4, <3>1, <3>2
  <2>6. FetchCurrent(c, k)'
    BY <1>1, <2>1, <2>5 DEF FetchCurrent, RowsOf
  <2>7. FoundCurrent(c, k)' /\ RowCurrent(c, k)' /\ BackCurrent(c, k)'
    BY <1>1 DEF FoundCurrent, RowCurrent, BackCurrent
  <2> QED BY <2>2, <2>6, <2>7 DEF CallCurrent
<1> QED BY <1>1, <1>2, <1>3, <1>4, <1>5, StepKeeps

\* What was fetched replaces the list: every page has been read.
LEMMA InstallCurrent ==
    ASSUME TypeOK, IInv, CInv, NEW k \in Calls, Install(k)
    PROVE  CInv'
<1>t. call[k] \in CallState /\ call \in [Calls -> CallState]
      /\ Pages \in Nat /\ PageOf \in [Cals -> 1 .. Pages]
  BY Parts, CalendarAssumption
<1>1. /\ call' = [call EXCEPT ![k].pc = "found"]
      /\ call'[k].pc = "found" /\ call'[k].todo = call[k].todo
      /\ call'[k].got = call[k].got /\ call'[k].req = call[k].req
      /\ \A b \in Calls \ {k} : call'[b] = call[b]
  BY <1>t DEF Install, CallState
<1>2. /\ google' = google /\ cache' = [read |-> TRUE, rows |-> call[k].got]
      /\ tainted' = tainted /\ call[k].pc = "install"
  BY DEF Install
<1>3. Ready(k)' /\ call[k].page = Pages + 1
  BY <1>1, <1>2 DEF Ready, CInv
<1>4. ListedIsLive'
  BY <1>2 DEF CInv, ListedIsLive
<1>5. ASSUME NEW c \in Cals \ tainted'
      PROVE  Alone(c)' /\ CacheCurrent(c)' /\ CallCurrent(c, k)'
  <2>1. Current(c) /\ k \in Fetching /\ RowNow(c)' = RowNow(c)
    BY <1>2, RowStays DEF CInv, Fetching
  <2>2. Alone(c)'
    BY <1>1, <1>2, <2>1, AloneStays DEF Current, Running
  <2>3. PageOf[c] < Pages + 1
    BY <1>t
  <2>4. RowsOf(call[k].got, c) = RowNow(c)
    BY <1>3, <2>1, <2>3 DEF Current, CallCurrent, FetchCurrent
  <2>5. CacheCurrent(c)'
    BY <1>2, <2>1, <2>4 DEF CacheCurrent, Kept, RowsOf
  <2>6. FoundCurrent(c, k)'
    BY <1>1, <1>2, <2>1, <2>4, RowStays DEF FoundCurrent, Likely, RowsOf
  <2>7. FetchCurrent(c, k)' /\ RowCurrent(c, k)' /\ BackCurrent(c, k)'
    BY <1>1 DEF FetchCurrent, Fetching, RowCurrent, BackCurrent
  <2> QED BY <2>2, <2>5, <2>6, <2>7 DEF CallCurrent
<1> QED BY <1>1, <1>2, <1>3, <1>4, <1>5, StepKeeps

\* The steps that only move the call on: to its next step, to a request it
\* plans, or to its end.
Onward(k) == call'[k].todo = call[k].todo \/ call'[k].todo = Tail(call[k].todo)

Plain(k) ==
    /\ google' = google /\ cache' = cache /\ tainted' = tainted
    /\ \A b \in Calls \ {k} : call'[b] = call[b]
    /\ call'[k].req = call[k].req /\ call'[k].row = call[k].row
    /\ Running(k) /\ call[k].pc # "back"
    /\ \/ call'[k].pc = "done"
       \/ call'[k].pc \in {"do", "send"} /\ call[k].pc = "do" /\ Onward(k)

LEMMA PlainCurrent ==
    ASSUME TypeOK, IInv, CInv, NEW k \in Calls, Plain(k)
    PROVE  CInv'
<1>1. Ready(k)'
  <2>1. CASE call'[k].pc = "done"
    BY <2>1 DEF Ready
  <2>2. CASE call'[k].pc \in {"do", "send"} /\ call[k].pc = "do"
    BY <2>2, StepType DEF Plain, Onward, Ready, CInv
  <2> QED BY <2>1, <2>2 DEF Plain
<1>2. ListedIsLive'
  BY DEF Plain, CInv, ListedIsLive
<1>3. ASSUME NEW c \in Cals \ tainted'
      PROVE  Alone(c)' /\ CacheCurrent(c)' /\ CallCurrent(c, k)'
  <2>1. /\ Current(c) /\ Likely(c)' = Likely(c) /\ (c \in Listed)' = (c \in Listed)
        /\ (k \in Writers(c))' => k \in Writers(c)
    BY RowStays DEF Plain, CInv, Writers, At, Running
  <2>2. Alone(c)' /\ CacheCurrent(c)'
    BY <2>1, AloneStays, CacheStays DEF Plain, Current
  <2>3. FetchCurrent(c, k)' /\ FoundCurrent(c, k)' /\ BackCurrent(c, k)'
    BY DEF Plain, FetchCurrent, Fetching, FoundCurrent, BackCurrent
  <2>4. RowCurrent(c, k)'
    BY <2>1 DEF Plain, Current, CallCurrent, RowCurrent
  <2> QED BY <2>2, <2>3, <2>4 DEF CallCurrent
<1> QED BY <1>1, <1>2, <1>3, StepKeeps DEF Plain

\* A call that ends is plain.
LEMMA FinishPlain ==
    ASSUME TypeOK, NEW k \in Calls, NEW o, Finish(k, o), Running(k), call[k].pc # "back",
           UNCHANGED <<google, cache, tainted, edits>>
    PROVE  Plain(k)
<1>1. call[k] \in CallState /\ call \in [Calls -> CallState]
  BY Parts
<1>2. call'[k].pc = "done" /\ call'[k].req = call[k].req /\ call'[k].row = call[k].row
      /\ \A b \in Calls \ {k} : call'[b] = call[b]
  BY <1>1 DEF Finish, CallState
<1> QED BY <1>2 DEF Plain

\* The calendar is resolved from the rows that were found.
LEMMA ResolveCurrent ==
    ASSUME TypeOK, IInv, CInv, NEW k \in Calls, Resolve(k)
    PROVE  CInv'
<1>t. /\ call[k] \in CallState /\ call \in [Calls -> CallState] /\ call[k].pc = "found"
      /\ google' = google /\ cache' = cache /\ tainted' = tainted
      /\ call[k].todo = call[k].req.steps
  BY Parts DEF Resolve, CInv, Ready
<1>l. ListedIsLive'
  BY <1>t DEF CInv, ListedIsLive
<1>1. CASE Finish(k, "ok")
  BY <1>t, <1>1, FinishPlain, PlainCurrent DEF Resolve, Running
<1>2. ASSUME NEW r \in call[k].got, r.cal = At(k), call[k].todo # <<>>,
             call' = [call EXCEPT ![k].pc = "do", ![k].row = r]
      PROVE  CInv'
  <2>1. /\ call'[k].pc = "do" /\ call'[k].row = r /\ call'[k].req = call[k].req
        /\ call'[k].todo = call[k].todo
        /\ \A b \in Calls \ {k} : call'[b] = call[b]
    BY <1>t, <1>2 DEF CallState
  <2>2. Ready(k)'
    BY <1>t, <1>2, <2>1 DEF Ready
  <2>3. ASSUME NEW c \in Cals \ tainted'
        PROVE  Alone(c)' /\ CacheCurrent(c)' /\ CallCurrent(c, k)'
    <3>1. Current(c) /\ Likely(c)' = Likely(c)
      BY <1>t, RowStays DEF CInv
    <3>2. Alone(c)' /\ CacheCurrent(c)'
      BY <1>t, <2>1, <3>1, AloneStays, CacheStays DEF Current, Running
    <3>3. RowCurrent(c, k)'
      <4> SUFFICES ASSUME (k \in Writers(c))' PROVE r \in Likely(c)
        BY <2>1, <3>1 DEF RowCurrent
      <4>1. k \in Writers(c) /\ At(k) = c
        BY <1>t, <2>1 DEF Writers, Running, At
      <4>2. r \in RowsOf(call[k].got, c) /\ RowsOf(call[k].got, c) \subseteq Likely(c)
        BY <1>t, <1>2, <3>1, <4>1 DEF Current, CallCurrent, FoundCurrent, RowsOf
      <4> QED BY <4>2
    <3>4. FetchCurrent(c, k)' /\ FoundCurrent(c, k)' /\ BackCurrent(c, k)'
      BY <2>1 DEF FetchCurrent, Fetching, FoundCurrent, BackCurrent
    <3> QED BY <3>2, <3>3, <3>4 DEF CallCurrent
  <2> QED BY <1>t, <1>l, <2>1, <2>2, <2>3, StepKeeps
<1>3. ASSUME call[k].todo # <<>>, call' = [call EXCEPT ![k].pc = "byid"]
      PROVE  CInv'
  <2>1. /\ call'[k].pc = "byid" /\ call'[k].req = call[k].req
        /\ \A b \in Calls \ {k} : call'[b] = call[b]
    BY <1>t, <1>3 DEF CallState
  <2>2. Ready(k)'
    BY <1>t, <1>3, <2>1 DEF Ready
  <2>3. ASSUME NEW c \in Cals \ tainted'
        PROVE  Alone(c)' /\ CacheCurrent(c)' /\ CallCurrent(c, k)'
    <3>1. Alone(c)' /\ CacheCurrent(c)'
      BY <1>t, <2>1, AloneStays, CacheStays DEF CInv, Current, Running
    <3>2. CallCurrent(c, k)'
      BY <2>1 DEF CallCurrent, FetchCurrent, Fetching, FoundCurrent, RowCurrent,
                  BackCurrent
    <3> QED BY <3>1, <3>2
  <2> QED BY <1>t, <1>l, <2>1, <2>2, <2>3, StepKeeps
<1> QED BY <1>1, <1>2, <1>3 DEF Resolve

\* A calendar that is in no list that was found is read by its id.
LEMMA ReadByIDCurrent ==
    ASSUME TypeOK, IInv, CInv, NEW k \in Calls, ReadByID(k)
    PROVE  CInv'
<1> DEFINE row == IF google[At(k)].inList THEN Row(At(k)) ELSE Bare(Row(At(k)))
<1>t. /\ call[k] \in CallState /\ call \in [Calls -> CallState] /\ call[k].pc = "byid"
      /\ google' = google /\ cache' = cache /\ tainted' = tainted
  BY Parts DEF ReadByID
<1>1. /\ call'[k].pc = "do" /\ call'[k].row = row /\ call'[k].req = call[k].req
      /\ call'[k].todo = call[k].todo
      /\ \A b \in Calls \ {k} : call'[b] = call[b]
  <2> HIDE DEF row
  <2>1. call' = [call EXCEPT ![k].pc = "do", ![k].row = row]
    BY DEF ReadByID, row
  <2> QED BY <1>t, <2>1 DEF CallState
<1>2. Ready(k)'
  BY <1>t, <1>1 DEF Ready, CInv
<1>3. ListedIsLive'
  BY <1>t DEF CInv, ListedIsLive
<1>4. ASSUME NEW c \in Cals \ tainted'
      PROVE  Alone(c)' /\ CacheCurrent(c)' /\ CallCurrent(c, k)'
  <2>1. Likely(c)' = Likely(c) /\ (c \in Listed)' = (c \in Listed)
    BY <1>t, RowStays
  <2>2. Alone(c)' /\ CacheCurrent(c)'
    BY <1>t, <1>1, AloneStays, CacheStays DEF CInv, Current, Running
  <2>3. RowCurrent(c, k)'
    <3> SUFFICES ASSUME (k \in Writers(c))', c \in Listed PROVE row \in Likely(c)
      BY <1>1, <2>1 DEF RowCurrent
    <3>1. c = At(k)
      BY <1>1 DEF Writers, At
    <3> QED BY <3>1 DEF Listed, Likely, RowNow
  <2>4. FetchCurrent(c, k)' /\ FoundCurrent(c, k)' /\ BackCurrent(c, k)'
    BY <1>1 DEF FetchCurrent, Fetching, FoundCurrent, BackCurrent
  <2> QED BY <2>2, <2>3, <2>4 DEF CallCurrent
<1> QED BY <1>t, <1>1, <1>2, <1>3, <1>4, StepKeeps

\* A call plans its next request, skips one, or gives up.
LEMMA PlanCurrent ==
    ASSUME TypeOK, IInv, CInv, NEW k \in Calls,
           Subscribe(k) \/ ReadVersion(k) \/ NothingToSend(k) \/ GivesUp(k)
    PROVE  CInv'
<1>t. call[k] \in CallState /\ call \in [Calls -> CallState]
  BY Parts
<1>a. ASSUME call[k].pc = "do", call' = [call EXCEPT ![k] = After(k)],
             UNCHANGED <<google, cache, tainted, edits>>
      PROVE  Plain(k)
  <2>1. call'[k].pc \in {"do", "done"} /\ call'[k].req = call[k].req
        /\ call'[k].row = call[k].row /\ call'[k].todo = Tail(call[k].todo)
        /\ \A b \in Calls \ {k} : call'[b] = call[b]
    BY <1>a, <1>t, AfterType
  <2>2. Onward(k)
    BY <2>1 DEF Onward
  <2> QED BY <1>a, <2>1, <2>2 DEF Plain, Running
<1>1. CASE Subscribe(k)
  <2>1. CASE At(k) \in CalsOf(cache.rows)
    BY <1>1, <1>a, <2>1, Parts, PlainCurrent DEF Subscribe
  <2>2. CASE At(k) \notin CalsOf(cache.rows)
    <3>1. call' = [call EXCEPT ![k] =
                    [call[k] EXCEPT !.pc = "send", !.sends = 0, !.unsure = FALSE]]
      BY <1>1, <2>2, Parts DEF Subscribe
    <3>2. call'[k].pc = "send" /\ call'[k].req = call[k].req
          /\ call'[k].row = call[k].row /\ call'[k].todo = call[k].todo
          /\ \A b \in Calls \ {k} : call'[b] = call[b]
      BY <1>t, <3>1 DEF CallState
    <3>3. Onward(k)
      BY <3>2 DEF Onward
    <3> QED BY <1>1, <3>2, <3>3, PlainCurrent DEF Subscribe, Plain, Running
  <2> QED BY <2>1, <2>2
<1>2. CASE ReadVersion(k)
  <2> DEFINE base == VersionRead(k)
             changed == call[k].changed \union Listing(k)
  <2>1. call' = [call EXCEPT ![k].pc = "send", ![k].sends = 0, ![k].unsure = FALSE,
                             ![k].base = base, ![k].changed = changed]
    BY <1>2, <1>t, Parts DEF ReadVersion, CallState
  <2> HIDE DEF base, changed
  <2>2. call'[k].pc = "send" /\ call'[k].req = call[k].req
        /\ call'[k].row = call[k].row /\ call'[k].todo = call[k].todo
        /\ \A b \in Calls \ {k} : call'[b] = call[b]
    BY <1>t, <2>1 DEF CallState
  <2>3. Onward(k)
    BY <2>2 DEF Onward
  <2> QED BY <1>2, <2>2, <2>3, PlainCurrent DEF ReadVersion, Plain, Running
<1>3. CASE NothingToSend(k)
  BY <1>3, <1>a, PlainCurrent DEF NothingToSend
<1>4. CASE GivesUp(k)
  BY <1>4, FinishPlain, PlainCurrent DEF GivesUp, Running
<1> QED BY <1>1, <1>2, <1>3, <1>4
\* What Google does is done to one calendar, which stays listed only if it
\* is there; the row that is reported is its row.
LEMMA EffectHere ==
    ASSUME TypeOK, ListedIsLive, NEW k \in Calls, Able(k), Step(k) \in Steps,
           google' = Effect(k), NEW c \in Cals, c = At(k)
    PROVE  /\ \A x \in Cals \ {c} : google'[x] = google[x]
           /\ ListedIsLive'
           /\ Step(k) = "clear" => google' = google
           /\ Step(k) \in {"unsubscribe", "delete"} => (c \notin Listed)'
           /\ Step(k) \in {"create", "subscribe", "recolor"} => (c \in Listed)'
           /\ Step(k) = "rename" =>
                /\ google'[c].look = google[c].look
                /\ (c \in Listed)' = (c \in Listed)
                /\ google[c].inList => c \in Listed
<1> DEFINE e == google[c]
<1>t. /\ google \in [Cals -> Entry] /\ c \in Cals /\ e \in Entry
      /\ e.name \in Nat /\ e.look \in Nat /\ e.live \in BOOLEAN /\ e.inList \in BOOLEAN
      /\ e.inList => e.live
  BY Parts DEF Entry, ListedIsLive
<1>o. ASSUME NEW f, google' = [google EXCEPT ![c] = f], f.inList => f.live
      PROVE  /\ \A x \in Cals \ {c} : google'[x] = google[x]
             /\ ListedIsLive' /\ google'[c] = f
             /\ (c \in Listed)' = (f.live /\ f.inList)
  <2>1. google'[c] = f /\ \A x \in Cals \ {c} : google'[x] = google[x]
    BY <1>t, <1>o
  <2> QED BY <1>t, <1>o, <2>1 DEF ListedIsLive, Listed
<1> HIDE DEF e
<1>1. CASE Step(k) = "clear"
  <2>1. google' = google
    BY <1>1 DEF Effect
  <2> QED BY <1>1, <2>1 DEF ListedIsLive
<1>2. CASE Step(k) = "create"
  <2> DEFINE f == [live |-> TRUE, inList |-> TRUE, name |-> e.name + 1, look |-> e.look + 1]
  <2>1. google' = [google EXCEPT ![c] = f]
    BY <1>t, <1>2 DEF Effect, e
  <2> QED BY <1>2, <1>o, <2>1
<1>3. CASE Step(k) = "subscribe"
  <2> DEFINE i == [e EXCEPT !.inList = TRUE]
             f == [i EXCEPT !.look = e.look + 1]
  <2>1. google' = [google EXCEPT ![c] = f]
    BY <1>t, <1>3 DEF Effect, Entry, e
  <2>2. f.live = e.live /\ e.live
    BY <1>t, <1>3 DEF Able, Entry, e
  <2>3. f.inList
    BY <1>t DEF Entry
  <2> HIDE DEF f
  <2> QED BY <1>3, <1>o, <2>1, <2>2, <2>3
<1>4. CASE Step(k) = "rename"
  <2> DEFINE f == [e EXCEPT !.name = e.name + 1]
  <2>1. google' = [google EXCEPT ![c] = f]
    BY <1>t, <1>4 DEF Effect, e
  <2>2. f.look = e.look /\ f.live = e.live /\ f.inList = e.inList
    BY <1>t DEF Entry
  <2> HIDE DEF f
  <2>3. c \in Listed <=> e.inList
    BY <1>t DEF Listed, e
  <2>4. google'[c] = f /\ ListedIsLive' /\ ((c \in Listed)' = (f.live /\ f.inList))
        /\ \A x \in Cals \ {c} : google'[x] = google[x]
    BY <1>t, <1>o, <2>1, <2>2
  <2>5. (c \in Listed)' = (c \in Listed)
    BY <1>t, <2>2, <2>3, <2>4
  <2>6. google'[c].look = google[c].look
    BY <2>2, <2>4 DEF e
  <2>7. google[c].inList => c \in Listed
    BY <2>3 DEF e
  <2> QED BY <1>4, <2>4, <2>5, <2>6, <2>7
<1>5. CASE Step(k) = "recolor"
  <2> DEFINE f == [e EXCEPT !.look = e.look + 1]
  <2>1. google' = [google EXCEPT ![c] = f]
    BY <1>t, <1>5 DEF Effect, e
  <2>2. f.live = e.live /\ f.inList = e.inList
    BY <1>t DEF Entry
  <2>3. e.inList
    BY <1>5 DEF Able, There, OnEntry, e
  <2> HIDE DEF f
  <2> QED BY <1>t, <1>5, <1>o, <2>1, <2>2, <2>3
<1>6. CASE Step(k) = "unsubscribe"
  <2> DEFINE f == [e EXCEPT !.inList = FALSE]
  <2>1. google' = [google EXCEPT ![c] = f]
    BY <1>t, <1>6 DEF Effect, e
  <2>2. ~f.inList
    BY <1>t DEF Entry
  <2> HIDE DEF f
  <2> QED BY <1>6, <1>o, <2>1, <2>2
<1>7. CASE Step(k) = "delete"
  <2> DEFINE i == [e EXCEPT !.live = FALSE]
             f == [i EXCEPT !.inList = FALSE]
  <2>1. google' = [google EXCEPT ![c] = f]
    BY <1>t, <1>7 DEF Effect, Entry, e
  <2>2. ~f.inList
    BY <1>t DEF Entry
  <2> HIDE DEF f
  <2> QED BY <1>7, <1>o, <2>1, <2>2
<1> QED BY <1>1, <1>2, <1>3, <1>4, <1>5, <1>6, <1>7 DEF Steps

\* What is written to a calendar is written by a call that is a writer of
\* it: nobody else is there.
LEMMA WriterHere ==
    ASSUME CInv, NEW k \in Calls, call[k].pc \in {"send", "back"}
    PROVE  \A c \in Cals : k \in Writers(c) <=> c = At(k)
BY DEF Writers, Running, CInv, Ready

\* create_calendar is of a calendar Google has yet to mint.
LEMMA CreatesFresh ==
    ASSUME TypeOK, IInv, CInv, NEW k \in Calls, call[k].pc = "send", Step(k) = "create"
    PROVE  At(k) \in Fresh
<1>1. Step(k) \in Range(call[k].todo) /\ call[k].req \in Requests
  BY Parts, StepType DEF CallState
<1>2. Creates(k)
  BY <1>1 DEF Creates, CInv, Ready
<1> QED BY <1>1, <1>2, CalendarAssumption DEF Allowed, Creates, At

\* A request lands.
LEMMA LandsCurrent ==
    ASSUME TypeOK, IInv, CInv, NEW k \in Calls, Lands(k)
    PROVE  CInv'
<1> DEFINE row == Reported(k, call[k].row)
<1>t. /\ call[k] \in CallState /\ call \in [Calls -> CallState] /\ call[k].pc = "send"
      /\ Able(k) /\ google' = Effect(k) /\ cache' = cache /\ Step(k) \in Steps
      /\ tainted' = tainted \union
            (IF Step(k) = "rename" /\ ~google[At(k)].inList THEN {At(k)} ELSE {})
  BY Parts, StepType DEF Lands
<1>1. /\ call'[k].pc = "back" /\ call'[k].row = row /\ call'[k].req = call[k].req
      /\ call'[k].todo = call[k].todo
      /\ \A b \in Calls \ {k} : call'[b] = call[b]
  <2> DEFINE did == Carried(k)
             last == Reported(k, call[k].last)
  <2>1. call' = [call EXCEPT ![k].pc = "back", ![k].did = did, ![k].row = row,
                             ![k].last = last]
    BY DEF Lands
  <2> HIDE DEF row, did, last
  <2> QED BY <1>t, <2>1 DEF CallState
<1>2. Step(k)' = Step(k) /\ At(k)' = At(k)
  BY <1>1 DEF Step, At
<1>3. /\ \A c \in Cals \ {At(k)} : google'[c] = google[c]
      /\ ListedIsLive'
      /\ Step(k) = "clear" => google' = google
      /\ Step(k) \in {"unsubscribe", "delete"} => (At(k) \notin Listed)'
      /\ Step(k) \in {"create", "subscribe", "recolor"} => (At(k) \in Listed)'
      /\ Step(k) = "rename" =>
                /\ google'[At(k)].look = google[At(k)].look
                /\ (At(k) \in Listed)' = (At(k) \in Listed)
                /\ google[At(k)].inList => At(k) \in Listed
  <2>1. At(k) \in Cals
    BY AskedFor
  <2> DEFINE a == At(k)
  <2>2. a = At(k) /\ a \in Cals
    BY <2>1
  <2> QED BY <1>t, <1>2, <2>1, EffectHere DEF CInv
<1>r. /\ row.cal = At(k)
      /\ Step(k) \notin {"rename", "create"} => row = Row(At(k))'
      /\ Step(k) = "create" => row = Bare(Row(At(k))')
      /\ Step(k) = "rename" /\ call[k].row.look = google'[At(k)].look => row = Row(At(k))'
      /\ Step(k) = "rename" /\ call[k].row.look = 0 => row = Bare(Row(At(k))')
  <2> DEFINE known == RowIn(Effect(k), At(k))
  <2>1. /\ known = [cal |-> At(k), name |-> google'[At(k)].name, look |-> google'[At(k)].look]
        /\ Row(At(k))' = known
    BY <1>t, <1>2 DEF RowIn, Row
  <2>2. row = IF Step(k) = "rename" THEN [known EXCEPT !.look = call[k].row.look]
              ELSE IF Step(k) = "create" THEN Bare(known) ELSE known
    BY DEF Reported
  <2> HIDE DEF row
  <2> QED BY <2>1, <2>2 DEF Bare
<1> HIDE DEF row
<1>4. Ready(k)'
  BY <1>t, <1>1, <1>2, <1>r DEF Ready, CInv
<1>5. ASSUME NEW c \in Cals \ tainted'
      PROVE  Alone(c)' /\ CacheCurrent(c)' /\ CallCurrent(c, k)'
  <2>1. Current(c)
    BY <1>t DEF CInv
  <2>2. Alone(c)'
    BY <1>t, <1>1, <2>1, AloneStays DEF Current, Running
  <2>3. CASE c # At(k)
    <3>1. google'[c] = google[c] /\ ~(k \in Writers(c))' /\ ~(k \in Fetching)'
      BY <1>1, <1>2, <1>3, <2>3 DEF Writers, Fetching
    <3>2. ToCorrect(c)' = ToCorrect(c)
      BY <1>1, <1>2, <2>3 DEF ToCorrect, Step, At
    <3>3. CacheCurrent(c)'
      BY <1>t, <2>1, <3>1, <3>2, RowStays DEF Current, CacheCurrent, Kept, RowsOf
    <3> QED BY <2>2, <3>1, <3>3, NotHere
  <2>4. CASE c = At(k)
    <3>1. CacheCurrent(c)'
      <4>1. CASE Step(k) = "clear"
        <5>1. ToCorrect(c)' = ToCorrect(c)
          BY <1>t, <1>1, <1>2, <4>1 DEF ToCorrect, Step, At
        <5> QED BY <1>t, <1>3, <2>1, <4>1, <5>1, RowStays
               DEF Current, CacheCurrent, Kept, RowsOf
      <4>2. CASE Step(k) # "clear"
        <5>1. k \in ToCorrect(c)'
          BY <1>1, <1>2, <2>4, <4>2 DEF ToCorrect
        <5> QED BY <5>1 DEF CacheCurrent
      <4> QED BY <4>1, <4>2
    <3>2. FetchCurrent(c, k)' /\ FoundCurrent(c, k)'
      BY <1>1 DEF FetchCurrent, Fetching, FoundCurrent
    <3>3. Step(k) = "rename" => google[c].inList
      BY <1>t, <2>4
    <3>4. BackCurrent(c, k)'
      BY <1>2, <1>3, <1>t, <2>4, <3>3 DEF BackCurrent, Steps
    <3>5. RowCurrent(c, k)'
      <4> SUFFICES ASSUME (c \in Listed)', Step(k) # "create" \/ c \in Fresh
                   PROVE  row \in Likely(c)'
        <5>1. Step(k) = "create" => c \in Fresh
          BY <1>t, <2>4, CreatesFresh
        <5> QED BY <1>1, <5>1 DEF RowCurrent
      <4>0. /\ (c \in Listed)' => Row(c)' \in Likely(c)'
            /\ (c \in Listed)' /\ c \in Fresh => Bare(Row(c)') \in Likely(c)'
        BY DEF Likely, RowNow, BareNow, Bare
      <4>r. Row(At(k))' = Row(c)'
        BY <1>2, <2>4
      <4>1. CASE Step(k) # "rename"
        BY <1>r, <2>4, <4>0, <4>1, <4>r
      <4>2. CASE Step(k) = "rename"
        <5>1. k \in Writers(c) /\ c \in Listed
          BY <1>t, <1>3, <2>4, <3>3, <4>2, WriterHere
        <5>2. call[k].row \in Likely(c)
          BY <1>t, <2>1, <4>2, <5>1 DEF Current, CallCurrent, RowCurrent
        <5>3. call[k].row.look = google[c].look \/ (c \in Fresh /\ call[k].row.look = 0)
          BY <5>2 DEF Likely, RowNow, BareNow, Row, RowIn, Bare
        <5> QED BY <1>r, <1>3, <2>4, <4>0, <4>2, <4>r, <5>3
      <4> QED BY <4>1, <4>2
    <3> QED BY <2>2, <3>1, <3>2, <3>4, <3>5 DEF CallCurrent
  <2> QED BY <2>3, <2>4
<1>6. \A c \in Cals \ tainted' : google'[c] = google[c] \/ k \in Writers(c)
  BY <1>t, <1>3, WriterHere
<1> QED BY <1>t, <1>1, <1>3, <1>4, <1>5, <1>6, StepKeeps

\* No answer: the calendar is tainted, the others are as they were.
LEMMA UnansweredCurrent ==
    ASSUME TypeOK, IInv, CInv, NEW k \in Calls, Unanswered(k)
    PROVE  CInv'
<1> DEFINE next == IF Retryable(k)
                   THEN [call[k] EXCEPT !.sends = @ + 1, !.unsure = TRUE]
                   ELSE [call[k] EXCEPT !.pc = "done",
                            !.outcome = IF Step(k) = "create" THEN "ambiguous"
                                        ELSE "unavailable"]
<1>t. /\ call[k] \in CallState /\ call \in [Calls -> CallState] /\ call[k].pc = "send"
      /\ cache' = cache /\ tainted' = tainted \union {At(k)} /\ Step(k) \in Steps
      /\ \/ call' = [call EXCEPT ![k] = next] /\ google' = google
         \/ /\ Able(k) /\ google' = Effect(k)
            /\ call' = [call EXCEPT ![k] = [next EXCEPT !.did = Carried(k)]]
  BY Parts, StepType DEF Unanswered
<1>1. /\ next.pc \in {"send", "done"} /\ next.req = call[k].req
      /\ next.todo = call[k].todo
  BY <1>t DEF CallState
<1>2. /\ DOMAIN next = DOMAIN call[k]
  BY <1>t DEF CallState
<1> DEFINE after == [next EXCEPT !.did = Carried(k)]
<1> HIDE DEF next
<1>3. after.pc = next.pc /\ after.req = next.req /\ after.todo = next.todo
  BY <1>2, <1>t DEF CallState
<1>4. /\ call'[k] \in {next, after}
      /\ \A b \in Calls \ {k} : call'[b] = call[b]
  BY <1>t
<1> HIDE DEF after
<1>5. /\ call'[k].pc \in {"send", "done"} /\ call'[k].req = call[k].req
      /\ call'[k].todo = call[k].todo
  BY <1>1, <1>3, <1>4
<1>6. ListedIsLive' /\ \A c \in Cals \ {At(k)} : google'[c] = google[c]
  <2>1. CASE google' = google
    BY <2>1 DEF CInv, ListedIsLive
  <2>2. CASE Able(k) /\ google' = Effect(k)
    BY <1>t, <2>2, AskedFor, EffectHere DEF CInv
  <2> QED BY <1>t, <2>1, <2>2
<1>7. Ready(k)'
  BY <1>t, <1>5 DEF Ready, CInv
<1>8. ASSUME NEW c \in Cals \ tainted'
      PROVE  Alone(c)' /\ CacheCurrent(c)' /\ CallCurrent(c, k)' /\ google'[c] = google[c]
  <2>1. Current(c) /\ c # At(k) /\ google'[c] = google[c]
    BY <1>t, <1>6 DEF CInv
  <2>2. Alone(c)' /\ CacheCurrent(c)'
    BY <1>t, <1>4, <1>5, <2>1, AloneStays, CacheStays DEF Current, Running
  <2>3. ~(k \in Fetching)' /\ ~(k \in Writers(c))'
    BY <1>5, <2>1 DEF Fetching, Writers, At
  <2> QED BY <2>1, <2>2, <2>3, NotHere
<1> QED BY <1>t, <1>4, <1>6, <1>7, <1>8, StepKeeps

\* The answer corrects the kept list: for its own calendar with what is at
\* Google now, for the others not at all.
LEMMA AnsweredCurrent ==
    ASSUME TypeOK, IInv, CInv, NEW k \in Calls, Answered(k)
    PROVE  CInv'
<1>t. /\ call[k] \in CallState /\ call \in [Calls -> CallState] /\ call[k].pc = "back"
      /\ google' = google /\ tainted' = tainted
      /\ cache \in [read: BOOLEAN, rows: SUBSET RowSpace]
      /\ cache' = IF cache.read /\ Step(k) # "clear"
                  THEN [cache EXCEPT !.rows = Corrected(k, @)] ELSE cache
      /\ call[k].row.cal = At(k)
  BY Parts DEF Answered, TypeOK, CInv, Ready
<1>1. /\ call'[k].pc \in {"do", "done"} /\ call'[k].req = call[k].req
      /\ call'[k].row = call[k].row /\ call'[k].todo = Tail(call[k].todo)
      /\ \A b \in Calls \ {k} : call'[b] = call[b]
  <2> DEFINE a == After(k)
             changed == call[k].changed \union {Step(k)}
             j == [a EXCEPT !.changed = changed]
  <2>1. call' = [call EXCEPT ![k] = [a EXCEPT !.changed = @ \union {Step(k)}]]
    BY DEF Answered
  <2>2. /\ a \in CallState /\ a.req = call[k].req /\ a.pc \in {"do", "done"}
        /\ a.changed = call[k].changed /\ a.row = call[k].row
        /\ a.todo = Tail(call[k].todo)
    BY <1>t, AfterType
  <2> HIDE DEF a
  <2>3. call' = [call EXCEPT ![k] = j]
    BY <2>1, <2>2
  <2> HIDE DEF changed
  <2>4. j.req = a.req /\ j.pc = a.pc /\ j.row = a.row /\ j.todo = a.todo
    BY <2>2 DEF CallState
  <2> QED BY <1>t, <2>2, <2>3, <2>4
<1>2. At(k)' = At(k)
  BY <1>1 DEF At
<1>3. Ready(k)'
  BY <1>t, <1>1, StepType DEF Ready, CInv
<1>4. ListedIsLive'
  BY <1>t DEF CInv, ListedIsLive
<1>5. /\ cache'.read = cache.read
      /\ cache.read /\ Step(k) # "clear" => cache'.rows = Corrected(k, cache.rows)
      /\ Step(k) = "clear" => cache'.rows = cache.rows
  BY <1>t
<1>6. ASSUME NEW c \in Cals \ tainted'
      PROVE  Alone(c)' /\ CacheCurrent(c)' /\ CallCurrent(c, k)'
  <2>1. Current(c) /\ RowNow(c)' = RowNow(c) /\ BareNow(c)' = BareNow(c)
        /\ (c \in Listed)' = (c \in Listed) /\ Likely(c)' = Likely(c)
    BY <1>t, RowStays DEF CInv
  <2>2. Alone(c)'
    BY <1>t, <1>1, <2>1, AloneStays DEF Current, Running
  <2>3. CASE c # At(k)
    <3>1. ~(k \in Writers(c))' /\ ~(k \in Fetching)' /\ ToCorrect(c)' = ToCorrect(c)
      BY <1>1, <1>2, <2>3 DEF Writers, Fetching, ToCorrect, Step, At
    <3>2. RowsOf(Corrected(k, cache.rows), c) = RowsOf(cache.rows, c)
      BY <1>t, <2>3 DEF RowsOf, Corrected, Without, Returned
    <3>3. CacheCurrent(c)'
      BY <1>5, <2>1, <3>1, <3>2 DEF Current, CacheCurrent, Kept, RowsOf
    <3> QED BY <2>2, <3>1, <3>3, NotHere
  <2>4. CASE c = At(k)
    <3>1. k \in Writers(c)
      BY <1>t, <2>4, WriterHere
    <3>2. CacheCurrent(c)'
      <4>1. CASE Step(k) = "clear"
        <5>1. ToCorrect(c)' = ToCorrect(c)
          BY <1>t, <1>1, <4>1 DEF ToCorrect, Step, At
        <5> QED BY <1>5, <2>1, <4>1, <5>1 DEF Current, CacheCurrent, Kept, RowsOf
      <4>2. CASE Step(k) \in {"unsubscribe", "delete"}
        <5>1. c \notin Listed
          BY <1>t, <2>1, <3>1, <4>2 DEF Current, CallCurrent, BackCurrent
        <5>2. RowsOf(Corrected(k, cache.rows), c) = {}
          BY <2>4, <4>2 DEF RowsOf, Corrected, Without, Returned
        <5> QED BY <1>5, <2>1, <4>2, <5>1, <5>2 DEF CacheCurrent, Kept, RowsOf, RowNow
      <4>3. CASE Step(k) \notin {"unsubscribe", "delete", "clear"}
        <5>1. c \in Listed /\ call[k].row \in Likely(c)
          BY <1>t, <2>1, <3>1, <4>3 DEF Current, CallCurrent, BackCurrent, RowCurrent
        <5>2. call[k].row.cal = c /\ call[k].row \in {Row(c)} \union BareNow(c)
          BY <5>1 DEF Likely, RowNow, BareNow, Bare, Row, RowIn
        <5>3. RowsOf(Corrected(k, cache.rows), c) = {call[k].row}
          BY <1>t, <2>4, <4>3, <5>2 DEF RowsOf, Corrected, Without, Returned
        <5>4. Kept(Corrected(k, cache.rows), c)
          BY <5>1, <5>2, <5>3 DEF Kept, RowNow, BareNow
        <5> QED BY <1>5, <2>1, <4>3, <5>4 DEF CacheCurrent, Kept, RowsOf
      <4> QED BY <4>1, <4>2, <4>3
    <3>3. RowCurrent(c, k)'
      BY <1>t, <1>1, <2>1, <3>1 DEF Current, CallCurrent, RowCurrent
    <3>4. FetchCurrent(c, k)' /\ FoundCurrent(c, k)' /\ BackCurrent(c, k)'
      BY <1>1 DEF FetchCurrent, Fetching, FoundCurrent, BackCurrent
    <3> QED BY <2>2, <3>2, <3>3, <3>4 DEF CallCurrent
  <2> QED BY <2>3, <2>4
<1> QED BY <1>t, <1>1, <1>3, <1>4, <1>6, StepKeeps

\* A change from outside taints the one calendar it is made to.
LEMMA EditCurrent ==
    ASSUME TypeOK, IInv, CInv, NEW c \in Cals, Edit(c)
    PROVE  CInv'
<1>t. /\ google \in [Cals -> Entry] /\ google[c] \in Entry /\ google[c].live
      /\ call' = call /\ cache' = cache /\ tainted' = tainted \union {c}
  BY Parts DEF Edit
<1>1. PICK f \in Edited(c) : google' = [google EXCEPT ![c] = f]
  BY DEF Edit
<1>2. \A x \in Cals \ {c} : google'[x] = google[x]
  BY <1>t, <1>1
<1>3. f.inList => f.live
  BY <1>t DEF Edited, Entry
<1>4. ListedIsLive'
  BY <1>t, <1>1, <1>3 DEF CInv, ListedIsLive
<1>5. \A k \in Calls : Ready(k)'
  BY <1>t DEF CInv, Ready, At
<1>6. ASSUME NEW x \in Cals \ tainted' PROVE Current(x)'
  <2>1. Current(x) /\ google'[x] = google[x]
    BY <1>t, <1>2 DEF CInv
  <2>2. RowNow(x)' = RowNow(x) /\ BareNow(x)' = BareNow(x)
    BY <2>1, RowStays
  <2>3. Alone(x)'
    BY <1>t, <2>1 DEF Current, Alone, Writers, Fetching, Running, At
  <2>4. CacheCurrent(x)'
    <3>1. ToCorrect(x)' = ToCorrect(x)
      BY <1>t DEF ToCorrect, At, Step
    <3> QED BY <1>t, <2>1, <2>2, <3>1 DEF Current, CacheCurrent, Kept, RowsOf
  <2>5. \A k \in Calls : CallCurrent(x, k)'
    BY <1>t, <2>1, OthersStay DEF Current
  <2> QED BY <2>3, <2>4, <2>5 DEF Current
<1> QED BY <1>4, <1>5, <1>6 DEF CInv

\* The invariant at the start, and at every step.
LEMMA InitCurrent == ASSUME Init PROVE CInv
<1>1. \A k \in Calls : call[k].pc = "idle"
  BY InitInv, Parts DEF Init
<1>2. cache.read = FALSE
  BY DEF Init
<1>3. ListedIsLive
  BY DEF Init, ListedIsLive
<1>4. ASSUME NEW k \in Calls PROVE Ready(k)
  BY <1>1 DEF Ready
<1>5. ASSUME NEW c \in Cals PROVE Current(c)
  <2>1. Writers(c) = {} /\ Fetching = {}
    BY <1>1 DEF Writers, Running, Fetching
  <2>2. \A k \in Calls : CallCurrent(c, k)
    BY <2>1 DEF CallCurrent, FetchCurrent, FoundCurrent, RowCurrent, BackCurrent
  <2> QED BY <1>2, <2>1, <2>2 DEF Current, Alone, CacheCurrent
<1> QED BY <1>3, <1>4, <1>5 DEF CInv

LEMMA NextCurrent == ASSUME TypeOK, IInv, CInv, [Next]_vars PROVE CInv'
<1>1. ASSUME NEW k \in Calls, Begin(k) \/ Works(k) \/ Request(k)
      PROVE  CInv'
  <2>1. CASE Refused(k)
    <3>1. \E o : Finish(k, o)
      BY <2>1 DEF Refused
    <3> QED BY <2>1, <3>1, FinishPlain, PlainCurrent DEF Refused, Running
  <2> QED BY <1>1, <2>1, BeginCurrent, ReadPageCurrent, InstallCurrent, ResolveCurrent,
             ReadByIDCurrent, PlanCurrent, LandsCurrent, UnansweredCurrent,
             AnsweredCurrent DEF Works, Request
<1>2. ASSUME NEW c \in Cals, Edit(c) PROVE CInv'
  BY <1>2, EditCurrent
<1>3. CASE UNCHANGED vars
  <2>1. \A k \in Calls : Ready(k)'
    BY <1>3 DEF vars, CInv, Ready, At
  <2>2. ListedIsLive'
    BY <1>3 DEF vars, CInv, ListedIsLive
  <2>3. ASSUME NEW c \in Cals \ tainted' PROVE Current(c)'
    <3>1. Current(c) /\ google'[c] = google[c] /\ RowNow(c)' = RowNow(c)
          /\ BareNow(c)' = BareNow(c)
      BY <1>3, RowStays DEF vars, CInv
    <3>2. Alone(c)'
      BY <1>3, <3>1 DEF vars, Current, Alone, Writers, Fetching, Running, At
    <3>3. CacheCurrent(c)'
      <4>1. ToCorrect(c)' = ToCorrect(c)
        BY <1>3 DEF vars, ToCorrect, At, Step
      <4> QED BY <1>3, <3>1, <4>1 DEF vars, Current, CacheCurrent, Kept, RowsOf
    <3>4. \A k \in Calls : CallCurrent(c, k)'
      BY <1>3, <3>1, OthersStay DEF vars, Current
    <3> QED BY <3>2, <3>3, <3>4 DEF Current
  <2> QED BY <2>1, <2>2, <2>3 DEF CInv
<1> QED BY <1>1, <1>2, <1>3 DEF Next

\* However many calls there are and whatever each of them does to its own
\* calendars: the kept list says of every calendar with no write under way
\* what calendarList.list would say now, unless one of the reasons to doubt
\* it (a lost answer, an overlap, a change from outside) has occurred.
THEOREM RowsAreCurrent == Spec => []KeptRowsAreCurrent
<1>1. TypeOK /\ IInv /\ CInv /\ [Next]_vars => CInv'
  BY NextCurrent
<1>2. Init => CInv
  BY InitCurrent
<1>3. CInv => KeptRowsAreCurrent
  <2> SUFFICES ASSUME CInv, cache.read, NEW c \in Cals \ tainted, Writers(c) = {}
               PROVE  LET kept == {r \in cache.rows : r.cal = c} IN
                      \/ kept = IF c \in Listed THEN {Row(c)} ELSE {}
                      \/ c \in Fresh \intersect Listed /\ kept = {Bare(Row(c))}
    BY DEF KeptRowsAreCurrent
  <2>1. ToCorrect(c) = {}
    BY DEF CInv, Ready, ToCorrect, Writers, Running
  <2>2. Kept(cache.rows, c)
    BY <2>1 DEF CInv, Current, CacheCurrent
  <2> QED BY <2>2 DEF Kept, RowsOf, RowNow, BareNow
<1> QED BY <1>1, <1>2, <1>3, Soundness, PTL DEF Spec

=============================================================================
