--------------------------- MODULE SharingProofs ---------------------------
(***************************************************************************)
(* Proofs about Sharing, for any calls, people, domains, lists of rules    *)
(* and bounds.                                                             *)
(***************************************************************************)
EXTENDS Sharing, TLAPS

-----------------------------------------------------------------------------
(* The inductive invariant.                                                *)

\* What was read of a scope is the rule that is there, or an older one.
ReadOf(old, s) ==
    old.ver <= rules[s].ver /\ (old.ver = rules[s].ver => old = rules[s])

\* What the judgement of a call's tool lets its message be.
Judged(r, m) ==
    /\ m.saw.role = 0 <=> m.method = "insert"
    /\ r.tool = "share" =>
        m.role <= m.saw.role
            \/ (~IsWide(m.scope) /\ m.scope.value \in Insiders /\ m.role < Owner)
    /\ r.tool = "publish" => IsWide(m.scope) /\ m.role < Owner
    /\ r.tool = "widen" => ~IsWide(m.scope)
    /\ r.tool = "unshare" /\ m.knew => m.scope # Own

ReadsAreOld == \A c \in Calls, s \in Scopes : ReadOf(call[c].before[s], s)

MessagesJudged ==
    \A c \in Calls : \A m \in call[c].aim :
        m.call = c /\ Judged(call[c].req, m) /\ ReadOf(m.saw, m.scope)

OneMessage ==
    \A c \in Calls :
        /\ \A m, n \in call[c].aim : m = n
        /\ call[c].pc \in {"idle", "open", "rules", "judge"} => call[c].aim = {}
        /\ call[c].req.tool = "publish" /\ call[c].pc \in {"rules", "judge"} =>
            PublishRefusal(call[c].req) = "none"

LateAreSent == \A m \in late : m \in call[m.call].aim

LandedAreSent ==
    \A l \in landed :
        /\ l.by \in call[l.by.call].aim
        /\ l.by.method # "insert" =>
            l.was = l.by.saw /\ l.was.ver < rules[l.by.scope].ver

\* An insert is late or landed only when nobody waits for it, and not both.
InsertsOnce ==
    /\ \A m \in late : m.method = "insert" => call[m.call].pc = "done"
    /\ \A l \in landed : l.by.method = "insert" =>
        call[l.by.call].pc = "done" /\ l.by \notin late

IInv ==
    /\ \A s \in Scopes : rules[s].ver >= 1
    /\ ReadsAreOld
    /\ MessagesJudged
    /\ OneMessage
    /\ LateAreSent
    /\ LandedAreSent
    /\ InsertsOnce
    /\ LandsOnce

-----------------------------------------------------------------------------
(* What one step of a call does.                                           *)

Early == {"idle", "open", "rules", "judge"}

\* The typing of a state, with what bounds the attempts.
TypeInv ==
    /\ TypeOK
    /\ \A c \in Calls :
        call[c].pc \notin {"wait", "done"} => call[c].sends <= MaxRetries

\* The judgement lets a call aim a message.
Aimed(c, k) ==
    /\ k.pc = "send"
    /\ \E s \in Scopes, knows \in BOOLEAN :
        LET r == call[c].req
            b == call[c].before
        IN  /\ s \in Audiences(r, b)
            /\ Refusal(r, b, s, knows) = "none"
            /\ call[c].pc = "judge"
            /\ k.aim = {[call |-> c, scope |-> s, method |-> Method(r, b, s),
                         role |-> IF r.tool = "unshare" THEN 0 ELSE r.role,
                         saw |-> b[s], knew |-> knows]}

\* Google carries a call's message out.
Carried(c, k) ==
    /\ k.pc = "done"
    /\ \E m \in call[c].aim : ~Gone(m) /\ Matches(m) /\ Land(m)

\* A call's message goes unanswered.
GivenUp(c, k) ==
    \E m \in call[c].aim :
        late' = late \union {m} /\ (k.pc = "done" \/ m.method # "insert")

\* One step of call c leaves it as k.
Steps(c, k) ==
    /\ k \in CallState
    /\ call' = [call EXCEPT ![c] = k]
    /\ k.req = call[c].req
    /\ k.pc \notin {"wait", "done"} => k.sends <= MaxRetries
    /\ edits' = edits
    /\ call[c].pc # "done"
    /\ k.pc \in Early => call[c].pc \in Early
    /\ k.pc \in {"rules", "judge"} =>
        \/ call[c].pc \in {"rules", "judge"}
        \/ k.req.tool = "publish" => PublishRefusal(k.req) = "none"
    /\ \A s \in Scopes : k.before[s] \in {call[c].before[s], rules[s], Nothing[s]}
    /\ \/ k.aim = call[c].aim /\ UNCHANGED <<rules, late, landed>>
       \/ Aimed(c, k) /\ UNCHANGED <<rules, late, landed>>
       \/ k.aim = call[c].aim /\ Carried(c, k) /\ UNCHANGED late
       \/ k.aim = call[c].aim /\ GivenUp(c, k) /\ UNCHANGED <<rules, landed>>

\* The bounds are numbers.
LEMMA BoundsTyped == Pages \in Nat /\ MaxRetries \in Nat /\ MaxEdits \in Nat
BY SharingAssumption

\* A request's role is a role.
LEMMA RequestTyped == ASSUME NEW r \in Requests PROVE r.role \in Roles
<1>1. r \in Asks BY SharingAssumption
<1> QED BY <1>1 DEF Asks

\* The empty list is a list of rules.
LEMMA NothingType == Nothing \in [Scopes -> Rule]
BY DEF Nothing, Rule, Roles, Owner

\* A call's audience is made of scopes.
LEMMA AudienceType ==
    ASSUME NEW r, NEW b
    PROVE  Audiences(r, b) \subseteq Scopes
<1>1. Public \in Scopes BY DEF Scopes
<1>2. ParsePublic(r) \subseteq Scopes BY <1>1 DEF ParsePublic
<1>3. ParseAudience(r, b) \subseteq Scopes BY <1>1 DEF ParseAudience, KnownAs
<1> QED BY <1>2, <1>3 DEF Audiences

\* Every refusal is an outcome.
LEMMA RefusalType ==
    ASSUME NEW r \in Requests, NEW b, NEW s, NEW knows
    PROVE  Refusal(r, b, s, knows) \in Outcomes /\ PublishRefusal(r) \in Outcomes
<1>1. r.tool \in {"share", "publish", "widen", "unshare"}
    BY SharingAssumption DEF Asks
<1>2. NotifyRefusal(r) \in Outcomes BY DEF NotifyRefusal, Outcomes
<1>3. ConfirmRefusal(r) \in Outcomes BY DEF ConfirmRefusal, Outcomes
<1>4. PublishRefusal(r) \in Outcomes
    BY <1>2, <1>3 DEF PublishRefusal, Outcomes
<1>5. ShareRefusal(r, b, s, knows) \in Outcomes
    BY <1>2 DEF ShareRefusal, Outcomes
<1>6. WidenRefusal(r, s, knows) \in Outcomes
    BY <1>2, <1>3 DEF WidenRefusal, Outcomes
<1>7. UnshareRefusal(b, s, knows) \in Outcomes
    BY DEF UnshareRefusal, Outcomes
<1>8. "none" \in Outcomes BY DEF Outcomes
<1> QED BY <1>1, <1>4, <1>5, <1>6, <1>7, <1>8 DEF Refusal

\* A call that ends.
LEMMA FinishStep ==
    ASSUME TypeInv, NEW c \in Calls, NEW o \in Outcomes, Finish(c, o)
    PROVE  \E k \in CallState :
            /\ call' = [call EXCEPT ![c] = k]
            /\ k.req = call[c].req /\ k.pc = "done" /\ k.aim = call[c].aim
            /\ k.before = Nothing
<1> DEFINE k == [call[c] EXCEPT !.pc = "done", !.outcome = o, !.before = Nothing]
<1>1. call' = [call EXCEPT ![c] = k] BY DEF Finish, TypeInv, TypeOK
<1>2. call[c] \in CallState BY DEF TypeInv, TypeOK
<1>3. k \in CallState BY <1>2, NothingType DEF CallState
<1>4. k.req = call[c].req /\ k.pc = "done" /\ k.aim = call[c].aim
      /\ k.before = Nothing
    BY <1>2 DEF CallState
<1> QED BY <1>1, <1>3, <1>4

\* ... and touches nothing else.
LEMMA FinishSteps ==
    ASSUME TypeInv, NEW c \in Calls, NEW o \in Outcomes, Finish(c, o),
           call[c].pc # "done", UNCHANGED <<rules, late, landed, edits>>
    PROVE  \E k \in CallState : Steps(c, k)
<1>1. PICK k \in CallState :
            /\ call' = [call EXCEPT ![c] = k]
            /\ k.req = call[c].req /\ k.pc = "done" /\ k.aim = call[c].aim
            /\ k.before = Nothing
    BY FinishStep
<1>2. Steps(c, k) BY <1>1 DEF Steps, Early
<1> QED BY <1>2

\* Beginning a call, and opening its calendar.
LEMMA OpenSteps ==
    ASSUME TypeInv, NEW c \in Calls, Start(c) \/ Open(c)
    PROVE  \E k \in CallState : Steps(c, k)
<1>1. call[c] \in CallState /\ call[c].req \in Requests
    BY DEF TypeInv, TypeOK, CallState
<1>2. CASE Start(c)
    <2> DEFINE k == [call[c] EXCEPT !.pc = "open"]
    <2>1. call' = [call EXCEPT ![c] = k] BY <1>2 DEF Start, TypeInv, TypeOK
    <2>2. k \in CallState /\ k.pc = "open" /\ k.req = call[c].req
          /\ k.aim = call[c].aim /\ k.before = call[c].before
          /\ k.sends = call[c].sends
        BY <1>1 DEF CallState
    <2> HIDE DEF k
    <2> QED BY <1>2, <2>1, <2>2 DEF Start, Steps, Early, TypeInv
<1>3. CASE Open(c)
    <2> DEFINE r == call[c].req
               k == [call[c] EXCEPT !.pc = "rules"]
    <2>0. UNCHANGED <<rules, late, landed, edits>> /\ call[c].pc = "open"
        BY <1>3 DEF Open
    <2>1. CASE Finish(c, "stale")
        BY <2>0, <2>1, FinishSteps DEF Outcomes
    <2>2. CASE Finish(c, PublishRefusal(r))
        BY <1>1, <2>0, <2>2, FinishSteps, RefusalType
    <2>3. CASE call' = [call EXCEPT ![c].pc = "rules"]
               /\ (r.tool = "publish" => PublishRefusal(r) = "none")
        <3>1. call' = [call EXCEPT ![c] = k] BY <2>3 DEF TypeInv, TypeOK
        <3>2. k \in CallState /\ k.pc = "rules" /\ k.req = call[c].req
              /\ k.aim = call[c].aim /\ k.before = call[c].before
              /\ k.sends = call[c].sends
            BY <1>1 DEF CallState
        <3> HIDE DEF k
        <3> QED BY <2>0, <2>3, <3>1, <3>2 DEF Steps, Early, TypeInv
    <2> QED BY <1>3, <2>1, <2>2, <2>3 DEF Open
<1> QED BY <1>2, <1>3

\* Reading a page of rules, or failing to.
LEMMA ReadSteps ==
    ASSUME TypeInv, NEW c \in Calls, ReadPage(c) \/ ReadFails(c)
    PROVE  \E k \in CallState : Steps(c, k)
<1>1. call[c] \in CallState BY DEF TypeInv, TypeOK
<1>2. CASE ReadPage(c)
    <2> DEFINE b == [s \in Scopes |->
                        IF PageOf[s] = call[c].page THEN rules[s]
                        ELSE call[c].before[s]]
               pc == IF call[c].page = Pages THEN "judge" ELSE "rules"
               k == [call[c] EXCEPT !.before = b, !.page = call[c].page + 1,
                                    !.pc = pc]
    <2>1. call' = [call EXCEPT ![c] = k] BY <1>2 DEF ReadPage, TypeInv, TypeOK
    <2>2. b \in [Scopes -> Rule] BY <1>1 DEF TypeInv, TypeOK, CallState
    <2>3. call[c].page + 1 \in 1 .. Pages + 1
        <3>1. call[c].page \in 1 .. Pages + 1 BY <1>1 DEF CallState
        <3>2. call[c].page <= Pages BY <1>2 DEF ReadPage
        <3> QED BY <3>1, <3>2, BoundsTyped
    <2>4. \A s \in Scopes : b[s] \in {call[c].before[s], rules[s]} OBVIOUS
    <2> HIDE DEF b
    <2>5. k \in CallState /\ k.pc = pc /\ k.req = call[c].req
          /\ k.aim = call[c].aim /\ k.before = b /\ k.sends = call[c].sends
        BY <1>1, <2>2, <2>3 DEF CallState
    <2>6. pc \in {"rules", "judge"} OBVIOUS
    <2> HIDE DEF k, pc
    <2> QED BY <1>2, <2>1, <2>4, <2>5, <2>6 DEF ReadPage, Steps, Early, TypeInv
<1>3. CASE ReadFails(c)
    BY <1>3, FinishSteps DEF ReadFails, Outcomes
<1> QED BY <1>2, <1>3

\* Judging a share.
LEMMA JudgeSteps ==
    ASSUME TypeInv, NEW c \in Calls, Judge(c)
    PROVE  \E k \in CallState : Steps(c, k)
<1> DEFINE r == call[c].req
           b == call[c].before
<1>1. call[c] \in CallState /\ r \in Requests /\ b \in [Scopes -> Rule]
    BY DEF TypeInv, TypeOK, CallState
<1>2. call[c].pc = "judge" /\ UNCHANGED <<rules, late, landed, edits>>
    BY DEF Judge
<1>3. CASE Finish(c, "invalid")
    BY <1>2, <1>3, FinishSteps DEF Outcomes
<1>4. ASSUME NEW s \in Audiences(r, b), NEW knows \in BOOLEAN,
             \/ Finish(c, Refusal(r, b, s, knows))
             \/ Finish(c, "unchanged") \/ Finish(c, "dry_run")
      PROVE  \E k \in CallState : Steps(c, k)
    BY <1>1, <1>2, <1>4, FinishSteps, RefusalType DEF Outcomes
<1>5. ASSUME NEW s \in Audiences(r, b), NEW knows \in BOOLEAN,
             Refusal(r, b, s, knows) = "none",
             call' = [call EXCEPT
                ![c].pc = "send", ![c].before = Nothing,
                ![c].aim = {[call |-> c, scope |-> s, method |-> Method(r, b, s),
                             role |-> IF r.tool = "unshare" THEN 0 ELSE r.role,
                             saw |-> b[s], knew |-> knows]}]
      PROVE  \E k \in CallState : Steps(c, k)
    <2> DEFINE role == IF r.tool = "unshare" THEN 0 ELSE r.role
               m == [call |-> c, scope |-> s, method |-> Method(r, b, s),
                     role |-> role, saw |-> b[s], knew |-> knows]
               k == [call[c] EXCEPT !.pc = "send", !.before = Nothing,
                                    !.aim = {m}]
    <2>1. s \in Scopes BY AudienceType
    <2>2. role \in Roles BY <1>1, RequestTyped DEF Roles, Owner
    <2>3. Method(r, b, s) \in Methods BY DEF Method, Methods
    <2>4. b[s] \in Rule BY <1>1, <2>1
    <2> HIDE DEF role
    <2>5. m \in Message BY <2>1, <2>2, <2>3, <2>4 DEF Message
    <2>6. call' = [call EXCEPT ![c] = k]
        BY <1>5 DEF TypeInv, TypeOK, role
    <2> HIDE DEF m
    <2>7. k \in CallState /\ k.pc = "send" /\ k.req = call[c].req
          /\ k.aim = {m} /\ k.before = Nothing /\ k.sends = call[c].sends
        BY <1>1, <2>5, NothingType DEF CallState
    <2> HIDE DEF k
    <2>8. Aimed(c, k) BY <1>2, <1>5, <2>1, <2>7 DEF Aimed, m, role
    <2>9. call[c].sends <= MaxRetries BY <1>2 DEF TypeInv
    <2>10. \A x \in Scopes : k.before[x] = Nothing[x] BY <2>7
    <2> QED BY <1>2, <2>6, <2>7, <2>8, <2>9, <2>10 DEF Steps, Early
<1> QED BY <1>3, <1>4, <1>5 DEF Judge

\* Sending a message, and sending it again.
LEMMA SendSteps ==
    ASSUME TypeInv, NEW c \in Calls, Send(c)
    PROVE  \E k \in CallState : Steps(c, k)
<1> DEFINE k == [call[c] EXCEPT !.pc = "wait", !.sends = call[c].sends + 1]
<1>1. call[c] \in CallState /\ call[c].pc = "send" /\ call[c].sends <= MaxRetries
    BY DEF TypeInv, TypeOK, Send
<1>2. call[c].sends + 1 \in 0 .. MaxRetries + 1
    BY <1>1, SharingAssumption DEF CallState
<1>3. call' = [call EXCEPT ![c] = k] BY DEF Send, TypeInv, TypeOK
<1>4. k \in CallState /\ k.pc = "wait" /\ k.req = call[c].req
      /\ k.aim = call[c].aim /\ k.before = call[c].before
    BY <1>1, <1>2 DEF CallState
<1> HIDE DEF k
<1> QED BY <1>1, <1>3, <1>4 DEF Send, Steps, Early

\* The answers to a message.
LEMMA AnswerSteps ==
    ASSUME TypeInv, NEW c \in Calls, Answer(c)
    PROVE  \E k \in CallState : Steps(c, k)
<1>1. PICK m \in call[c].aim :
        \/ Accepted(c, m) \/ PreconditionFailed(c, m) \/ NotThere(c, m)
        \/ Refused(c) \/ RateLimited(c, m) \/ Unanswered(c, m)
    BY DEF Answer
<1>2. call[c] \in CallState /\ call[c].pc = "wait"
    BY DEF Answer, TypeInv, TypeOK
<1>3. CASE Accepted(c, m)
    <2>1. PICK k \in CallState :
            /\ call' = [call EXCEPT ![c] = k]
            /\ k.req = call[c].req /\ k.pc = "done" /\ k.aim = call[c].aim
            /\ k.before = Nothing
        BY <1>3, FinishStep DEF Accepted, Outcomes
    <2>2. Carried(c, k) BY <1>3, <2>1 DEF Accepted, Carried
    <2> QED BY <1>2, <1>3, <2>1, <2>2 DEF Accepted, Steps, Early
<1>4. CASE PreconditionFailed(c, m) \/ NotThere(c, m) \/ Refused(c)
    BY <1>2, <1>4, FinishSteps DEF PreconditionFailed, NotThere, Refused, Outcomes
<1>5. CASE RateLimited(c, m)
    <2>1. CASE MayRetry(c, m)
        <3> DEFINE k == [call[c] EXCEPT !.pc = "send"]
        <3>1. call' = [call EXCEPT ![c] = k]
            BY <1>5, <2>1 DEF RateLimited, TypeInv, TypeOK
        <3>2. k \in CallState /\ k.pc = "send" /\ k.req = call[c].req
              /\ k.aim = call[c].aim /\ k.before = call[c].before
              /\ k.sends = call[c].sends
            BY <1>2 DEF CallState
        <3> HIDE DEF k
        <3> QED BY <1>2, <1>5, <2>1, <3>1, <3>2
                DEF RateLimited, Steps, Early, MayRetry
    <2>2. CASE ~MayRetry(c, m)
        BY <1>2, <1>5, <2>2, FinishSteps DEF RateLimited, Outcomes
    <2> QED BY <2>1, <2>2
<1>6. CASE Unanswered(c, m)
    <2>0. \/ late' = late \/ late' = late \union {m} BY <1>6 DEF Unanswered
    <2>1. CASE MayRetry(c, m)
        <3> DEFINE k == [call[c] EXCEPT !.pc = "send", !.unsure = TRUE]
        <3>1. call' = [call EXCEPT ![c] = k]
            BY <1>6, <2>1 DEF Unanswered, TypeInv, TypeOK
        <3>2. k \in CallState /\ k.pc = "send" /\ k.req = call[c].req
              /\ k.aim = call[c].aim /\ k.before = call[c].before
              /\ k.sends = call[c].sends
            BY <1>2 DEF CallState
        <3>3. m.method # "insert" /\ call[c].sends <= MaxRetries
            BY <2>1 DEF MayRetry, Idempotent
        <3> HIDE DEF k
        <3>4. late' = late \/ GivenUp(c, k) BY <2>0, <3>3 DEF GivenUp
        <3> QED BY <1>2, <1>6, <3>1, <3>2, <3>3, <3>4
                DEF Unanswered, Steps, Early
    <2>2. CASE ~MayRetry(c, m)
        <3>1. PICK k \in CallState :
                /\ call' = [call EXCEPT ![c] = k]
                /\ k.req = call[c].req /\ k.pc = "done" /\ k.aim = call[c].aim
                /\ k.before = Nothing
            BY <1>6, <2>2, FinishStep DEF Unanswered, Outcomes
        <3>2. late' = late \/ GivenUp(c, k) BY <2>0, <3>1 DEF GivenUp
        <3> QED BY <1>2, <1>6, <3>1, <3>2 DEF Unanswered, Steps, Early
    <2> QED BY <2>1, <2>2
<1> QED BY <1>1, <1>3, <1>4, <1>5, <1>6

\* Every step of a call is one of these.
LEMMA StepSteps ==
    ASSUME TypeInv, NEW c \in Calls, Step(c)
    PROVE  \E k \in CallState : Steps(c, k)
BY OpenSteps, ReadSteps, JudgeSteps, SendSteps, AnswerSteps DEF Step

-----------------------------------------------------------------------------
(* Type correctness.                                                       *)

\* The initial state has its types.
LEMMA TypeInit == Init => TypeInv
<1> SUFFICES ASSUME Init PROVE TypeInv OBVIOUS
<1>1. PICK l \in Listed : rules = [s \in Scopes |-> [role |-> l[s], ver |-> 1]]
    BY DEF Init
<1>2. l \in [Scopes -> Roles] BY SharingAssumption
<1>3. rules \in [Scopes -> Rule] BY <1>1, <1>2 DEF Rule
<1>4. \A c \in Calls : call[c] \in CallState /\ call[c].sends = 0
    <2> TAKE c \in Calls
    <2>1. call[c] \in [pc: {"idle"}, req: Requests, page: {1}, before: {Nothing},
                       aim: {{}}, sends: {0}, unsure: {FALSE}, outcome: {"none"}]
        BY DEF Init
    <2>2. 0 \in 0 .. MaxRetries + 1 /\ 1 \in 1 .. Pages + 1 BY BoundsTyped
    <2> QED BY <2>1, <2>2, NothingType DEF CallState, Outcomes
<1>5. call \in [Calls -> CallState] BY <1>4 DEF Init
<1> QED BY <1>3, <1>4, <1>5, BoundsTyped DEF Init, TypeInv, TypeOK

\* A message carried out leaves a list of rules and a history.
LEMMA LandType ==
    ASSUME TypeInv, NEW m \in Message, Land(m)
    PROVE  rules' \in [Scopes -> Rule] /\ landed' \subseteq Landing
<1>1. m.scope \in Scopes /\ m.role \in Roles BY DEF Message
<1>2. rules[m.scope] \in Rule BY <1>1 DEF TypeInv, TypeOK
<1>3. [role |-> m.role, ver |-> rules[m.scope].ver + 1] \in Rule
    BY <1>1, <1>2 DEF Rule
<1>4. [by |-> m, was |-> rules[m.scope]] \in Landing BY <1>2 DEF Landing
<1> QED BY <1>1, <1>3, <1>4 DEF Land, TypeInv, TypeOK

\* Every step keeps the types.
LEMMA TypeNext == TypeInv /\ [Next]_vars => TypeInv'
<1> SUFFICES ASSUME TypeInv, [Next]_vars PROVE TypeInv' OBVIOUS
<1>1. ASSUME NEW c \in Calls, Step(c) PROVE TypeInv'
    <2>1. PICK k \in CallState : Steps(c, k) BY <1>1, StepSteps
    <2>2. /\ call' = [call EXCEPT ![c] = k] /\ edits' = edits
          /\ k.pc \notin {"wait", "done"} => k.sends <= MaxRetries
        BY <2>1 DEF Steps
    <2>3. call[c].aim \subseteq Message BY DEF TypeInv, TypeOK, CallState
    <2>4. rules' \in [Scopes -> Rule] /\ landed' \subseteq Landing
        <3>1. CASE Carried(c, k) BY <2>3, <3>1, LandType DEF Carried
        <3>2. CASE UNCHANGED <<rules, landed>> BY <3>2 DEF TypeInv, TypeOK
        <3> QED BY <2>1, <3>1, <3>2 DEF Steps
    <2>5. late' \subseteq Message
        <3>1. CASE GivenUp(c, k) BY <2>3, <3>1 DEF GivenUp, TypeInv, TypeOK
        <3>2. CASE UNCHANGED late BY <3>2 DEF TypeInv, TypeOK
        <3> QED BY <2>1, <3>1, <3>2 DEF Steps
    <2> QED BY <2>2, <2>4, <2>5 DEF TypeInv, TypeOK
<1>2. ASSUME NEW m \in late, LandLate(m) PROVE TypeInv'
    <2>1. m \in Message BY DEF TypeInv, TypeOK
    <2> QED BY <1>2, <2>1, LandType DEF LandLate, TypeInv, TypeOK
<1>3. ASSUME NEW s \in Scopes, Edit(s) PROVE TypeInv'
    <2>1. PICK role \in EditRoles :
            rules' = [rules EXCEPT ![s] = [role |-> role, ver |-> rules[s].ver + 1]]
        BY <1>3 DEF Edit
    <2>2. role \in Roles BY SharingAssumption
    <2>3. [role |-> role, ver |-> rules[s].ver + 1] \in Rule
        BY <2>2 DEF TypeInv, TypeOK, Rule
    <2>4. edits' \in 0 .. MaxEdits
        BY <1>3, BoundsTyped DEF Edit, TypeInv, TypeOK
    <2> QED BY <1>3, <2>1, <2>3, <2>4 DEF Edit, TypeInv, TypeOK
<1>4. CASE UNCHANGED vars BY <1>4 DEF vars, TypeInv, TypeOK
<1> QED BY <1>1, <1>2, <1>3, <1>4 DEF Next

\* The rules, the calls and the history are well formed in every reachable
\* state, and a message is sent at most MaxRetries + 1 times.
THEOREM TypeCorrect == Spec => []TypeOK
<1>1. TypeInv => TypeOK BY DEF TypeInv
<1> QED BY TypeInit, TypeNext, <1>1, PTL DEF Spec

-----------------------------------------------------------------------------
(* The invariant.                                                          *)

\* It holds at the start.
LEMMA IInvInit == Init => IInv
<1> SUFFICES ASSUME Init PROVE IInv OBVIOUS
<1>1. PICK l \in Listed : rules = [s \in Scopes |-> [role |-> l[s], ver |-> 1]]
    BY DEF Init
<1>2. \A c \in Calls : call[c].pc = "idle" /\ call[c].before = Nothing
                       /\ call[c].aim = {}
    BY DEF Init
<1>3. ReadsAreOld BY <1>1, <1>2 DEF ReadsAreOld, ReadOf, Nothing
<1>4. OneMessage BY <1>2 DEF OneMessage
<1> QED BY <1>1, <1>2, <1>3, <1>4
        DEF Init, IInv, MessagesJudged, LateAreSent, LandedAreSent,
            InsertsOnce, LandsOnce

\* A rule changes by one version at a time.
LEMMA RulesGrow ==
    ASSUME TypeInv, [Next]_vars
    PROVE  \A s \in Scopes :
            rules'[s] = rules[s] \/ rules'[s].ver = rules[s].ver + 1
<1>0. rules \in [Scopes -> Rule] BY DEF TypeInv, TypeOK
<1>1. ASSUME NEW m, Land(m)
      PROVE  \A s \in Scopes :
                rules'[s] = rules[s] \/ rules'[s].ver = rules[s].ver + 1
    BY <1>0, <1>1 DEF Land
<1>2. ASSUME NEW c \in Calls, Step(c)
      PROVE  UNCHANGED rules \/ \E m \in call[c].aim : Land(m)
    <2>1. PICK k \in CallState : Steps(c, k) BY <1>2, StepSteps
    <2> QED BY <2>1 DEF Steps, Carried
<1>3. ASSUME NEW t \in Scopes, Edit(t)
      PROVE  \A s \in Scopes :
                rules'[s] = rules[s] \/ rules'[s].ver = rules[s].ver + 1
    BY <1>0, <1>3 DEF Edit
<1> QED BY <1>1, <1>2, <1>3 DEF Next, LandLate, vars

\* What was read stays a rule that is there, or an older one.
LEMMA StaysOld ==
    ASSUME TypeInv, [Next]_vars, NEW s \in Scopes, NEW old \in Rule, ReadOf(old, s)
    PROVE  old.ver <= rules'[s].ver /\ (old.ver = rules'[s].ver => old = rules'[s])
<1>1. rules[s].ver \in Nat /\ old.ver \in Nat BY DEF TypeInv, TypeOK, Rule
<1>2. rules'[s] = rules[s] \/ rules'[s].ver = rules[s].ver + 1 BY RulesGrow
<1> QED BY <1>1, <1>2 DEF ReadOf

\* A message is what the judgement of its tool allows.
LEMMA AimedJudged ==
    ASSUME TypeInv, IInv, NEW c \in Calls, NEW k, Aimed(c, k)
    PROVE  /\ \A m \in k.aim :
                m.call = c /\ Judged(call[c].req, m) /\ ReadOf(m.saw, m.scope)
           /\ \A m, n \in k.aim : m = n
           /\ call[c].aim = {} /\ k.pc = "send"
<1> DEFINE r == call[c].req
           b == call[c].before
<1>1. PICK s \in Scopes, knows \in BOOLEAN :
        /\ s \in Audiences(r, b) /\ Refusal(r, b, s, knows) = "none"
        /\ call[c].pc = "judge" /\ k.pc = "send"
        /\ k.aim = {[call |-> c, scope |-> s, method |-> Method(r, b, s),
                     role |-> IF r.tool = "unshare" THEN 0 ELSE r.role,
                     saw |-> b[s], knew |-> knows]}
    BY DEF Aimed
<1> DEFINE role == IF r.tool = "unshare" THEN 0 ELSE r.role
           m == [call |-> c, scope |-> s, method |-> Method(r, b, s),
                 role |-> role, saw |-> b[s], knew |-> knows]
<1>2. m.call = c /\ m.scope = s /\ m.method = Method(r, b, s) /\ m.role = role
      /\ m.saw = b[s] /\ m.knew = knows /\ k.aim = {m}
    BY <1>1
<1> HIDE DEF m
<1>3. r \in Requests /\ b[s] \in Rule
    BY DEF TypeInv, TypeOK, CallState
<1>4. r.role \in 0 .. 5 BY <1>3, RequestTyped DEF Roles, Owner
<1>5. r.tool \in {"share", "publish", "widen", "unshare"}
    BY <1>3, SharingAssumption DEF Asks
<1>6. r.tool = "unshare" => Had(b, s)
    BY <1>1 DEF Refusal, UnshareRefusal
<1>7. m.saw.role = 0 <=> m.method = "insert"
    BY <1>2, <1>6 DEF Method, Had
<1>8. r.tool = "share" =>
        m.role <= m.saw.role
            \/ (~IsWide(m.scope) /\ m.scope.value \in Insiders /\ m.role < Owner)
    <2> SUFFICES ASSUME r.tool = "share"
                 PROVE  role <= b[s].role
                        \/ (~IsWide(s) /\ s.value \in Insiders /\ role < Owner)
        BY <1>2
    <2>1. role = r.role OBVIOUS
    <2>2. ShareRefusal(r, b, s, knows) = "none" BY <1>1 DEF Refusal
    <2>3. WithinRule(b, s, r.role)
          \/ (OrdinaryAudience(s, knows) /\ OrdinaryRole(r.role))
        BY <2>2 DEF ShareRefusal
    <2>4. CASE WithinRule(b, s, r.role)
        <3>1. b[s].role >= r.role BY <2>4 DEF WithinRule
        <3>2. b[s].role \in 0 .. 5 BY <1>3 DEF Rule, Roles, Owner
        <3> HIDE DEF role
        <3> QED BY <2>1, <3>1, <3>2, <1>4
    <2>5. CASE OrdinaryAudience(s, knows) /\ OrdinaryRole(r.role)
        BY <2>1, <2>5 DEF OrdinaryAudience, OrdinaryRole, Outside
    <2> QED BY <2>3, <2>4, <2>5
<1>9. r.tool = "publish" => IsWide(m.scope) /\ m.role < Owner
    <2> SUFFICES ASSUME r.tool = "publish" PROVE IsWide(s) /\ role < Owner
        BY <1>2
    <2>1. PublishRefusal(r) = "none" BY <1>1 DEF IInv, OneMessage
    <2>2. r.role # Owner BY <2>1 DEF PublishRefusal
    <2>3. s \in ParsePublic(r) BY <1>1 DEF Audiences
    <2>4. s = Public \/ s.type = "domain" BY <2>3 DEF ParsePublic
    <2>5. Public.type = "default" BY DEF Public
    <2>6. IsWide(s) BY <2>4, <2>5 DEF IsWide
    <2> QED BY <1>4, <2>2, <2>6 DEF Owner
<1>10. r.tool = "widen" => ~IsWide(m.scope)
    BY <1>1, <1>2 DEF Refusal, WidenRefusal
<1>11. r.tool = "unshare" /\ m.knew => m.scope # Own
    BY <1>1, <1>2, <1>6 DEF Refusal, UnshareRefusal, Own
<1>12. ReadOf(m.saw, m.scope) BY <1>2 DEF IInv, ReadsAreOld
<1>13. Judged(r, m) BY <1>7, <1>8, <1>9, <1>10, <1>11 DEF Judged
<1>14. call[c].aim = {} BY <1>1 DEF IInv, OneMessage
<1> QED BY <1>1, <1>2, <1>12, <1>13, <1>14

\* A message carried out is its call's first, on the rule that it saw.
LEMMA LandFirst ==
    ASSUME TypeInv, IInv, NEW c \in Calls, NEW m \in call[c].aim,
           Matches(m), Land(m),
           m.method = "insert" => \A l \in landed : l.by # m
    PROVE  /\ \A l \in landed' \ landed :
                l.by = m /\ l.was = rules[m.scope]
                /\ (m.method # "insert" =>
                        l.was = m.saw /\ l.was.ver < rules'[m.scope].ver)
           /\ LandsOnce'
<1>1. m \in Message /\ m.call = c /\ ReadOf(m.saw, m.scope)
    BY DEF TypeInv, TypeOK, CallState, IInv, MessagesJudged
<1>2. m.scope \in Scopes /\ m.saw \in Rule BY <1>1 DEF Message
<1>3. rules[m.scope] \in Rule BY <1>2 DEF TypeInv, TypeOK
<1>4. rules'[m.scope].ver = rules[m.scope].ver + 1
    BY <1>2 DEF Land, TypeInv, TypeOK
<1>5. m.method # "insert" =>
        rules[m.scope] = m.saw /\ rules[m.scope].ver < rules'[m.scope].ver
    BY <1>1, <1>3, <1>4 DEF Matches, ReadOf, Rule
<1>6. \A l \in landed' \ landed : l.by = m /\ l.was = rules[m.scope]
    BY DEF Land
<1>7. \A l \in landed : l.by.call # c
    <2> SUFFICES ASSUME NEW l \in landed, l.by.call = c PROVE FALSE OBVIOUS
    <2>1. l.by = m BY DEF IInv, LandedAreSent, OneMessage
    <2>2. CASE m.method = "insert" BY <2>1, <2>2
    <2>3. CASE m.method # "insert"
        <3>1. l.was = m.saw /\ l.was.ver < rules[m.scope].ver
            BY <2>1, <2>3 DEF IInv, LandedAreSent
        <3> QED BY <1>3, <1>5, <2>3, <3>1 DEF Rule
    <2> QED BY <2>2, <2>3
<1>8. LandsOnce'
    <2> SUFFICES ASSUME NEW x \in landed', NEW y \in landed', x.by.call = y.by.call
                 PROVE  x = y
        BY DEF LandsOnce
    <2>1. landed' = landed \union {[by |-> m, was |-> rules[m.scope]]}
        BY DEF Land
    <2>2. x \in landed /\ y \in landed => x = y BY DEF IInv, LandsOnce
    <2> QED BY <1>1, <1>7, <2>1, <2>2
<1> QED BY <1>5, <1>6, <1>8

\* A step of a call keeps the invariant.
LEMMA StepInv ==
    ASSUME TypeInv, IInv, NEW c \in Calls, Step(c)
    PROVE  IInv'
<1>1. PICK k \in CallState : Steps(c, k) BY StepSteps
<1>2. call' = [call EXCEPT ![c] = k] /\ k.req = call[c].req
      /\ call[c].pc # "done"
    BY <1>1 DEF Steps
<1>3. call'[c] = k /\ \A d \in Calls \ {c} : call'[d] = call[d]
    BY <1>2 DEF TypeInv, TypeOK
<1>4. [Next]_vars BY DEF Next
<1>5. \/ k.aim = call[c].aim
      \/ Aimed(c, k) /\ call[c].aim = {} /\ UNCHANGED <<rules, late, landed>>
    BY <1>1, AimedJudged DEF Steps
<1>6. TypeInv' BY <1>4, TypeNext
<1>7. \A d \in Calls : call[d].aim \subseteq call'[d].aim
    BY <1>3, <1>5
<1>8. (\A s \in Scopes : rules[s].ver >= 1)'
    BY <1>4, RulesGrow DEF IInv, TypeInv, TypeOK, Rule
<1>9. ReadsAreOld'
    <2> SUFFICES ASSUME NEW d \in Calls, NEW s \in Scopes
                 PROVE  ReadOf(call[d].before[s], s)'
        BY DEF ReadsAreOld
    <2>1. \A e \in Calls : call[e].before[s] \in Rule /\ ReadOf(call[e].before[s], s)
        BY DEF IInv, ReadsAreOld, TypeInv, TypeOK, CallState
    <2>2. rules[s] \in Rule /\ rules[s].ver >= 1 /\ ReadOf(rules[s], s)
        BY DEF IInv, TypeInv, TypeOK, ReadOf, Rule
    <2>3. Nothing[s] \in Rule /\ ReadOf(Nothing[s], s)
        <3>1. Nothing[s] = [role |-> 0, ver |-> 0] BY DEF Nothing
        <3>2. Nothing[s].ver = 0 BY <3>1
        <3>3. rules[s].ver \in Nat /\ rules[s].ver >= 1 BY <2>2 DEF Rule
        <3>4. ReadOf(Nothing[s], s) BY <3>2, <3>3 DEF ReadOf
        <3>5. Nothing[s] \in Rule BY <3>1 DEF Rule, Roles, Owner
        <3> QED BY <3>4, <3>5
    <2>4. \A old \in Rule : ReadOf(old, s) =>
            old.ver <= rules'[s].ver /\ (old.ver = rules'[s].ver => old = rules'[s])
        BY <1>4, StaysOld
    <2>5. call'[d].before[s] \in {call[d].before[s], rules[s], Nothing[s]}
        BY <1>1, <1>3 DEF Steps
    <2> QED BY <2>1, <2>2, <2>3, <2>4, <2>5 DEF ReadOf
<1>10. MessagesJudged'
    <2> SUFFICES ASSUME NEW d \in Calls, NEW m \in call'[d].aim
                 PROVE  m.call = d /\ Judged(call'[d].req, m)
                        /\ ReadOf(m.saw, m.scope)'
        BY DEF MessagesJudged, Judged
    <2>1. m.call = d /\ Judged(call[d].req, m) /\ ReadOf(m.saw, m.scope)
        <3>1. CASE call'[d].aim = call[d].aim
            <4>1. m \in call[d].aim BY <3>1
            <4> QED BY <4>1 DEF IInv, MessagesJudged
        <3>2. CASE call'[d].aim # call[d].aim
            <4>1. d = c BY <1>3, <3>2
            <4>2. Aimed(c, k) BY <1>3, <1>5, <3>2, <4>1
            <4>3. m \in k.aim BY <1>3, <4>1
            <4> QED BY <4>1, <4>2, <4>3, AimedJudged
        <3> QED BY <3>1, <3>2
    <2>2. call'[d].req = call[d].req BY <1>2, <1>3
    <2>3. m \in Message BY <1>6 DEF TypeInv, TypeOK, CallState
    <2>4. m.saw \in Rule /\ m.scope \in Scopes BY <2>3 DEF Message
    <2> QED BY <1>4, <2>1, <2>2, <2>4, StaysOld DEF ReadOf
<1>11. OneMessage'
    <2>1. \A m, n \in k.aim : m = n
        BY <1>5, AimedJudged DEF IInv, OneMessage
    <2>2. k.pc \in {"idle", "open", "rules", "judge"} => k.aim = {}
        BY <1>1, <1>5, AimedJudged DEF IInv, OneMessage, Steps, Early
    <2>3. k.req.tool = "publish" /\ k.pc \in {"rules", "judge"} =>
            PublishRefusal(k.req) = "none"
        BY <1>1, <1>2 DEF IInv, OneMessage, Steps
    <2> QED BY <1>3, <2>1, <2>2, <2>3 DEF IInv, OneMessage
<1>12. late' = late \/ GivenUp(c, k) BY <1>1 DEF Steps
<1>13. \A m \in late : m.call \in Calls BY DEF TypeInv, TypeOK, Message
<1>14. \A m \in call[c].aim : m.call = c BY DEF IInv, MessagesJudged
<1>15. LateAreSent'
    BY <1>7, <1>12, <1>13, <1>14 DEF IInv, LateAreSent, GivenUp
<1>16. landed' = landed \/ Carried(c, k) BY <1>1 DEF Steps
<1>17. \A l \in landed : l.by \in Message /\ l.by.call \in Calls /\ l.was \in Rule
    BY DEF TypeInv, TypeOK, Landing, Message
<1>18. \A l \in landed : l.by.method = "insert" => l.by.call # c
    BY <1>2 DEF IInv, InsertsOnce
<1>19. /\ \A l \in landed' \ landed :
            /\ l.by \in call[c].aim /\ k.pc = "done" /\ late' = late
            /\ l.by.method # "insert" =>
                l.was = l.by.saw /\ l.was.ver < rules'[l.by.scope].ver
       /\ LandsOnce'
    <2>1. CASE landed' = landed BY <2>1 DEF IInv, LandsOnce
    <2>2. CASE landed' # landed
        <3>1. Carried(c, k) /\ late' = late
            BY <1>1, <2>2 DEF Steps
        <3>2. PICK m \in call[c].aim : Matches(m) /\ Land(m)
            BY <3>1 DEF Carried
        <3>3. m.method = "insert" => \A l \in landed : l.by # m
            BY <1>14, <1>18
        <3> QED BY <3>1, <3>2, <3>3, LandFirst DEF Carried
    <2> QED BY <2>1, <2>2
<1>20. LandedAreSent'
    <2> SUFFICES ASSUME NEW l \in landed'
                 PROVE  /\ l.by \in call'[l.by.call].aim
                        /\ l.by.method # "insert" =>
                            l.was = l.by.saw /\ l.was.ver < rules'[l.by.scope].ver
        BY DEF LandedAreSent
    <2>1. CASE l \in landed
        <3>1. l.by.scope \in Scopes BY <1>17, <2>1 DEF Message
        <3>2. rules[l.by.scope].ver <= rules'[l.by.scope].ver
            BY <1>4, <3>1, RulesGrow DEF TypeInv, TypeOK, Rule
        <3>3. rules[l.by.scope] \in Rule /\ rules'[l.by.scope] \in Rule
            BY <1>6, <3>1 DEF TypeInv, TypeOK
        <3> QED BY <1>7, <1>17, <2>1, <3>2, <3>3 DEF IInv, LandedAreSent, Rule
    <2>2. CASE l \notin landed
        BY <1>7, <1>14, <1>19, <2>2
    <2> QED BY <2>1, <2>2
<1>21. InsertsOnce'
    <2>1. \A m \in late' : m.method = "insert" => call'[m.call].pc = "done"
        BY <1>2, <1>3, <1>12, <1>13, <1>14 DEF IInv, InsertsOnce, GivenUp
    <2>2. \A l \in landed' : l.by.method = "insert" => call'[l.by.call].pc = "done"
        BY <1>3, <1>14, <1>17, <1>18, <1>19 DEF IInv, InsertsOnce
    <2>3. \A l \in landed' : l.by.method = "insert" => l.by \notin late'
        <3> SUFFICES ASSUME NEW l \in landed', l.by.method = "insert"
                     PROVE  l.by \notin late'
            OBVIOUS
        <3>1. CASE l \in landed
            BY <1>12, <1>14, <1>18, <3>1 DEF IInv, InsertsOnce, GivenUp
        <3>2. CASE l \notin landed
            BY <1>2, <1>14, <1>19, <3>2 DEF IInv, InsertsOnce
        <3> QED BY <3>1, <3>2
    <2> QED BY <2>1, <2>2, <2>3 DEF InsertsOnce
<1> QED BY <1>8, <1>9, <1>10, <1>11, <1>15, <1>19, <1>20, <1>21 DEF IInv

\* So do a message carried out late, and another owner's change.
LEMMA OthersInv ==
    ASSUME TypeInv, IInv,
           \/ \E m \in late : LandLate(m)
           \/ \E s \in Scopes : Edit(s)
    PROVE  IInv'
<1>1. [Next]_vars BY DEF Next
<1>2. UNCHANGED call BY DEF LandLate, Edit
<1>3. TypeInv' BY <1>1, TypeNext
<1>4. \A s \in Scopes : rules[s].ver <= rules'[s].ver
    BY <1>1, RulesGrow DEF TypeInv, TypeOK, Rule
<1>5. (\A s \in Scopes : rules[s].ver >= 1)'
    BY <1>1, RulesGrow DEF IInv, TypeInv, TypeOK, Rule
<1>6. ReadsAreOld'
    <2> SUFFICES ASSUME NEW d \in Calls, NEW s \in Scopes
                 PROVE  ReadOf(call[d].before[s], s)'
        BY DEF ReadsAreOld
    <2>1. call[d].before[s] \in Rule /\ ReadOf(call[d].before[s], s)
        BY DEF IInv, ReadsAreOld, TypeInv, TypeOK, CallState
    <2> QED BY <1>1, <1>2, <2>1, StaysOld DEF ReadOf
<1>7. MessagesJudged'
    <2> SUFFICES ASSUME NEW d \in Calls, NEW m \in call[d].aim
                 PROVE  m.call = d /\ Judged(call[d].req, m)
                        /\ ReadOf(m.saw, m.scope)'
        BY <1>2 DEF MessagesJudged, Judged
    <2>1. m.call = d /\ Judged(call[d].req, m) /\ ReadOf(m.saw, m.scope)
        BY DEF IInv, MessagesJudged
    <2>2. m.saw \in Rule /\ m.scope \in Scopes
        BY DEF TypeInv, TypeOK, CallState, Message
    <2> QED BY <1>1, <2>1, <2>2, StaysOld DEF ReadOf
<1>8. OneMessage' BY <1>2 DEF IInv, OneMessage
<1>9. late' \subseteq late BY DEF LandLate, Edit
<1>10. LateAreSent' BY <1>2, <1>9 DEF IInv, LateAreSent
<1>11. /\ \A l \in landed' \ landed :
            /\ l.by \in late /\ l.by \notin late'
            /\ l.by \in call[l.by.call].aim
            /\ l.by.method # "insert" =>
                l.was = l.by.saw /\ l.was.ver < rules'[l.by.scope].ver
       /\ LandsOnce'
    <2>1. CASE \E s \in Scopes : Edit(s)
        BY <2>1 DEF Edit, IInv, LandsOnce
    <2>2. CASE \E m \in late : LandLate(m)
        <3>1. PICK m \in late : LandLate(m) BY <2>2
        <3>2. m \in call[m.call].aim /\ m.call \in Calls
            BY <3>1 DEF IInv, LateAreSent, TypeInv, TypeOK, Message
        <3>3. m.method = "insert" => \A l \in landed : l.by # m
            BY <3>1 DEF IInv, InsertsOnce
        <3>4. Matches(m) /\ Land(m) /\ late' = late \ {m} BY <3>1 DEF LandLate
        <3> QED BY <3>1, <3>2, <3>3, <3>4, LandFirst
    <2> QED BY <2>1, <2>2
<1>12. LandedAreSent'
    <2> SUFFICES ASSUME NEW l \in landed'
                 PROVE  /\ l.by \in call[l.by.call].aim
                        /\ l.by.method # "insert" =>
                            l.was = l.by.saw /\ l.was.ver < rules'[l.by.scope].ver
        BY <1>2 DEF LandedAreSent
    <2>1. CASE l \in landed
        <3>1. l.by.scope \in Scopes /\ l.was \in Rule
            BY <2>1 DEF TypeInv, TypeOK, Landing, Message
        <3>2. rules[l.by.scope] \in Rule /\ rules'[l.by.scope] \in Rule
            BY <1>3, <3>1 DEF TypeInv, TypeOK
        <3>3. rules[l.by.scope].ver <= rules'[l.by.scope].ver BY <1>4, <3>1
        <3> QED BY <2>1, <3>1, <3>2, <3>3 DEF IInv, LandedAreSent, Rule
    <2>2. CASE l \notin landed BY <1>11, <2>2
    <2> QED BY <2>1, <2>2
<1>13. InsertsOnce'
    <2>1. \A m \in late' : m.method = "insert" => call'[m.call].pc = "done"
        BY <1>2, <1>9 DEF IInv, InsertsOnce
    <2>2. \A l \in landed' : l.by.method = "insert" =>
            call'[l.by.call].pc = "done" /\ l.by \notin late'
        BY <1>2, <1>9, <1>11 DEF IInv, InsertsOnce
    <2> QED BY <2>1, <2>2 DEF InsertsOnce
<1> QED BY <1>5, <1>6, <1>7, <1>8, <1>10, <1>11, <1>12, <1>13 DEF IInv

\* Every step keeps it.
LEMMA IInvNext == TypeInv /\ IInv /\ [Next]_vars => IInv'
<1>1. CASE UNCHANGED vars
    BY <1>1 DEF vars, IInv, ReadsAreOld, ReadOf, MessagesJudged, Judged,
                OneMessage, LateAreSent, LandedAreSent, InsertsOnce, LandsOnce
<1> QED BY <1>1, StepInv, OthersInv DEF Next

\* The invariant holds in every reachable state.
THEOREM Soundness == Spec => [](TypeInv /\ IInv)
BY TypeInit, TypeNext, IInvInit, IInvNext, PTL DEF Spec

-----------------------------------------------------------------------------
(* What follows from it.                                                   *)

\* However the calls, the retries, the late requests and other owners
\* interleave, no tool takes a calendar past its own reach.
THEOREM WithinReach == Spec => []EachToolWithinItsReach
<1>1. TypeInv /\ IInv => EachToolWithinItsReach
    <2> SUFFICES ASSUME TypeInv, IInv, NEW l \in landed
                 PROVE  LET m == l.by IN
                        CASE Tool(l) = "share" ->
                                m.role <= l.was.role
                                    \/ (~IsWide(m.scope)
                                            /\ m.scope.value \in Insiders
                                            /\ m.role < Owner)
                          [] Tool(l) = "publish" -> IsWide(m.scope) /\ m.role < Owner
                          [] Tool(l) = "widen" -> ~IsWide(m.scope)
                          [] Tool(l) = "unshare" -> m.knew => m.scope # Own
        BY DEF EachToolWithinItsReach
    <2>1. l.by \in call[l.by.call].aim /\ l.by.call \in Calls
        BY DEF IInv, LandedAreSent, TypeInv, TypeOK, Landing, Message
    <2>2. Judged(call[l.by.call].req, l.by) BY <2>1 DEF IInv, MessagesJudged
    <2>3. l.by.method # "insert" => l.was = l.by.saw
        BY DEF IInv, LandedAreSent
    <2>4. l.by.role \in 0 .. 5 /\ l.was.role \in 0 .. 5 /\ l.by.saw.role \in 0 .. 5
        BY DEF TypeInv, TypeOK, Landing, Message, Rule, Roles, Owner
    <2>5. l.by.role <= l.by.saw.role => l.by.role <= l.was.role
        BY <2>2, <2>3, <2>4 DEF Judged
    <2>6. Tool(l) \in {"share", "publish", "widen", "unshare"}
        <3>1. call[l.by.call].req \in Requests
            BY <2>1 DEF TypeInv, TypeOK, CallState
        <3>2. Requests \subseteq Asks BY SharingAssumption
        <3> QED BY <3>1, <3>2 DEF Tool, Asks
    <2> QED BY <2>2, <2>5, <2>6 DEF Judged, Tool
<1> QED BY <1>1, Soundness, PTL

\* A call lands once at most, so asks for one mail at most.
THEOREM LandsAtMostOnce == Spec => []LandsOnce
<1>1. IInv => LandsOnce BY DEF IInv
<1> QED BY <1>1, Soundness, PTL

\* A rule that was read is replaced only as it was read.
THEOREM ReadRulesStand == Spec => []OnlyUnseenRulesReplaced
<1>1. TypeInv /\ IInv => OnlyUnseenRulesReplaced
    <2> SUFFICES ASSUME TypeInv, IInv, NEW l \in landed, l.by.saw.role # 0
                 PROVE  l.was = l.by.saw
        BY DEF OnlyUnseenRulesReplaced
    <2>1. l.by \in call[l.by.call].aim /\ l.by.call \in Calls
        BY DEF IInv, LandedAreSent, TypeInv, TypeOK, Landing, Message
    <2>2. l.by.method # "insert"
        BY <2>1 DEF IInv, MessagesJudged, Judged
    <2> QED BY <2>2 DEF IInv, LandedAreSent
<1> QED BY <1>1, Soundness, PTL
=============================================================================
