------------------------------- MODULE Sharing -------------------------------
(***************************************************************************)
(* Who can see a calendar: share_calendar, publish_calendar,               *)
(* widen_calendar_access and unshare_calendar of internal/service/         *)
(* sharing.go, over the judgements of internal/plan/share.go and the       *)
(* requests of internal/gapi/client.go.                                    *)
(*                                                                         *)
(* A call reads the rules page by page, judges the share on what it read,  *)
(* and sends one write.  A rule it read is patched or deleted under the    *)
(* rule's etag; one it did not read is inserted, and an insert replaces    *)
(* whatever is there by then.  Other calls and other owners change the     *)
(* rules between any two steps, and an answer may be lost.                 *)
(***************************************************************************)
EXTENDS Integers

CONSTANTS
    Calls,
    Requests,     \* what the calls may ask, a subset of Asks
    Addresses,    \* of people and groups: the two look the same
    Me,           \* the signed-in account's address
    Insiders,     \* the addresses in the account's own domain
    Domains,
    Listed,       \* the lists of rules a calendar may begin with
    PageOf,       \* the page of acl.list each scope's rule is on
    Pages,
    MaxRetries,   \* gapi.Client.MaxRetries
    MaxEdits,     \* bound: changes made by other owners
    EditRoles     \* bound: the roles they set

\* The access roles, weakest first; 0 is no rule, or no role on a call.
Owner == 5
Roles == 0 .. Owner

\* The public scope has no value: its type alone decides (gcal.SameScope).
Public == [type |-> "default", value |-> ""]
Scopes ==
    [type: {"user", "group"}, value: Addresses]
        \union [type: {"domain"}, value: Domains] \union {Public}

Anyone == "anyone"
Asks ==
    [tool: {"share", "publish", "widen", "unshare"},
     who: Addresses \union Domains \union {Anyone},
     type: {"", "user", "group", "domain", "default"}, role: Roles,
     notify: {"", "all", "none", "external_only"},
     titled: BOOLEAN,    \* calendar_title is the calendar's title
     confirm: BOOLEAN, dryRun: BOOLEAN]

ASSUME SharingAssumption ==
    /\ Requests \subseteq Asks
    /\ Me \in Addresses /\ Insiders \subseteq Addresses
    /\ Anyone \notin Addresses \union Domains
    /\ Addresses \intersect Domains = {}
    /\ Listed \subseteq [Scopes -> Roles]
    /\ Pages \in Nat /\ PageOf \in [Scopes -> 1 .. Pages]
    /\ MaxRetries \in Nat /\ MaxEdits \in Nat /\ EditRoles \subseteq Roles

VARIABLES
    rules,    \* Google's access control list: a role and a version per scope
    call,     \* each tool call's goroutine
    late,     \* requests given up on that Google has not handled
    landed,   \* history: the writes Google carried out
    edits     \* bound: changes made by other owners

vars == <<rules, call, late, landed, edits>>

Rule == [role: Roles, ver: Nat]

-----------------------------------------------------------------------------
(* The judgements of plan/share.go.                                        *)

Had(before, s) == before[s].role # 0

\* ParseAudience: the scopes a call's who may be read as; none when it is
\* refused.  The rule the calendar already has decides the type of an
\* address, the first such rule of the list.
KnownAs(who, before) == {s \in Scopes : Had(before, s) /\ s.value = who}
ParseAudience(r, before) ==
    CASE r.type = "" /\ r.who = Anyone -> {Public}
      [] r.type = "" /\ KnownAs(r.who, before) # {} -> KnownAs(r.who, before)
      [] r.type = "" -> {s \in Scopes : s.type = "user" /\ s.value = r.who}
      [] r.type = "default" -> IF r.who = Anyone THEN {Public} ELSE {}
      [] OTHER -> {s \in Scopes : s.type = r.type /\ s.value = r.who}

\* ParsePublic: "anyone" or a domain, whatever the list says.
ParsePublic(r) ==
    IF r.who = Anyone THEN {Public}
    ELSE {s \in Scopes : s.type = "domain" /\ s.value = r.who}

IsWide(s) == s.type \in {"default", "domain"}

\* Outside: an address of another domain, and any address while the
\* account's own is not known.
Outside(s, knows) == ~IsWide(s) /\ (knows => s.value \notin Insiders)

OrdinaryAudience(s, knows) == ~IsWide(s) /\ ~Outside(s, knows)
OrdinaryRole(role) == role < Owner
WithinRule(before, s, role) == Had(before, s) /\ before[s].role >= role

NotifyRefusal(r) ==
    CASE r.notify = "" -> "invalid"
      [] r.notify = "external_only" -> "unsupported"
      [] OTHER -> "none"

\* The refusals of each tool, in the order the code makes them.
ShareRefusal(r, before, s, knows) ==
    LET ordinary == OrdinaryAudience(s, knows) IN
    IF ~Had(before, s) /\ ~ordinary THEN "blocked"
    ELSE IF r.role = 0 THEN "invalid"
    ELSE IF ~WithinRule(before, s, r.role) /\ (~ordinary \/ ~OrdinaryRole(r.role))
    THEN "blocked"
    ELSE NotifyRefusal(r)

ConfirmRefusal(r) == IF r.confirm \/ r.dryRun THEN "none" ELSE "blocked"

PublishRefusal(r) ==
    IF ParsePublic(r) = {} \/ r.role \in {0, Owner} THEN "invalid"
    ELSE IF NotifyRefusal(r) # "none" THEN NotifyRefusal(r)
    ELSE ConfirmRefusal(r)

WidenRefusal(r, s, knows) ==
    IF r.role = 0 \/ IsWide(s) \/ (~Outside(s, knows) /\ OrdinaryRole(r.role))
    THEN "invalid"
    ELSE IF NotifyRefusal(r) # "none" THEN NotifyRefusal(r)
    ELSE ConfirmRefusal(r)

\* The account's own rule is the door it would lock from the inside.
UnshareRefusal(before, s, knows) ==
    IF ~Had(before, s) THEN "no_rule"
    ELSE IF knows /\ s = [type |-> "user", value |-> Me] THEN "blocked"
    ELSE "none"

Audiences(r, before) ==
    IF r.tool = "publish" THEN ParsePublic(r) ELSE ParseAudience(r, before)

Refusal(r, before, s, knows) ==
    CASE r.tool = "share" -> ShareRefusal(r, before, s, knows)
      [] r.tool = "publish" -> "none"      \* refused before the rules are read
      [] r.tool = "widen" -> WidenRefusal(r, s, knows)
      [] r.tool = "unshare" -> UnshareRefusal(before, s, knows)

-----------------------------------------------------------------------------
(* A tool call.  pc: "idle", "open" the calendar, "rules" page by page,    *)
(* "judge", "send" a request, "wait" for its answer, "done".               *)

Outcomes ==
    {"none", "ok", "dry_run", "unchanged", "invalid", "unsupported",
     "blocked", "no_rule", "not_read", "gone", "stale", "refused",
     "rate_limited", "unavailable", "ambiguous"}

Methods == {"insert", "patch", "delete"}

Message ==
    [call: Calls, method: Methods, scope: Scopes, role: Roles, saw: Rule,
     knew: BOOLEAN]

CallState ==
    [pc: {"idle", "open", "rules", "judge", "send", "wait", "done"},
     req: Requests, page: 1 .. Pages + 1, before: [Scopes -> Rule],
     aim: SUBSET Message, sends: 0 .. MaxRetries + 1, unsure: BOOLEAN,
     outcome: Outcomes]

Nothing == [s \in Scopes |-> [role |-> 0, ver |-> 0]]

Init ==
    /\ \E l \in Listed : rules = [s \in Scopes |-> [role |-> l[s], ver |-> 1]]
    /\ call \in
        [Calls -> [pc: {"idle"}, req: Requests, page: {1}, before: {Nothing},
                   aim: {{}}, sends: {0}, unsure: {FALSE}, outcome: {"none"}]]
    /\ late = {}
    /\ landed = {}
    /\ edits = 0

Finish(c, o) ==
    call' = [call EXCEPT ![c].pc = "done", ![c].outcome = o,
                         ![c].before = Nothing]

Start(c) ==
    /\ call[c].pc = "idle"
    /\ call' = [call EXCEPT ![c].pc = "open"]
    /\ UNCHANGED <<rules, late, landed, edits>>

\* ownCalendar, and openWide's title; publish_calendar is judged here.
Open(c) ==
    /\ call[c].pc = "open"
    /\ LET r == call[c].req IN
       IF r.tool \in {"publish", "widen"} /\ ~r.titled THEN Finish(c, "stale")
       ELSE IF r.tool = "publish" /\ PublishRefusal(r) # "none"
       THEN Finish(c, PublishRefusal(r))
       ELSE call' = [call EXCEPT ![c].pc = "rules"]
    /\ UNCHANGED <<rules, late, landed, edits>>

\* sharingRules: a page is what the list holds when it is asked for.
ReadPage(c) ==
    LET k == call[c] IN
    /\ k.pc = "rules" /\ k.page <= Pages
    /\ call' = [call EXCEPT
            ![c].before = [s \in Scopes |->
                IF PageOf[s] = k.page THEN rules[s] ELSE k.before[s]],
            ![c].page = k.page + 1,
            ![c].pc = IF k.page = Pages THEN "judge" ELSE "rules"]
    /\ UNCHANGED <<rules, late, landed, edits>>

\* A read that cannot be had, or a calendar somebody else owns, ends it.
ReadFails(c) ==
    /\ call[c].pc \in {"open", "rules"}
    /\ Finish(c, "not_read")
    /\ UNCHANGED <<rules, late, landed, edits>>

MethodInserts(r, before, s) ==   \* mutant: insert whether or not it is there
    IF r.tool = "unshare" THEN "delete" ELSE "insert"
Method(r, before, s) ==
    IF r.tool = "unshare" THEN "delete"
    ELSE IF Had(before, s) THEN "patch" ELSE "insert"

\* The judgement on what was read, with the account's address if the
\* calendar list gives it, and grant's early returns.
Judge(c) ==
    /\ call[c].pc = "judge"
    /\ LET k == call[c]
           r == k.req
           heard == Audiences(r, k.before)
       IN \/ heard = {} /\ Finish(c, "invalid")
          \/ \E s \in heard, knows \in BOOLEAN :
                LET no == Refusal(r, k.before, s, knows) IN
                IF no # "none" THEN Finish(c, no)
                ELSE IF r.tool # "unshare" /\ k.before[s].role = r.role
                THEN Finish(c, "unchanged")
                ELSE IF r.dryRun THEN Finish(c, "dry_run")
                ELSE call' = [call EXCEPT
                        ![c].pc = "send",
                        ![c].before = Nothing,
                        ![c].aim = {[call |-> c, scope |-> s,
                            method |-> Method(r, k.before, s),
                            role |-> IF r.tool = "unshare" THEN 0 ELSE r.role,
                            saw |-> k.before[s], knew |-> knows]}]
    /\ UNCHANGED <<rules, late, landed, edits>>

-----------------------------------------------------------------------------
(* The write, its attempts and its answers.                                *)

Send(c) ==
    /\ call[c].pc = "send"
    /\ call' = [call EXCEPT ![c].pc = "wait", ![c].sends = @ + 1]
    /\ UNCHANGED <<rules, late, landed, edits>>

\* Google: a patch or a delete names a rule that must be there, unchanged.
Gone(m) == m.method # "insert" /\ ~Had(rules, m.scope)
MatchesAny(m) == TRUE   \* mutant: no If-Match
Matches(m) == m.method = "insert" \/ m.saw.ver = rules[m.scope].ver

Landing == [by: Message, was: Rule]

\* Carried out: the rule is written in place, inserted, or taken away.
Land(m) ==
    /\ rules' = [rules EXCEPT ![m.scope] = [role |-> m.role, ver |-> @.ver + 1]]
    /\ landed' = landed \union {[by |-> m, was |-> rules[m.scope]]}

IdempotentAll(m) == TRUE   \* mutant: an insert is sent again too
Idempotent(m) == m.method # "insert"
MayRetry(c, m) == Idempotent(m) /\ call[c].sends <= MaxRetries

Accepted(c, m) ==
    /\ ~Gone(m) /\ Matches(m)
    /\ Land(m)
    /\ Finish(c, "ok")
    /\ UNCHANGED <<late, edits>>

PreconditionFailed(c, m) ==
    /\ ~Gone(m) /\ ~Matches(m)
    /\ Finish(c, "stale")
    /\ UNCHANGED <<rules, late, landed, edits>>

\* goneAfterRetry: the delete before it may have done it.
NotThere(c, m) ==
    /\ Gone(m)
    /\ Finish(c, IF call[c].unsure /\ m.method = "delete"
                 THEN "ambiguous" ELSE "gone")
    /\ UNCHANGED <<rules, late, landed, edits>>

Refused(c) ==
    /\ Finish(c, "refused")
    /\ UNCHANGED <<rules, late, landed, edits>>

RateLimited(c, m) ==
    /\ IF MayRetry(c, m)
       THEN call' = [call EXCEPT ![c].pc = "send"]
       ELSE Finish(c, "rate_limited")
    /\ UNCHANGED <<rules, late, landed, edits>>

\* No answer or a 5xx: it may be carried out, now or later.  shareError
\* says so of an insert, which is not sent again.
Unanswered(c, m) ==
    /\ late' \in {late, late \union {m}}
    /\ IF MayRetry(c, m)
       THEN call' = [call EXCEPT ![c].pc = "send", ![c].unsure = TRUE]
       ELSE Finish(c, IF m.method = "insert" THEN "ambiguous" ELSE "unavailable")
    /\ UNCHANGED <<rules, landed, edits>>

Answer(c) ==
    /\ call[c].pc = "wait"
    /\ \E m \in call[c].aim :
        \/ Accepted(c, m) \/ PreconditionFailed(c, m) \/ NotThere(c, m)
        \/ Refused(c) \/ RateLimited(c, m) \/ Unanswered(c, m)

LandLate(m) ==
    /\ ~Gone(m) /\ Matches(m)
    /\ Land(m)
    /\ late' = late \ {m}
    /\ UNCHANGED <<call, edits>>

\* Another owner adds, changes or removes a rule.
Edit(s) ==
    /\ edits < MaxEdits
    /\ \E role \in EditRoles \ {rules[s].role} :
        rules' = [rules EXCEPT ![s] = [role |-> role, ver |-> @.ver + 1]]
    /\ edits' = edits + 1
    /\ UNCHANGED <<call, late, landed>>

-----------------------------------------------------------------------------
Step(c) ==
    Start(c) \/ Open(c) \/ ReadPage(c) \/ ReadFails(c) \/ Judge(c) \/ Send(c)
        \/ Answer(c)

Next ==
    \/ \E c \in Calls : Step(c)
    \/ \E m \in late : LandLate(m)
    \/ \E s \in Scopes : Edit(s)

\* Each call's goroutine runs to its end, and every request is answered or
\* times out; nothing makes other owners act, or a request given up on land.
Fairness == \A c \in Calls : WF_vars(Step(c))

Spec == Init /\ [][Next]_vars /\ Fairness

-----------------------------------------------------------------------------
(* Properties.                                                             *)

TypeOK ==
    /\ rules \in [Scopes -> Rule]
    /\ call \in [Calls -> CallState]
    /\ late \subseteq Message
    /\ landed \subseteq Landing
    /\ edits \in 0 .. MaxEdits

Tool(l) == call[l.by.call].req.tool
Own == [type |-> "user", value |-> Me]

\* A client may allow share_calendar once and for all, so whatever anybody
\* else does meanwhile it never raises a rule past what it carries: over the
\* rule that is in place when the write lands, it grants more only to
\* somebody inside the organization, below owner.  publish_calendar makes no
\* owner, widen_calendar_access reaches no domain, and unshare_calendar
\* leaves the account's own rule while it knows the account's address.
\* (OrdinaryAudience, WithinRule and the etag of the read, together.)
EachToolWithinItsReach ==
    \A l \in landed :
        LET m == l.by IN
        CASE Tool(l) = "share" ->
                m.role <= l.was.role
                    \/ (~IsWide(m.scope) /\ m.scope.value \in Insiders
                            /\ m.role < Owner)
          [] Tool(l) = "publish" -> IsWide(m.scope) /\ m.role < Owner
          [] Tool(l) = "widen" -> ~IsWide(m.scope)
          [] Tool(l) = "unshare" -> m.knew => m.scope # Own

\* A call changes the rules once at most, and so asks for one mail at most:
\* the patches and deletes that are sent again cannot land twice, and an
\* insert, which could, is not sent again.
LandsOnce ==
    \A x, y \in landed : x.by.call = y.by.call => x = y

\* A rule that was read is written or taken away as it was read: what
\* another owner changed since then stands, and only a rule that was not
\* there for the reader can be replaced unseen.
OnlyUnseenRulesReplaced ==
    \A l \in landed : l.by.saw.role # 0 => l.was = l.by.saw
=============================================================================
