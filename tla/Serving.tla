------------------------------ MODULE Serving ------------------------------
(***************************************************************************)
(* What a started server will do for whoever calls it: the settings its   *)
(* operator wrote become a configuration, the configuration decides which  *)
(* tools exist and which scopes a login asks for, and a call sends what    *)
(* its tool sends, as far as the stored grant carries it.  The resources   *)
(* are reads no switch removes.  `doctor` judges the grant from another    *)
(* process and changes nothing, so it is an operator over the state.       *)
(***************************************************************************)
EXTENDS Integers, Sequences, FiniteSets, SequencesExt

CONSTANTS
    RawSettings,    \* the flags and variables an operator may start with
    Tokens,         \* the refresh tokens logins may store, one each
    Unticked,       \* scopes the person may leave unticked at a login
    Outages         \* the requests that may fail for a moment together

NoToken == 0

ASSUME TokensAssumption == IsFiniteSet(Tokens) /\ Tokens \subseteq Nat \ {NoToken}

\* The variables a release took out are looked up as well.
RemovedSettings == {"REQUIRE_PROMPT", "READONLY"}
SettingsRead ==
    \A raw \in RawSettings :
        DOMAIN raw.removed = RemovedSettings /\ raw.client \in BOOLEAN
ASSUME SettingsRead

VARIABLES
    grants,         \* per token: the scopes granted, and whether Google honours it
    stored,         \* the token this profile's store holds
    zone,           \* the account's time zone: none, named, or one this server cannot load
    server,         \* the running server: what it was started with and what it holds
    call            \* the tool call or resource read it has just answered

serverVars == <<grants, stored, zone, server, call>>

----------------------------------------------------------------------------
(* Settings: a flag as given, "absent" when not, over a variable. "" is    *)
(* empty, "bad" any other word.                                            *)

(* Mutant: the variable beats the flag.                                    *)
WinnerEnv(s, fallback) ==
    IF s.env # "" THEN s.env ELSE IF s.flag # "absent" THEN s.flag ELSE fallback

Winner(s, fallback) ==
    IF s.flag # "absent" THEN s.flag ELSE IF s.env # "" THEN s.env ELSE fallback

Word == {"", "on", "off"}
On(v) == v = "on"                       \* parseBool
OnOrUnsaid(v) == v \in {"", "on"}       \* parseOnOff

RemovedSet(raw) == {k \in DOMAIN raw.removed : raw.removed[k] \notin {"", "off"}}

CountAccepted(v) == v \in {"", "least", "most"}
TimeoutAccepted(v) == v \in {"usual", "most"}

(* One configuration, or none: every setting that does not read refuses    *)
(* the start, a removed one that is still set as well.                     *)
Build(raw) ==
    LET readOnly == Winner(raw.readOnly, "off")
        destructive == Winner(raw.destructive, "off")
        sharing == Winner(raw.sharing, "on")
        declineAll == Winner(raw.declineAll, "off")
    IN  IF /\ {readOnly, destructive, sharing, declineAll} \subseteq Word
           /\ RemovedSet(raw) = {}
           /\ CountAccepted(Winner(raw.count, ""))
           /\ TimeoutAccepted(Winner(raw.timeout, "usual"))
        THEN {[readOnly |-> On(readOnly), destructive |-> On(destructive),
               sharing |-> OnOrUnsaid(sharing), declineAll |-> On(declineAll)]}
        ELSE {}

----------------------------------------------------------------------------
(* The tools, their kinds, and what a client is told of each kind.         *)

ReadTools == {"list_calendars", "get_calendar", "list_events", "search_events", "get_event",
              "list_instances", "list_changes", "check_availability", "get_settings"}

WriteTools == {"create_event", "create_event_declining_all", "update_event", "cancel_event",
               "respond_to_event", "move_event", "create_calendar", "manage_calendar",
               "share_calendar", "unshare_calendar", "publish_calendar",
               "widen_calendar_access", "delete_calendar", "clear_calendar"}
Tools == ReadTools \union WriteTools \union {"list_sharing"}

KindOf == [t \in Tools |->
    CASE t \in ReadTools -> "Read"
      [] t \in {"create_event", "create_calendar"} -> "Adding"
      [] t \in {"update_event", "cancel_event", "respond_to_event", "manage_calendar"} -> "IdempotentWrite"
      [] t \in {"share_calendar", "unshare_calendar"} -> "Sharing"
      [] t \in {"publish_calendar", "widen_calendar_access"} -> "WideSharing"
      [] t \in {"delete_calendar", "clear_calendar"} -> "Destructive"
      [] t = "move_event" -> "Write"
      [] t = "list_sharing" -> "SharingRead"
      [] t = "create_event_declining_all" -> "DecliningAll"]

Allowed(k, cfg) ==
    \/ k = "Read"
    \/ /\ ~cfg.readOnly
       /\ CASE k = "Destructive" -> cfg.destructive
            [] k \in {"Sharing", "SharingRead"} -> cfg.sharing
            [] k = "WideSharing" -> cfg.sharing /\ cfg.destructive
            [] k = "DecliningAll" -> cfg.declineAll
            [] OTHER -> TRUE

Register(cfg) == {t \in Tools : Allowed(KindOf[t], cfg)}

(* Mutant: only what needs confirm says it is destructive.                 *)
AnnotationsForConfirmed(k) ==
    IF k \in {"Read", "SharingRead"}
    THEN [readOnly |-> TRUE, destructive |-> FALSE, openWorld |-> FALSE]
    ELSE [readOnly |-> FALSE, destructive |-> k \in {"Destructive", "WideSharing"},
          openWorld |-> k \in {"Sharing", "WideSharing"}]

AnnotationsFor(k) ==
    IF k \in {"Read", "SharingRead"}
    THEN [readOnly |-> TRUE, destructive |-> FALSE, openWorld |-> FALSE]
    ELSE [readOnly |-> FALSE, destructive |-> k # "Adding",
          openWorld |-> k \in {"Sharing", "WideSharing"}]

PromptEveryCall == {"publish_calendar", "delete_calendar", "clear_calendar"}

----------------------------------------------------------------------------
(* Scopes: what a login asks for, and what Google accepts per request.     *)

(* Mutant: the sharing list is thought covered by the calendar read scope.  *)
ScopesReadCoversAcl(cfg) ==
    {"readonly", "settings.readonly"}
    \union (IF cfg.readOnly THEN {} ELSE {"events", "calendars", "calendarlist"})
    \union (IF cfg.sharing /\ ~cfg.readOnly THEN {"acls"} ELSE {})

Scopes(cfg) ==
    {"readonly", "settings.readonly"}
    \union (IF cfg.sharing THEN {"acls.readonly"} ELSE {})
    \union (IF cfg.readOnly THEN {} ELSE {"events", "calendars", "calendarlist"})
    \union (IF cfg.sharing /\ ~cfg.readOnly THEN {"acls"} ELSE {})

MissingScopes(granted, wanted) == wanted \ granted

Reads == {"calendarList.list", "calendarList.get", "calendars.get", "events.list", "events.get",
          "events.instances", "freebusy.query", "colors.get", "settings.list", "acl.list"}
WideWrites == {"acl.insert wide", "acl.patch wide"}
AclWrites == {"acl.insert", "acl.patch", "acl.delete"} \union WideWrites
AclMethods == {"acl.list"} \union AclWrites
Unrecoverable == {"calendars.delete", "calendars.clear"}
Inserts == {"events.insert", "calendars.insert"}
EventWrites == {"events.insert", "events.insert declining all", "events.patch", "events.delete",
                "events.move"}
CalendarWrites == {"calendars.insert", "calendars.patch"} \union Unrecoverable
ListWrites == {"calendarList.insert", "calendarList.patch", "calendarList.delete"}
Methods == Reads \union EventWrites \union CalendarWrites \union ListWrites \union AclWrites

Accepted == [m \in Methods |->
    CASE m \in {"calendarList.list", "calendarList.get"} -> {"readonly", "calendarlist"}
      [] m \in {"events.list", "events.get", "events.instances"} -> {"readonly", "events"}
      [] m \in {"freebusy.query", "colors.get"} -> {"readonly"}
      [] m = "calendars.get" -> {"readonly", "calendars"}
      [] m = "settings.list" -> {"readonly", "settings.readonly"}
      [] m = "acl.list" -> {"acls", "acls.readonly"}
      [] m \in EventWrites -> {"events"}
      [] m \in CalendarWrites -> {"calendars"}
      [] m \in ListWrites -> {"calendarlist"}
      [] m \in AclWrites -> {"acls"}]

----------------------------------------------------------------------------
(* What a tool sends, in order.  A step tries its requests until one is    *)
(* answered; one that is not `must` goes on without.                       *)

Must(m) == [try |-> <<m>>, must |-> TRUE]
May(m) == [try |-> <<m>>, must |-> FALSE]
Resolve == [try |-> <<"calendarList.get", "calendars.get">>, must |-> TRUE]
UserZone == May("settings.list")

(* How a call is made: "past" asks for what only a wider tool does, "dry"  *)
(* previews.                                                               *)
Args(t) ==
    {"plain"} \union (IF KindOf[t] \in {"Read", "SharingRead"} THEN {} ELSE {"dry"})
    \union (IF t \in {"create_event", "share_calendar"} THEN {"past"} ELSE {})
    \union (IF KindOf[t] \in {"Destructive", "WideSharing"} THEN {"confirmed"} ELSE {})

PrepareWrite == <<May("calendarList.list"), Resolve, UserZone>>      \* before an event write
OwnCalendar == <<May("calendarList.list"), Resolve>>            \* before a sharing change

ReadSteps(t) ==
    CASE t = "list_calendars" -> <<Must("calendarList.list")>>
      [] t \in {"list_events", "search_events", "list_changes"} -> <<Resolve, UserZone, Must("events.list")>>
      [] t = "get_event" -> <<Resolve, UserZone, Must("events.get")>>
      [] t = "list_instances" -> <<Resolve, UserZone, Must("events.instances")>>
      [] t = "check_availability" -> <<Resolve, UserZone, Must("freebusy.query")>>
      [] t = "get_settings" -> <<Must("settings.list"), May("colors.get")>>
      [] t \in {"create_event", "create_event_declining_all"} -> PrepareWrite
      [] t \in {"update_event", "cancel_event", "respond_to_event", "move_event"} ->
             Append(PrepareWrite, Must("events.get"))
      [] t = "create_calendar" -> <<UserZone>>
      [] t = "list_sharing" -> <<Resolve, Must("acl.list")>>
      [] t \in {"share_calendar", "widen_calendar_access", "unshare_calendar"} ->
             Append(OwnCalendar, Must("acl.list"))
      [] t = "publish_calendar" -> OwnCalendar
      [] OTHER -> <<Resolve>>

(* The writes a call may come to, one of these.  A series that declines all *)
(* and is changed from one date on goes on as a new event that does too.    *)
WriteSteps(t) ==
    CASE t = "create_event" -> {<<Must("events.insert")>>}
      [] t = "create_event_declining_all" -> {<<Must("events.insert declining all")>>}
      [] t = "update_event" -> {<<Must("events.patch")>>, <<Must("events.patch"), Must("events.insert")>>,
                                <<Must("events.patch"), Must("events.insert declining all")>>}
      [] t = "cancel_event" -> {<<Must("events.patch")>>, <<Must("events.delete")>>}
      [] t = "respond_to_event" -> {<<Must("events.patch")>>}
      [] t = "move_event" -> {<<Must("events.move"), May("events.get")>>}
      [] t = "create_calendar" -> {<<Must("calendars.insert")>>}
      [] t = "manage_calendar" -> {<<Must("calendarList.delete")>>, <<Must("calendarList.insert")>>,
                                   <<Must("calendars.get"), Must("calendars.patch")>>,
                                   <<Must("calendarList.get"), Must("calendarList.patch")>>}
      [] t = "share_calendar" -> {<<>>, <<Must("acl.patch")>>, <<Must("acl.insert")>>}
      [] t = "publish_calendar" -> {<<Must("acl.list"), Must("acl.insert wide")>>,
                                    <<Must("acl.list"), Must("acl.patch wide")>>}
      [] t = "widen_calendar_access" -> {<<>>, <<Must("acl.patch wide")>>, <<Must("acl.insert wide")>>}
      [] t = "unshare_calendar" -> {<<Must("acl.delete")>>}
      [] t = "delete_calendar" -> {<<Must("calendars.get"), Must("calendars.delete")>>}
      [] t = "clear_calendar" -> {<<Must("calendars.get"), Must("calendars.clear")>>}
      [] OTHER -> {<<>>}

(* A call is refused before it writes: what a wider tool does is refused by *)
(* name, what cannot be taken back needs confirm, a dry run stops there.    *)
Refuses(t, arg) ==
    \/ arg = "past"
    \/ arg = "plain" /\ KindOf[t] \in {"Destructive", "WideSharing"}

(* Whether there is an access token to send with, held or got now.  `down`  *)
(* is what fails for a moment, the exchange for an access token among it.   *)
Connects(tok, access, down) == access \/ (grants[tok].honoured /\ "exchange" \notin down)

(* Google's answer to one request of a server that holds token tok.        *)
Outcome(m, tok, access, down) ==
    CASE ~Connects(tok, access, down) \/ m \in down -> "unavailable"
      [] ~grants[tok].honoured \/ Accepted[m] \intersect grants[tok].scopes = {} -> "auth"
      [] OTHER -> "ok"

Answered(step, tok, access, down) ==
    \E i \in DOMAIN step.try : Outcome(step.try[i], tok, access, down) = "ok"
Tried(step, tok, access, down) ==
    {step.try[i] : i \in {j \in DOMAIN step.try :
                            \A k \in 1..(j-1) : Outcome(step.try[k], tok, access, down) # "ok"}}

(* The settings are asked for once per process, and kept.                  *)
AskedBefore(step) == server.zone # "unread" /\ step.try = <<"settings.list">>

(* Running steps until one that must be answered is not.                   *)
Failing(steps, tok, access, down) ==
    {i \in DOMAIN steps : steps[i].must /\ ~AskedBefore(steps[i]) /\ ~Answered(steps[i], tok, access, down)}
Ran(steps, tok, access, down) ==
    LET failing == Failing(steps, tok, access, down)
    IN  {i \in DOMAIN steps : \A j \in failing : i <= j}
Sent(steps, tok, access, down) ==
    IF ~Connects(tok, access, down) THEN {}
    ELSE UNION {Tried(steps[i], tok, access, down) :
                    i \in {j \in Ran(steps, tok, access, down) : ~AskedBefore(steps[j])}}
Answer(steps, tok, access, down) ==
    LET failing == Failing(steps, tok, access, down)
        first == CHOOSE n \in failing : \A j \in failing : n <= j
    IN  IF failing = {} THEN "ok" ELSE Outcome(Last(steps[first].try), tok, access, down)

----------------------------------------------------------------------------
(* State.                                                                  *)

(* What the operator wrote, read off the settings alone: a switch is on     *)
(* where the flag says so, or the variable does and there is no flag.       *)
SaysOn(s) == s.flag = "on" \/ (s.flag = "absent" /\ s.env = "on")
SaysOff(s) == s.flag = "off" \/ (s.flag = "absent" /\ s.env = "off")
Wrote(raw) == [readOnly |-> SaysOn(raw.readOnly) \/ raw.removed.READONLY \in {"on", "bad"},
               noSharing |-> SaysOff(raw.sharing),
               destructive |-> SaysOn(raw.destructive),
               declineAll |-> SaysOn(raw.declineAll)]

NoGrant == [scopes |-> {}, honoured |-> FALSE]
NoServer == [up |-> FALSE, token |-> NoToken]
NoCall == [name |-> "none", arg |-> "plain", sent |-> {}, failed |-> {}, answer |-> "none",
           note |-> "none"]
Zones == {"none", "named", "unknown"}

ServerInit ==
    /\ grants = [t \in Tokens |-> NoGrant]
    /\ stored = NoToken
    /\ zone \in Zones
    /\ server = NoServer
    /\ call = NoCall

(* A grant neither the store nor the server holds any more is forgotten.   *)
Held(g, st, tok) == [t \in Tokens |-> IF t \in {st, tok} THEN g[t] ELSE NoGrant]

(* A login asks for its settings' scopes; the person may leave a box       *)
(* unticked, one at a time here.                                           *)
LoginScopes == UNION {{Scopes(cfg) : cfg \in Build(raw)} : raw \in {r \in RawSettings : r.client}}

Login(asked) ==
    \E t \in Tokens \ {stored, server.token} :
        /\ \A u \in Tokens \ {stored, server.token} : t <= u
        /\ \E left \in {{}} \union {{x} : x \in asked \intersect Unticked} :
               grants' = Held([grants EXCEPT ![t] = [scopes |-> asked \ left, honoured |-> TRUE]],
                              t, server.token)
        /\ stored' = t
        /\ UNCHANGED <<zone, server, call>>

(* A logout revokes the grant; or Google ends it by itself.                *)
Logout ==
    /\ stored # NoToken
    /\ grants' = Held([grants EXCEPT ![stored].honoured = FALSE], NoToken, server.token)
    /\ stored' = NoToken
    /\ UNCHANGED <<zone, server, call>>

GrantEnds(t) ==
    /\ grants[t].honoured
    /\ grants' = [grants EXCEPT ![t].honoured = FALSE]
    /\ UNCHANGED <<stored, zone, server, call>>

ZoneChanges ==
    /\ zone' \in Zones \ {zone}
    /\ UNCHANGED <<grants, stored, server, call>>

(* A server starts without credentials as well, and then answers every     *)
(* call with that for as long as it runs.                                  *)
BuildService(client) == IF client THEN stored ELSE NoToken

Startups == UNION {{[cfg |-> cfg, wrote |-> Wrote(raw), client |-> raw.client] : cfg \in Build(raw)} :
                    raw \in RawSettings}

Start(s) ==
    /\ ~server.up
    /\ server' = [up |-> TRUE, wrote |-> s.wrote, cfg |-> s.cfg, token |-> BuildService(s.client),
                  access |-> FALSE, zone |-> "unread"]
    /\ UNCHANGED <<grants, stored, zone, call>>

Stop ==
    /\ server.up
    /\ server' = NoServer
    /\ grants' = Held(grants, stored, NoToken)
    /\ UNCHANGED <<stored, zone, call>>

AccessExpires ==
    /\ server.up /\ server.access
    /\ server' = [server EXCEPT !.access = FALSE]
    /\ UNCHANGED <<grants, stored, zone, call>>

(* Settings that are answered are kept whatever they said; a read that     *)
(* fails is no error, and leaves nothing.                                   *)
ZoneKept(sent, down) ==
    IF /\ server.zone = "unread" /\ "settings.list" \in sent
       /\ Outcome("settings.list", server.token, server.access, down) = "ok"
    THEN IF zone = "named" THEN "named" ELSE "unnamed"
    ELSE server.zone

Record(name, arg, sent, failed, answer, note) ==
    call' = [name |-> name, arg |-> arg, sent |-> sent, failed |-> failed, answer |-> answer,
             note |-> note]

(* A call that reaches Google: the token source refreshes when it must.    *)
Serve(name, arg, steps, refusal, note, down) ==
    LET sent == Sent(steps, server.token, server.access, down)
        failed == (sent \union (IF server.access THEN {} ELSE {"exchange"})) \intersect down
        answer == Answer(steps, server.token, server.access, down)
    IN  /\ server' = [server EXCEPT !.access = Connects(server.token, @, down),
                                    !.zone = ZoneKept(sent, down)]
        /\ Record(name, arg, sent, failed, IF answer = "ok" THEN refusal ELSE answer, note)

(* get_calendar and the calendar resource: the card, and who it is shared  *)
(* with, which may go unread for want of a scope or a role without failing  *)
(* the card.                                                                *)
UnreadableSharing(outcome) ==
    CASE outcome = "auth" -> {"no acl scope"} [] outcome = "ok" -> {"none", "not the owner"}
      [] OTHER -> {"none"}

CalendarDetail(name, arg, down) ==
    IF ~server.cfg.sharing
    THEN Serve(name, arg, <<Resolve>>, "ok", "sharing off", down)
    ELSE LET card == Answer(<<Resolve>>, server.token, server.access, down)
             acl == Outcome("acl.list", server.token, server.access, down)
             sharing == IF acl = "auth" THEN May("acl.list") ELSE Must("acl.list")
         IN  \E note \in IF card = "ok" THEN UnreadableSharing(acl) ELSE {"none"} :
                 Serve(name, arg, <<Resolve, sharing>>, "ok", note, down)

(* create_calendar has no calendar to take a zone from: the caller's, or    *)
(* the account's, or it is refused before anything is made.  The account's  *)
(* settings are asked for even so.                                          *)
CreateCalendar(arg, down) ==
    LET kept == ZoneKept(Sent(<<UserZone>>, server.token, server.access, down), down)
    IN  \E timeZone \in Zones :
           CASE timeZone = "unknown" ->
                    Serve("create_calendar", arg, <<UserZone>>, "refused", "none", down)
             [] timeZone = "none" /\ kept # "named" ->
                    Serve("create_calendar", arg, <<UserZone>>, "no zone", "none", down)
             [] OTHER -> \E w \in WriteSteps("create_calendar") :
                    Serve("create_calendar", arg, <<UserZone>> \o (IF arg = "dry" THEN <<>> ELSE w),
                          "ok", "none", down)

Unserved(name, arg, answer) ==
    /\ Record(name, arg, {}, {}, answer, "none")
    /\ UNCHANGED server

(* One call of a tool: not registered, not signed in, refused, or run.     *)
Call(t, arg) ==
    /\ server.up
    /\ UNCHANGED <<grants, stored, zone>>
    /\ \/ t \notin Register(server.cfg) /\ Unserved("unknown tool", arg, "not found")
       \/ t \in Register(server.cfg) /\ server.token = NoToken /\ Unserved(t, arg, "auth")
       \/ /\ t \in Register(server.cfg) /\ server.token # NoToken
          /\ \E down \in Outages :
             \/ t = "get_calendar" /\ CalendarDetail(t, arg, down)
             \/ t = "create_calendar" /\ CreateCalendar(arg, down)
             \/ /\ t \notin {"get_calendar", "create_calendar"} /\ Refuses(t, arg)
                /\ Serve(t, arg, ReadSteps(t), "refused", "none", down)
             \/ /\ t \notin {"get_calendar", "create_calendar"} /\ ~Refuses(t, arg)
                /\ \E w \in WriteSteps(t) :
                      Serve(t, arg, ReadSteps(t) \o (IF arg = "dry" THEN <<>> ELSE w), "ok", "none", down)

(* A resource is named by the segments after gcal://calendars; "%" is one   *)
(* that does not unescape.                                                  *)
URIs == {<<>>, <<"">>, <<" ">>, <<"%">>, <<"c">>, <<"c", "events", "e">>, <<"c", "events", "">>,
         <<"c", "acl", "e">>, <<"c", "events">>}

ParseURI(uri) ==
    CASE Len(uri) \notin {1, 3} \/ uri = <<"">> -> "not found"
      [] Len(uri) = 3 /\ (uri[2] # "events" \/ uri[3] = "") -> "not found"
      [] \E i \in DOMAIN uri : uri[i] = "%" -> "not readable"
      [] uri[1] = " " -> "not found"
      [] OTHER -> IF Len(uri) = 1 THEN "calendar" ELSE "event"

ReadResource(uri) ==
    /\ server.up
    /\ UNCHANGED <<grants, stored, zone>>
    /\ LET what == IF uri = <<>> THEN "calendars" ELSE ParseURI(uri)
       IN  \/ /\ what \in {"not found", "not readable"}
              /\ Unserved("resource", "plain", what)
           \/ /\ what \in {"calendars", "calendar", "event"} /\ server.token = NoToken
              /\ Unserved("resource", "plain", "auth")
           \/ /\ server.token # NoToken
              /\ \E down \in Outages :
                 \/ /\ what = "calendars"
                    /\ Serve("resource", "plain", ReadSteps("list_calendars"), "ok", "none", down)
                 \/ what = "calendar" /\ CalendarDetail("resource", "plain", down)
                 \/ /\ what = "event"
                    /\ Serve("resource", "plain", ReadSteps("get_event"), "ok", "none", down)

----------------------------------------------------------------------------
(* doctor: another process, over the same store.  Its lines, each "ok" or   *)
(* "FAIL"; the first three end it.  A check may fail for a moment (`down`);  *)
(* the zone has a line only when its own read is answered.                  *)
CmdDoctor(cfg, client, down) ==
    LET tok == stored
        exchanged == tok # NoToken /\ grants[tok].honoured /\ "exchange" \notin down
        missing == MissingScopes(grants[tok].scopes, Scopes(cfg))
        reachable == Outcome("settings.list", tok, TRUE, {}) = "ok"
        printed ==
            {"client"} \union (IF client THEN {"token"} ELSE {})
              \union (IF client /\ tok # NoToken THEN {"exchange"} ELSE {})
              \union (IF client /\ exchanged THEN {"scopes", "api"} ELSE {})
              \union (IF client /\ exchanged /\ "second" \notin down /\ reachable
                      THEN {"zone"} ELSE {})
        holds(line) ==
            CASE line = "client" -> client
              [] line = "token" -> tok # NoToken
              [] line = "exchange" -> exchanged
              [] line = "scopes" -> "tokeninfo" \notin down /\ missing = {}
              [] line = "api" -> "first" \notin down /\ reachable
              [] line = "zone" -> zone # "none"
    IN  [line \in printed |-> IF holds(line) THEN "ok" ELSE "FAIL"]

Checks == {"exchange", "tokeninfo", "first", "second"}

(* The answer is handed over before anything else is looked at.            *)
Handed ==
    /\ call # NoCall
    /\ call' = NoCall
    /\ UNCHANGED <<grants, stored, zone, server>>

Between ==
    \/ \E asked \in LoginScopes : Login(asked)
    \/ \E s \in Startups : Start(s)
    \/ Logout \/ Stop \/ AccessExpires \/ ZoneChanges
    \/ \E t \in Tokens : GrantEnds(t)
    \/ \E t \in Tools : \E arg \in Args(t) : Call(t, arg)
    \/ \E uri \in URIs : ReadResource(uri)

ServerNext == Handed \/ (call = NoCall /\ Between)

ServerSpec == ServerInit /\ [][ServerNext]_serverVars

----------------------------------------------------------------------------
(* Properties.                                                             *)

(* Whatever is called, and by whatever name the switch was set, the        *)
(* requests sent stay within what the operator wrote: read-only writes      *)
(* nothing, a server told to leave sharing alone never reads or writes a    *)
(* rule, and what cannot be taken back takes the destructive switch and a   *)
(* confirmed call; an event that declines all takes the switch for it,      *)
(* unless it is the rest of a series that declined all before (config.go    *)
(* Build and removedSet; tools.go allowed; write.go thisAndFollowing).      *)
OnlyWhatWasMeant ==
    server.up =>
        LET wrote == server.wrote
        IN  /\ wrote.readOnly \/ call.arg = "dry" => call.sent \subseteq Reads
            /\ wrote.noSharing => call.sent \intersect AclMethods = {}
            /\ call.sent \intersect (Unrecoverable \union WideWrites) # {} =>
                   wrote.destructive /\ call.arg = "confirmed"
            /\ "events.insert declining all" \in call.sent =>
                   wrote.declineAll \/ call.name = "update_event"

(* What doctor prints as ok holds for a server with the same token, asking  *)
(* for the same access: no call is answered [auth], and no sharing list     *)
(* goes unread for want of a scope; with a zone found, no call is refused   *)
(* for having none, unless this server goes by settings it kept, its own    *)
(* read failed for the moment, or the zone is one it cannot load (status.go *)
(* cmdDoctor, service.go Settings, userZone).                               *)
NeverPrints(l) ==
    \A down \in SUBSET Checks :
        LET lines == CmdDoctor(server.cfg, TRUE, down) IN l \in DOMAIN lines => lines[l] = "FAIL"
DoctorTellsTheTruth ==
    server.up /\ server.token = stored =>
        /\ call.answer = "auth" \/ call.note = "no acl scope" => NeverPrints("scopes")
        /\ /\ call.answer = "no zone" /\ call.failed = {} /\ zone # "unknown"
           /\ server.zone = "unread" \/ "settings.list" \in call.sent
           => NeverPrints("zone")

(* What a client is told of a tool holds for every request it makes: one    *)
(* said to read only reads, one said to add only inserts, one whose effect  *)
(* is said to stay in the account writes no rule, and Claude Code is told   *)
(* to ask each time before a calendar is deleted or emptied (tools.go       *)
(* annotationsFor, PromptEveryCall).                                        *)
HintsAreTrue ==
    call.name \in Tools =>
        LET told == AnnotationsFor(KindOf[call.name])
            written == call.sent \ Reads
        IN  /\ told.readOnly => written = {}
            /\ ~told.destructive => written \subseteq Inserts
            /\ ~told.openWorld => written \intersect AclMethods = {}
            /\ written \intersect Unrecoverable # {} => call.name \in PromptEveryCall

AllScopes == {"readonly", "settings.readonly", "acls.readonly", "events", "calendars",
              "calendarlist", "acls"}
Configs == [readOnly : BOOLEAN, destructive : BOOLEAN, sharing : BOOLEAN, declineAll : BOOLEAN]
Servers ==
    [up : {TRUE}, cfg : Configs, token : Tokens \union {NoToken}, access : BOOLEAN,
     wrote : [readOnly : BOOLEAN, noSharing : BOOLEAN, destructive : BOOLEAN, declineAll : BOOLEAN],
     zone : {"unread", "named", "unnamed"}]
ServerTypeOK ==
    /\ grants \in [Tokens -> [scopes : SUBSET AllScopes, honoured : BOOLEAN]]
    /\ stored \in Tokens \union {NoToken} /\ zone \in Zones
    /\ server \in {NoServer} \union Servers
    /\ call \in [name : Tools \union {"none", "unknown tool", "resource"},
                 arg : {"plain", "dry", "past", "confirmed"}, sent : SUBSET Methods,
                 failed : SUBSET (Methods \union {"exchange"}),
                 answer : {"none", "ok", "refused", "auth", "unavailable", "no zone", "not found",
                           "not readable"},
                 note : {"none", "sharing off", "no acl scope", "not the owner"}]
=============================================================================
