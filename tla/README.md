# TLA+ models of google-calendar-mcp

This directory holds TLA+ models of google-calendar-mcp, the configurations that
model-check them with TLC, and proofs checked by TLAPS. The server is a stdio MCP
server: an assistant calls tools, the server calls the Google Calendar API, and the
events it writes are shared with people who change them at the same time. What is
hard about it is not one request but what happens between requests, so that is what
is modelled.

Every definition is written from the code; `PROJECT.json` names, for each, the lines
it stands for, and the repository's fake Google (`internal/gapi/caltest`) is the
source for what Google does with a request.

## The system

| part | state it keeps | operations |
| --- | --- | --- |
| `internal/service/write.go` | none between calls; per call a report, an `attempt` (the first try's plan) | create, update, respond, cancel, move; scopes instance, series, this_and_following |
| `internal/service/calendars.go` | corrects the kept calendar list | create, manage (subscribe, the calendar, the entry, unsubscribe), delete, clear |
| `internal/service/service.go` | `Service`: kept calendar list, settings, primary, one mutex | list calendars, events, instances, settings; resolve a calendar; availability |
| `internal/service/sharing.go` | none | list, grant, widen, publish, remove ACL rules |
| `internal/service/changes.go` | none; cursors and sync tokens travel through the caller | changes since a token or a moment |
| `internal/gapi` | none; a request counter per call | one function per API method over one retry loop |
| `internal/plan`, `internal/recur`, `internal/when`, `internal/model` | none | what a write would change and whom it reaches; rules, their expansion and their split; times; busy periods |
| `internal/credentials`, `internal/auth`, `internal/userconfig`, `cmd/.../account.go` | refresh token in the keyring or a file, a record per profile | login, logout, resolve |
| `internal/server`, `internal/tools`, `internal/config`, `cmd/.../main.go`, `status.go` | configuration, registered tools, the token a server started with | start, serve a call or a resource, doctor |
| `internal/render`, `internal/redact` | none | results as text, log lines without secrets |
| `scripts/gates` | the recorded tool surface, the CHANGELOG | schema-ack, schema-diff, schema-baseline; documents, coverage, bundles |
| `scripts/livecal`, `scripts/evals` | none | live runs, evaluations |

**How they interact.** The SDK serves every tool call in a goroutine of its own, so
calls run concurrently. They share the `Service` (its kept lists, under a mutex that is
never held across a request) and Google's data. A call is a sequence of requests; each
goes through `Client.do`, which repeats it after a retryable failure when the call site
said it may be repeated. Writes carry `If-Match` with the etag of the read that planned
them (D-28), and an event write is planned once more after a 412 (D-29).

**What is hard.**

- *Interleaving*: another call, a guest or Google changes the event or the calendar
  between the read and the write of a call.
- *Lost answers*: a request without an answer may have been carried out, or may be
  carried out later; the loop sends it again, or says `ambiguous_outcome`.
- *Two tries*: the caller's `notify` was given for the first plan; the second is made
  from a fresh read.
- *Two requests that belong together*: a split truncates and then inserts;
  `manage_calendar` writes up to three resources. Nothing rolls back.
- *A list kept for the life of the process*, read without a lock, corrected by writes.
- *Arithmetic at a boundary*: dividing a `COUNT`; weeks, months and clocks that skip;
  budgets, pages, batches and cursors.
- *Processes that share a store*: logins, logouts and servers over one keyring, a token
  file and a record, any of which may be killed between two steps.
- *Gates with time between them*: a branch is measured, main moves, a baseline is written,
  and a release is tagged.

**What makes each part right.** Event writes: whatever lands is what was judged, when
it lands, and nobody's answer is lost. Splits: no date is doubled or lost, and a lost
rest is told. Calendar writes: the kept list is the real one wherever nothing raced,
nothing is done twice, and a report says only what stands. Reads: following cursors or
sync tokens returns every row once, and a token never claims more than was shown.
Sharing: whatever the rules become while a call is under way, no tool grants more than
its confirmation stands for. Availability: nobody is free because nobody answered, and a
gap is free on the clock it is shown on. Rules: an occurrence that is listed, counted or
warned about is one the rule has. Credentials: a login never signs a profile out, and a
logout that says "signed out" has forgotten what it found. Settings: what is sent stays
within what the operator wrote. Releases: a minor release still serves the callers of the
one before it.

`PROJECT.json` lists the hazards at their lines with the properties that cover them.

## Modules

| module | what it is |
| --- | --- |
| `EventPlan` | what a write to an event plans, refuses and sends, as operators on the request and on the event a read showed |
| `AtomicWrite` | the abstract specification: a call reads, judges and writes in one step |
| `EventWrite` | the calls as state machines over requests, retries, lost and late answers, and the second try |
| `RecurSplit` | a recurrence rule, the dates it generates, and where a series is cut |
| `SplitSeries` | `this_and_following` and `create_event` |
| `ManageCalendar` | the calendar tools over the kept calendar list |
| `Sharing` | the sharing tools over the rules of a calendar |
| `PagedRead` | `list_events` and `list_instances` along their page tokens |
| `Changes` | `list_changes` and its caller: baselines, sync tokens, page tokens |
| `WallClock` | instants, readings of a zone's clock and days; a zone has one change of offset |
| `FreeTime` | merged busy time, the gaps between, and hours of a day |
| `Availability` | `check_availability`: batches, what is asked again, groups, the gaps |
| `Recurrence` | the expansion of a series of any rule this server reads, and RFC 5545's meaning of it |
| `StatusEvents` | the draft of an event and of out-of-office, focus time and working locations, made and changed |
| `SignIn` | the login and logout commands over keyring, file and record |
| `Serving` | settings, registered tools, scopes, the requests of each call, `doctor` |
| `SchemaDiff` | what two tool surfaces differ in, and what of it breaks a caller |
| `Releases` | pull requests, the schema gates, the baseline, release commits and tags |
| `EventProofs`, `SplitSeriesProofs`, `ManageCalendarProofs`, `SharingProofs` | theorems about `EventWrite` and the modules they name |
| `StatusProofs` | theorems about `StatusEvents` and the expansion of `Recurrence` |
| `TokenProofs` | theorems about `SignIn` and `Changes` |
| `ReadingProofs` | theorems about `PagedRead` and `Availability` |
| `ReleasedServerProofs` | theorems about `Releases` (with `SchemaDiff`) and `Serving` |
| `MC...` | instances for TLC |

### EventPlan, EventWrite, AtomicWrite

`events` is Google's copy of each event: an etag `ver`, one shared field, the guests'
answers, the status, whether it is on the calendar it is addressed on, and whether
Google truncates its guest list. `call` is the local state of each tool call: `pc`, the
request, the reads, `first` (the plan in `attempt.first`), the attempts of the current
request. `late` holds requests the client gave up on and Google has not handled;
`landed` is history. `Start`, `ReadAddressed`, `ReadSeries` and `ReadFails` are a try up
to its request; the checks between the last read and the request share no state with
anybody, so they are one step with that read (`PlanFrom`). `Send` and the six answers
are `gapi.Client.do`; `LandLate` and `Edit` are Google and everybody else.

Abstractions: the fields of a draft are one shared field (`title`) and one Google keeps
per person; rooms are left out of the guests; times and text are not modelled; the
comparison of plans compares the guest list where the code compares its size and the
addresses reached. An event always has an etag. The caller's etag is one they read when
the call began, or is stale by the time it is compared.

`AtomicWrite` is what this amounts to: a write that is not forced happens as if it had
read, been judged and written at one moment. `force` writes whatever an older read
planned. `EventWrite` implements it with `store <- events`, `asks` the requests and
`writes` the history.

### RecurSplit, SplitSeries

Dates are days `1 .. Days`; a rule repeats every so many days and ends by a `COUNT`, by
an `UNTIL` or not at all; `excluded` and `added` are EXDATE and RDATE. Several calls
split or cut one series, or create an event, while somebody else changes it. The
truncate is a patch like any other: retried, and planned again once after a 412. The
insert is sent once; a forced truncate goes under `*`, whatever the series has become. A
request whose answer is lost lands at once or never here; late landings are
`EventWrite`'s. A split whose notification or body is refused is any other call that
gives up before its request. Beyond interval and end a rule has `unknown`, the parts
`ParseRule` keeps without reading them (BYSETPOS and the like), as the dates on which they
overrule the rest. Google obeys them (`Generated`); this server's expansion, by which it
divides a `COUNT` (`Head`), goes on as if they were not there (`Expanded`).

### ManageCalendar

Each calendar is two resources, `name` (what everybody sees) and `look` (this account's
entry), and the number stands for both the etag and the content. `cache` is the kept
list. A call resolves its calendar, fetching the list page by page if it was not read,
and then carries out its steps: `subscribe`, `rename` and `recolor` in the order of
`ManageCalendar`, or `create`, `unsubscribe`, `delete`, `clear`. `ReadVersion` is the read just
before a step's write, `Lands`, `Refused` and `Unanswered` what becomes of the write,
and `Answered` the moment the kept list is corrected: by `mergeEntry` and `mergeCalendar`
after a patch, and after a create by the calendar alone, without this account's half of
the row (`Bare`). Guards, missing confirmations, a
dry run and failed reads all end a call without a request and are `GivesUp`. Calendars
are named by id or by the alias of the primary; titles are not modelled. `tainted`
is history: the calendars whose row may rightly be out of date.

### PagedRead

One walk: a first read of several calendars, then calls with `next_page_token` until
there is none. `stock` is what Google holds at the positions of each calendar, in the
order it returns rows; a Google page token is a position. `Ask` is a call up to its
goroutines (`decodeCursor`, the narrowing to the calendars with pages left, the share of
the budget), `ReadPage` one request of `drain` for one calendar, `ReadFails` an error of
one calendar, which is the whole call's, and `Return` the result with its cursor.
`list_instances` is the same walk with one calendar and a cut to the budget (`Handed`).
Google may end a page anywhere within the size asked for, and may send a token with
nothing behind it. An event that somebody moves to another date is a row that goes and
another that comes, so `stood`, the rows that were there throughout, leaves it out. Rows
whose conversion fails are among the reads that fail. The semaphore that limits how many
goroutines read at once only removes interleavings, and is left out.

### Changes

`seq` counts the changes of one calendar; `changed` is the count at which each event last
changed, and a read from `n` is of the events with a greater one. A read since a moment
goes by `updated`, which a change of an event's reminders does not move (`GoesBy`; the
events of `Reminded`). `held` and `page` are
the two tokens the caller has; the server keeps nothing. `Ask` and `Resumes` begin a call
(`decodeChanges` is `Accepts`), `ReadPage` is one turn of the loop in `ListChanges`,
`Answer` the result, `Stale` the 410 of `changesError`. `Follow` is a caller that does
what the tool's description says; `Stray` is one that passes anything the tool accepts.
Both are part of the system because the tokens' meaning lives with the caller. A read is
as of its first page (`asof`), and that is the sync token its last page hands out: the
fake Google hands out the count of the last page, and this is the cautious reading, in
which a change between two pages is reported by the next read. An event that changes
during a read may be sent again or not at all by the pages still to come; the property
speaks of the change the token covers. It leaves out what a read since a moment could not
tell of (`Untold`, for which `legacy` is history).

### Sharing

`rules` is a calendar's access control list, a role and a version per scope; `landed` is
history. A call reads the calendar and its own address (`Open`), the rules page by page
(`ReadPage`), and is judged on what it read (`Judge`, whose `Refusal` is the guards of
`plan/share.go` in the order each tool asks them). A rule that was read is patched or
deleted under its etag; one that was not there is inserted, and an insert replaces what is
there by then. `Send`, the answers and `LandLate` are `gapi.Client.do`, where an insert is
not sent again; `Edit` is another owner. Roles are numbered from the weakest. A person and
a group are told apart by the rule that was read, as in the code: an address alone does not.

### WallClock, FreeTime, Availability

Instants are ticks; a day has `Day` of them on a clock that does not change, and a zone
changes its offset once, so a window has a short day, a long one, or neither. `Wall` is
`time.Date`, `Ambiguity` is `WallStrict`'s probe an hour to each side. A call resolves its
references, queries in batches (`Query`), asks again about whatever a full batch left out
(`AskAgain`), and reports (`Report`). Google answers calendars up to its cap, a group's
members counting, and shows those past the cap in either of two ways (`pastCap`), neither
documented. The gaps are computed by the code's own steps (`Merge`, `Cut`, hours, the
shortest length) and the property states them from the definition: instants at which
nobody is busy and the clock shows a reading inside the hours. It leaves out days on which
an edge of the hours is skipped or shown twice, where the code keeps one of two readings.

### Recurrence, StatusEvents

Dates are numbered; weeks, months and years are as long as the constants say, so that a
calendar of twelve short months has every shape a longer one has. The walkers, their
candidates and limits are the code's (`expand.go`); `RuleDates` and `Occurring` are what
RFC 5545 says of the same lines, written from the set of all dates. `ExpansionIsTheRule`
compares the two on every described series, in every window asked about and with every
limit. A rule's `unknown` parts are the dates on which they overrule the rest, and the
walkers do not look at them. `Described` names the series the two read alike; what it leaves out is under
*Known divergences*. A walk gives up after so many years and candidates, whatever is left
of the rule: `FarEnough` says that it does not do so before it has what was asked for, or
more than the limit. Every series, window and limit of the run gets that far; a rule whose
dates lie further apart than `MaxOccurrences` years does not, and the expansion then ends
without them.

`StatusEvents` makes and changes one event with what `plan.go` and `status.go` fill in and
refuse; `GoogleRefuses` is Google's side, from the guide the code quotes and the fake.
`Create` and `Change` are `Insert` and `Patch` with every draft, `Unscoped` the refusal
that tells how far a series reaches. `DeclinesMore` is the judgement behind the warning
that an event declines over more time than it did; `WarnsOfDeclines` states it over the
instants covered.

### SignIn

Each command is a process: `cmd` holds where it is and what it carries, and `Kill` ends it
between any two steps. A token is known by the login that got it. Google revokes grants,
an account's to a client, so one logout may end other tokens. `ring` is how the keyring
answers: it works, is broken, or is *silent*, which is a keyring that answers "no such
entry" although it holds one. `Redirect`, `Browser` and `Exchange` are the loopback flow
with its deadline. `Store.Save` is `Save` and `DropFile` where the keyring takes the token,
and otherwise the three steps of writing a file: `OpenTemp` (created or truncated),
`WriteTemp` and `RenameTemp`. The temporary file has one name per profile, so two logins
may share it: `temp` is what it holds, `handle` the file a command has open, which a
rename by another command takes along, and what two writes leave in one file is either or
neither of them (`Torn`). `Inspect` and `SaveRecord` are the account's record; `Resolve`, `Revoke`,
`Forget`, `DropCopy` and `DropRecord` are logout in its order. `held`, `muted`, `told` and
`sharing` (the logins beside which another had that file in hand) are history.

### Serving

`Start` builds a configuration from raw settings (`Build`: flags over variables, removed
settings, what does not read), registers tools (`Register`), and takes the token the store
holds at that moment. A call of a tool is the requests it makes, each with the scopes
Google accepts for it (`Accepted`), in the code's order, up to the first that must succeed
and does not; a request may be one of two alternatives. Requests fail for a moment
(`Outages`: those that fail together, the exchange of the token among them): a request the
code can do without is then skipped, and the settings are asked for again later, while
settings once read are kept (`AskedBefore`). The zone of the account is named, not
named, or named by a name this server cannot load. `Login`, `Logout` and `GrantEnds`
change what the store holds and what Google honours beside a running server. `CmdDoctor`
is another process over the same store. Which requests a tool makes is the fact the module
rests on: `ReadSteps` and `WriteSteps` name them, each mapped to its handler.

### SchemaDiff, Releases

A tree is what a commit holds: the surface its build publishes, the recorded baseline, the
newest CHANGELOG heading, and what stands under *Unreleased*. `Branch`, `Check` and
`Merge` are a pull request and CI's gates on it; `Prepare`, `WriteBaseline`,
`EditBaseline`, `Rebase` and `Land` the release commit; `Tag` the release. `SchemaDiff` is
the comparison itself, field by field. `Serves` is the reference: one form serves
another's callers when every call the old one took is taken and every result it gives
could have been the old one's, over a small set of values.

What this takes from `docs/release.md` and the workflows, and does not show: one
maintainer, who does not mend a release commit and tag it at once; the release commit
lands directly on top of main, though a release pull request merged behind one that left
an entry under *Unreleased* would pass CI with the older baseline; the tag goes on exactly
that commit, though `git pull` before the tag could take a later one; the version once
chosen is kept until the commit lands.

## What the runs check

The runs in which the system may really stop use `CHECK_DEADLOCK FALSE`: every call, walk,
command or pull request has ended. A caller of `list_changes` and a server never do.

| run | instance | what holds |
| --- | --- | --- |
| `EventWrite` | 2 calls out of respond, update, cancel on one occurrence; 1 retry; 1 edit by somebody else | `LandsAsFirstPlanned`, `NobodyReachedUnasked`, `OthersKept` |
| `EventWriteOne` | 1 call with any of about 60 requests, on the series or its occurrence, three guest lists, truncated or not; 1 retry; 1 edit | `CallerEtagDecides`, `MoveMayLandOnce`, `OwnDeleteNotDenied`; `ImplementsAtomic`, the refinement; `AllAnswered` under fairness |
| `SplitSeries` | 2 calls (splits at 4 dates, cuts, a create; one of each forced), 7 kinds of series on 6 days, one with a part not read; 1 retry; 1 edit | `NothingDuplicated`, `RuleDividedExactly`, `LostRestIsTold` |
| `ManageCalendar` | 2 calls out of 9, 4 calendars on 2 pages; 1 retry; 1 change from outside | `KeptRowsAreCurrent`, `StaleMeansChanged`, `ClaimsLanded` |
| `Sharing` | 1 call out of 17, over 3 lists of rules on 2 pages; 1 retry; 2 changes by other owners | `EachToolWithinItsReach`, `LandsOnce`, `OnlyUnseenRulesReplaced` |
| `PagedRead` | 2 calendars of up to 4 rows, full, with gaps, or mostly canceled; four queries; budgets 1 to 3; 1 edit; 1 failed call | `WalkComplete`, `NoRowTwice`, `DrainBounded`; `WalkEnds` under fairness |
| `Changes` | 3 events, budget 1, a baseline of 2 pages a call, 3 changes, one event's possibly of reminders alone, 1 stray call, 1 failed read, any token expiring | `TokenCoversReported`; `CatchesUp` under fairness |
| `Availability` | up to 4 references of 4 calendars and 3 groups in batches of 2, one not read; and one calendar busy around the edges of hours, on three clocks that change | `KnownMeansRead`, `AskedAgainIsAnswered`, `GapsAreTheFreeTime` |
| `StatusEvents` | about 30 kinds of recurrence lines, three with parts not read, all-day and on clocks that change; every kind of status and draft; 1 change | `GoogleTakesIt`, `ExpansionIsTheRule`, `ReachIsTrue`, `WarnsOfDeclines` |
| `SignIn` | 2 commands out of login and logout, 2 profiles, 2 accounts; the keyring turns twice; 2 kills, a write of the file included | `SignedOutForgets`, `RevokedOrTold`, `LoginNeverSignsOut`; `AllEnded` under fairness |
| `Serving` | every way to write one switch; 2 tokens; every tool and resource; each of four requests failing for a moment | `OnlyWhatWasMeant`, `DoctorTellsTheTruth`, `HintsAreTrue` |
| `Releases` | a tool of 14 forms and one that comes and goes; versions 1.0, 1.1, 2.0, 2.1; 2 merges | `BaselineIsWhatShipped`, `EveryChangeNamed`, `MinorKeepsCallers` |

*Bounds.* Two calls are enough for every pairing of operations, and each call makes up
to two tries of up to two attempts; with one outside edit on top, three writers meet.
A call's behaviour after its second attempt does not depend on how many there were, so
one retry shows what more would. The two-call run of the event writes leaves late
landings of both calls in, and takes three requests; the one-call run takes all of them.
That no request of the two-call run leaves `notify` empty, and none of its guest lists is
truncated, is what `NoSurpriseMail` and `AnswersKept` make up for: they are for any.
A second sharing call does to the first what an owner's edits do, so one call and two
edits stand for both; the theorems are for any number.
Six days and rules that repeat every one or two days contain a cut before, at and after
an excluded and an added date, and a `COUNT` that ends before, at and after the cut; a
part not read takes one date away, so that the two counts differ.
`MaxOccurrences`, 4 in both runs about rules, is exceeded by a cut on day 6 and by every
rule without an end. Weeks of three days and months of five and six make a week that
starts before the rule does, a month without the day named, a last day that moves, and a
year that skips a month. A day of four or six ticks and a change of one or two put every
edge before, on and after the change.
Four rows and a budget of up to three let a calendar end before, at and after its share,
a page be short, empty or full, and one calendar finish while the other goes on. Three
events and a baseline of two one-row pages a call make a baseline that needs a second
call, an incremental read that stops at its budget, and a token that expires in either.
Batches of two with groups of up to three members, a cap of two members and three
calendars asked again exceed each limit by one.
Two commands make a login beside a login and beside a logout, on one profile and on two;
two turns of the keyring lock it and unlock it within one command, and two logins that
find it broken meet at the temporary file. In `Serving` calls are
atomic and answered before the world changes again, since what a call decides on, the
server's token and settings, does not change while it runs; two tokens are one the server
holds and one stored since; at a login the box of `acls.readonly` may be left
unticked, a scope one tool can do without and another cannot. What fails for a moment is
one of the exchange of the token, the two reads a call swallows, and one it reports; the
theorems are for any requests and any scopes. The switches do not meet one another before
a tool is registered, so one at a time is written oddly, the others on; tools
that are not registered are recorded under one name. Two merges and up to two releases
after the first put a branch's merge before, between and after the steps of a release.

*Fairness.* Weak fairness of each call's own steps: the SDK runs the goroutine to its
end, every request is answered or times out, and the retry loop sleeps for a bounded
time. A command likewise: the browser round has a deadline, so nobody need finish there.
In `PagedRead` and `Changes` the caller is assumed to go on as the result and the
tool's description tell it to, with the same arguments: without that no walk ends. Edits,
failures, kills, stray calls and expiries are bounded, and not assumed to happen.
Nothing is assumed of other people, nor of requests nobody waits for any more.

## Known divergences

Where modelling met a sentence of the code, its documents or RFC 5545 that the code does
not keep. The models are of what the code does; a property that would be untrue for one
of these carries a proviso, named in its comment.

*Event writes.*
- `write.go:380` "so nothing was written": after a retried request whose lost answer had
  landed, a 412 is reported this way too.
- `write.go:1782`: on a guest list Google truncated, `respond_to_event` writes the shown
  guests back, and the others are dropped. `OthersKept` leaves that out.
- `write.go:1502` "Earlier occurrences are untouched": the truncate replaces every
  recurrence line by one, so dates added to or taken off the series before the cut change.
- `write.go:1133` "the new series ... was NOT created" is also said when the insert's
  answer was lost, and it may have been.
- `write.go:270`, `:1059`: a forced split sends its truncate under `*`, as planned on what
  it read. If another call has cut the series meanwhile, the dates that call moved to its
  new series come back on the old one (`Unforced`).
- `scope.go:189` divides a `COUNT` by this server's expansion, which leaves out the parts
  `ParseRule` keeps as unknown: a rule with BYSETPOS is not cut into what it generated, and
  a date may end up on both halves (`ReadWhole`).
- `tools/write.go:151` says that `this_and_following` on an event that declines every
  overlapping meeting starts a new one that does too. It needs no `ENABLE_DECLINE_ALL`,
  which `create_declining_event` exists for: `OnlyWhatWasMeant` leaves out what
  `update_event` inserts, the rest of a series that declined before.

*Calendars.*
- `calendars.go:281` "this call had already changed ... and that change stands": the
  account's own settings are added to what was changed before their request (`:500`), so
  a request that fails leaves them in that sentence.
- `calendars.go:162` "Run list_calendars and look for": the kept list is what
  `list_calendars` shows, and it is not read again after a lost answer.
- `calendars.go:400` "Already in your calendar list": a calendar off the list that is
  renamed enters the kept list, and a later subscribe finds it there and adds nothing.
- `calendars.go:135` "the cached list is now missing a calendar the account has": the row
  kept of a calendar just made is the calendar, an owner's role and *selected*. The color
  and the rest of this account's entry are missing from `list_calendars` until something
  writes that entry or the process ends; `KeptRowsAreCurrent` compares such a row as far as
  it goes.
- `service.go:107`: a read of the settings that fails for a moment leaves `create_calendar`
  without a zone, and it says that the account's settings have none (`resolve.go:60`).
  `doctor` prints any name it finds as the account's zone, one this server cannot load
  included (`status.go:168` of the command), which is passed over as if it were not there.
  `DoctorTellsTheTruth` leaves both out.
- `client.go:684`: "a repeat removes nothing a first call had not" holds only while nobody
  adds an event in between.

*Reads.*
- `service.go:1106`: `list_instances` cuts what it drained to the budget; the rows cut are
  behind the page token it returns (`docs/architecture.md:783`).
- `changes.go:45` says what a read since a moment misses, and that its last page hands back
  a sync token all the same: a change of reminders before it is covered by that token and
  was never reported. `TokenCoversReported` leaves those out (`Untold`).
- `service.go:427`: a continuation that names fewer calendars drops the others' tokens
  (`docs/architecture.md:773`).

*Rules and clocks.*
- `expand.go:228` "a count that is quietly too large is worse than no count": `expandable`
  refuses what `Set.Unsupported` names, and not a rule with parts `ParseRule` keeps as
  unknown (`recur.go:264`). Such a rule is expanded, its reach told and its declines
  compared, as if the parts were not there (`status.go:251`). `Described` leaves those
  series out.
- `expand.go:356` "a month that has no such day yields nothing": for a rule of weekdays
  alone, as `FREQ=MONTHLY;BYDAY=5FR`, `monthCandidates` (`:389`) falls back to the start's
  day in such a month.
- A date selected twice counts twice against a `COUNT`; a `YEARLY` rule with BY parts and
  no `BYMONTH` looks at the start's month only; an added date behind an `UNTIL` is dropped.
- `DeclinesMore` takes the first occurrences of a series for the rest; with a `COUNT`, an
  `UNTIL` or excluded dates beyond 3650 occurrences they do not show it. A `COUNT` above
  3650 is described as having no end.
- `when.go:271` "the gap by rolling forward, the fold by taking the first": west of UTC
  `time.Date` rolls a gap back, and east of it takes the second of a fold. A fold of half
  an hour is not noticed by a probe of an hour.

*Signing in.*
- Two logins of a profile that fall back to the file at once write one `token.json.tmp`
  (`credentials.go:232`), and one may rename what the other has half written: the profile
  is left with a file that does not parse. `LoginNeverSignsOut` says so
  (`TwoAtTheFile`). A login killed between write and rename leaves its token in
  `token.json.tmp`, which no logout removes: `SignedOutForgets` is about the stores.
- `docs/security.md:95` "a deleted local copy of a token that still works is not a
  logout": a token of another grant, left in the other store by an earlier sign-in, is
  deleted and not revoked. A silent keyring's entry stays although the logout says
  "signed out".
- `account.go:165`: a tokeninfo call that fails keeps the account of the earlier record.
- A token Google refuses to refresh reaches the caller as `[unavailable]`, where
  `docs/architecture.md:227` and `docs/troubleshooting.md:22` say `[auth]`; `main.go:101`
  "tools will report [auth] until login" is until login *and restart*.
- D-60's "the token it holds then cannot write" is untrue when the profile was signed in
  without read-only.
- `doctor` skips its last line without a word when the second read of settings fails.

*Releases.*
- A pull request checked before a release and merged after it may carry a break that no
  `Breaking:` entry names.
- A list of values that becomes any value and then another list is no break in either
  step, and only noted when the baseline is written; `MinorKeepsCallers` leaves out what
  was noted.

## What is proved

For every value of the constants that the assumptions of the module allow, in each case
from an inductive invariant `IInv` (or the one named) with `Init => IInv`,
`IInv /\ [Next]_vars => IInv'` and `IInv => Inv`, one step per action. Each module of
proofs proves the type invariant as well. Two of them speak of two components, which share
no state: the definitions of `Changes` and `Serving` have names of their own
(`ChangesSpec`, `ServerSpec`) so that they can be extended beside another component.

**EventProofs**, of `EventWrite`: `LandedAsPlanned`, `NoSurpriseMail`, `QuotedEtagDecides`, and
`Refinement`, that `EventWrite` implements `AtomicWrite`. None of the three invariants is
inductive: they speak of writes that have landed, and what makes them true happens
earlier. `IInv` adds what connects the two. *The etag identifies the content*: whatever a
call has read, a pending or late request was built from, or the history names, has a
version at most the event's current one, and if it is the current one, the read showed
what the event still is. With it, a request Google accepts under `If-Match` was planned
from the event it lands on, so its plan, and its checks, are those of that event. The
second part says that whatever can still be sent passed its checks on its own read, and is
the plan recorded in `first`. The refinement follows from the same invariant: `Accepted`
and `LandLate` are `Write` or `Force`, `Edit` is `Others`, everything else stutters.
`NothingForgotten` is a second invariant, `Remembered`, about what outlives a request: a
cancel that may have removed the event, or whose late request still may, is `unsure`
through every retry and the second try, or what it has sent is spent (the event has moved
past the etag it names and can never come back to it); a move has nothing landed and
nothing late before its last request. From it follow `MovesOnce` (`MoveMayLandOnce`) and
`DeleteOwnedUp` (`OwnDeleteNotDenied`). `AnswersKept` (`OthersKept`) is an action property:
what lands under an etag is planned from the guest list it lands on.

**StatusProofs**: `StatusIsTaken` (`GoogleTakesIt`), `ExpandsByTheRule`
(`ExpansionIsTheRule`), `TellsTheTruth` (`ReachIsTrue`), from `StatusSoundness`. The step
that matters to the first is that a patch planned from an event in the shape Google asks
leaves it in such a shape: `StatusInv` says that the event at Google stands in it, whoever
made it, that its series is on the calendar, and that the last refusal without a scope
told the reach of the event that is there.

The other two are about every rule, calendar and zone, and follow the code from the lines
to the occurrences. *Candidates.* Per frequency, the walker's candidates rise and are just
the dates from the start on that the rule's period and selecting parts name
(`DailyLists`, `WeeklyLists`, `MonthlyLists`, `YearlyLists`): the days of a week in the order of WKST
rise from week to week, the n-th weekday of a month is the one with so many before it or
behind it, and months put behind each other stay in order when each is sorted. For a rule
that repeats a weekday or a month they rise without being different, and then it has no
COUNT (`DescribedBy`). *Clocks.* `At` is the instant the zone shows a reading at, the
reading is unclear just when there is not one such instant, and a later date becomes a
later instant, since a clock moves by an hour and a day is longer (`LaterDates`,
`UnclearIs`). *The walk* (`WalkedTo`). After each candidate, what was put out is kept by
the rule and the range, in order, with a note where it must; while the walk goes on nothing
kept was left out and `emitted` counts the matching dates; once it is over, all that was
left out is behind more than the limit. *The rest.* Dates added are sorted in, and the
first of all that is asked for are the first of both (`WithAddedIs`); what the lines say is
read line by line (`ParseIs`).

`WarnsWhereItCompares` is the action property `WarnsOfDeclines` for the series the code can
compare (`Comparing`): described ones, of which the later has no more occurrences than an
expansion lists, or starts where the earlier one did. Whatever an expansion lists is an
occurrence (`ListsOccurrences`), however far it gets, so every span of the event as it was
is one it covered; the spans of the event as it will be are all of its occurrences, or
begin with the first, which shows that it lasts no longer (`SpansList`, `WithinCovers`).

A described rule is one this server reads the whole of, so what is proved of the
expansion says nothing of one with unknown parts. The lines themselves may have any.

It assumes (`StatusAssumption`) that a draft and an event made elsewhere have an event's
fields, a start on the model's calendar, and lines whose numbers `ParseRule` takes
(`WrittenLines`: no interval below 1, no month outside the year; `recur.go`), that a
draft's `busy` is one of a `*bool`'s three, and that a limit asked for is from 1 to
`MaxOccurrences` (`clampLimit` makes it so). Of zones (`ZoneAssumption`): an offset is at
most a day, and a change moves the clock by an hour or not at all, which is what
`Ambiguity` probes for. Of the calendar (`CalendarAssumption`): a month is at least a
week long.

**SplitSeriesProofs**: `NothingTwice`, `RuleIsDivided`, `LossIsTold`. About dates it
proves that a rule's occurrences are an increasing sequence, that a truncated rule's are
those before the cut and the rest's those from it, and that a further cut only takes away;
of a rule with no unknown part it proves that what this server expands is what Google
generates (`WholeIsExpanded`), and so what a truncate leaves (`TruncateLeaves`).
The invariant says that reads are old or current, that a truncate to be sent was planned on
its own read, that the unknown parts never change (`SameUnknown`), that what was planned
can be split (`Splittable`), that a forced truncate is not planned twice (`ForcedOnce`); and, while
no forced truncate has landed, that the series ends, as this server counts, before the
target of every call about to insert or that has (`EndedBefore`), and that of two such
calls one was planned on what the other had left (`OneAfterTheOther`); so two rests of a
rule read whole are apart.

**ManageCalendarProofs**: `ReportsAreTrue` (`ClaimsLanded`), `StaleIsTrue`
(`StaleMeansChanged`). The invariant is per call: its steps are different and taken in
turn (`StepsInTurn`), what it says it changed was carried out (`SaidAndDone`), a step that
was carried out and is sent again finds its version gone (`SpentBase`), and the version a
call last knew, the one its request names and the one there is are in that order
(`VersionsInOrder`). `RowsAreCurrent` (`KeptRowsAreCurrent`) has an invariant of its own,
`CInv`, about each calendar nobody disturbed, one this process made as far as its row
goes: what a fetch has read of it by the page it is
on (`FetchCurrent`), what a write found, carries and gets back (`FoundCurrent`,
`RowCurrent`, `BackCurrent`), that one write at most is under way to it (`Alone`), and that
the kept list is right about it once that write has corrected it (`CacheCurrent`).

**SharingProofs**: `WithinReach` (`EachToolWithinItsReach`), `LandsAtMostOnce`,
`ReadRulesStand` (`OnlyUnseenRulesReplaced`). What was read of a scope is the rule that is
there or an older one; whatever a call may still send carries a rule that was read and its
tool's judgement of it; an insert is late or landed only when nobody waits for it.

**ReadingProofs**, of `PagedRead`: `DrainWithinTwoShares`, and from `WalkAccounts`, the inductive
invariant of a walk, `FollowedToTheEnd` (`WalkComplete`) and `NothingRepeated`
(`NoRowTwice`). The invariant divides every calendar at the position its token, or its
goroutine, has reached: a row before it that stood throughout has been handed over or is
in what the goroutine keeps, and no row after it has been handed over. A calendar the
cursor does not name stands at its end, unless a continuation left it out.

**ReadingProofs**, of `Availability`: `KnownIsRead` (`KnownMeansRead`) and `AskedAgain`
(`AskedAgainIsAnswered`), from `AvailSound`. The invariant has three parts. `AnswersTrue`:
a slot that says read is of a calendar Google can read, one it can read is shown as read or
past the cap, and a group is expanded whole or is an error. `ToCome`: a group asked about
has been expanded or is in a batch still to be sent; and once the call asks again, every
calendar of an id that can be read is in hand or still to be asked about, provided that
what Google holds of the ids is within `maxAskedAgain`. `Reported` is the same of the
answers. Under it lie what the loops compute, for sequences of any length: a slice cut in
chunks loses nothing and no chunk exceeds `FreeBusyBatch` (`ChunksAre`), what is asked
again is everything without an answer, each once (`UnansweredAre`, and so as many as are
held, at most: `FewEnough`), and `Merge` gains and loses no instant (`MergeCovers`). Each is
proved by counting up the values of a recursive function, which `Repeated` shows to exist.

`GapsAreFree` (`GapsAreTheFreeTime`) goes on from there, in four steps that are lemmas.
`CutIs`: what the loop of `FreeGaps` has cut so far are gaps, each free and as long as it
can be, and no free instant before the cursor is outside them (`CutTo`). `IntersectIs`: the
sweep of two sets that are `Apart` meets every pair that overlaps; the invariant of the
sweep (`SweptTo`) says that whichever of two windows was passed ends before all that is
left on the other side. `WindowsAre`: where every edge of the hours is a reading the clock
shows once, `Wall` finds the instant that divides earlier readings from later ones
(`ShownOnce`), so a window of the hours is the instants of one date with a reading inside
them, on a day of any length. `Stretches`: a set of windows that are stretches and leave
no free instant out is the set of all stretches. A call that asks Google anything was not
refused (`NotRefused`, the second invariant), which is where its zone, window and hours
come from (`CallIsSound`).

What is assumed (`AvailabilityAssumption`) of Google's data: a calendar has finitely many
busy times, their ends are instants and each has a length. Of the zones: an offset is at
most a day, as those of the tz database are. Of a call: a bound is an instant or a date, and an
edge of the hours a reading between 00:00 and 24:00 (`ParseHours` takes no other); a title
this server knows resolves to an address, while one it does not know (`"untitled"`) is
neither an address nor a name.

**TokenProofs**, of `Changes`: from `TokensAccount`, `NothingSkipped` (`TokenCoversReported`). The
invariant says the same of three holders of a promise: what the page token has passed was
reported, what the call under way has passed was reported or is carried by it, and what the
sync token covers was reported, but for what a read since a moment could not tell of
(`Missed` while the read goes on, `Untold` once the token is held). It needs that a page token from an incremental read
belongs to the sync token still held (`SameRead`), which is what binding it is for.

**TokenProofs**, of `SignIn`: `LogoutForgets` (`SignedOutForgets`), `RevokedFirst` (`RevokedOrTold`),
`LoginsKeepSignedIn` (`LoginNeverSignsOut`). The invariant says where each token can still
be: before a login has stored its own nobody holds it (`NotYet`), a file is removed behind
a keyring entry (`Behind`), and what a logout has passed is forgotten (`Forgotten`). Of
the temporary file it says that a login which has had it alone finds its own token, and
all of it, in what it renames.

**ReleasedServerProofs**, of `Releases`: `RecordedIsShipped` (`BaselineIsWhatShipped`), from
what a release commit that is prepared or waits for its tag has in common with main;
`ChangesAreNamed` (`EveryChangeNamed`), from `FootersName`, which says of a checked branch,
a release commit, a pending tag and main that what each differs in from its base is named
by somebody; `CallersAreKept` (`MinorKeepsCallers`). The last has a part about schemas: if
`schema-diff` finds nothing broken and nothing to note, the new tool takes all the old one
took and gives nothing it did not (`Compatible`), a field nested under a removed or a new
field included, by taking the shortest path that would be an exception; `Compatible` is an
order, so it holds across several pull requests; and it serves the callers of the old one
(`CompatibleServes`). The other part, `BaselinesKeep`, says that every baseline recorded or
under way keeps what was shipped, which is what lets a branch with an older baseline merge.
Two assumptions: `FormsNamed` (forms of an item have different schemas) and
`SchemasPublished`: a field's parent is a field, which is how `walk` reads nested
properties, a required field is among the fields, as in all of
`testdata/schema-baseline.json`, and an integer is a number, as `typesCover` reads it.

**ReleasedServerProofs**, of `Serving`: `SentIsMeant` (`OnlyWhatWasMeant`), `ToldIsTrue`
(`HintsAreTrue`), `DoctorIsRight` (`DoctorTellsTheTruth`). TLC goes through the tables of
tools and requests for the settings, grants and tokens of an instance; the theorems take
any of them. The invariant (`ServerInv`) says that the configuration of a server that is up
is within what was written (`Within`), however the switches were named and whichever of
flag and variable won. Over the tables the proofs show that the steps of each kind of tool
stay within that kind, that a write is registered only where its kind is allowed, and that
the scopes asked for carry every request of every registered tool; so a grant that Google
honours and that lacks nothing is never answered `[auth]`, whatever fails for the moment;
and a call that finds no zone though doctor did either could not read the settings, or kept
what it had read, or was given a name it cannot load. `SettingsRead` is assumed: every
variable a release removed is looked up (`removedSet` ranges over `removedSettings`).

*Only model-checked*: liveness (`AllAnswered`, `WalkEnds`, `CatchesUp`, `AllEnded`), which
is out of the prover's reach; and the part of `WarnsOfDeclines` about an open series whose
start is moved. Its first `MaxOccurrences` show the rest on the instance TLC checks, not on
every calendar and clock: past them its covering may change with the months or with a
zone's offset, so there the property is a statement about a calendar, not a theorem.

## Plan

What comes next, in order.

1. From which occurrences on an open daily or weekly series whose start is moved shows the
   rest, which would give `WarnsWhereItCompares` those too.
2. Two concurrent calls in `Sharing`, and all three axes in one `manage_calendar` call
   (which holds, in a run too long to keep), on smaller instances.
3. The parsing of dates, times and ranges (`when/`), as operators on fields.

## Not modelled

Rendering and redaction make text of what other parts decided, and their claims are about
wording. Argument schemas and prompts have no state; the parsing of dates and ranges has
tests of its own. HTTP, TLS and JSON are below the level of the models. The gates for
documents, coverage, bundles and release notes read files once and print; `livecal` and
`evals` are linear scripts that drive the built server. Fields of an event no judgement
looks at (conference data, attachments, reminders) are one shared field.
