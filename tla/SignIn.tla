-------------------------------- MODULE SignIn --------------------------------
(***************************************************************************)
(* Signing in and out: the login and logout commands of cmd/               *)
(* google-calendar-mcp/account.go, over the token stores of internal/      *)
(* credentials, the profile's record of internal/userconfig and the OAuth  *)
(* flow of internal/auth.                                                  *)
(*                                                                         *)
(* A command is a process of its own: it may be killed between two steps,  *)
(* and two may run at once.  The keyring may work, answer "nothing"        *)
(* although it holds the token, or fail, and may change in between.        *)
(***************************************************************************)
EXTENDS Integers

CONSTANTS
    Commands,
    Asked,        \* what each command may be, a set of Asks
    Profiles,
    Accounts,     \* who signs in at the browser
    Clients,      \* OAuth client JSON files
    DefaultClient,
    NoToken, Nobody, NoRecord,
    Blank, Torn,  \* a token file cut to nothing, and one that is not JSON
    Before,       \* a login of an earlier day
    Earlier,      \* what earlier days may have left signed in
    MaxTurns,     \* bound: changes of the keyring's health
    MaxCrashes    \* bound: commands killed

Asks ==
    [kind: {"login", "logout"}, profile: Profiles, account: Accounts,
     client: Clients \union {"remembered"}]

ASSUME SignInAssumption ==
    /\ \A c \in Commands : Asked[c] \subseteq Asks
    /\ DefaultClient \in Clients /\ "remembered" \notin Clients
    /\ Nobody \notin Accounts
    /\ MaxTurns \in Nat /\ MaxCrashes \in Nat

\* A refresh token is known by the login that got it; Google revokes the
\* grant, an account's to a client, not one token.
Token == [by: Commands \union {Before}, account: Accounts, client: Clients]
SameGrant(t, u) == t.account = u.account /\ t.client = u.client
ASSUME NoTokenAssumption ==
    /\ NoToken \notin Token /\ Blank \notin Token /\ Torn \notin Token
    /\ NoToken # Blank
Contents == Token \union {NoToken, Blank, Torn}

\* userconfig.Config
Record ==
    [client: Clients, account: Accounts \union {Nobody},
     store: {"keyring", "file"}]
ASSUME NoRecordAssumption == NoRecord \notin Record

Old == {t \in Token : t.by = Before}
Sheet == [keyring: Old \union {NoToken}, file: Old \union {NoToken},
          record: Record \union {NoRecord}]
ASSUME EarlierAssumption ==
    Before \notin Commands /\ Earlier \subseteq [Profiles -> Sheet]

VARIABLES
    keyring,   \* the OS keyring's entry for each profile
    file,      \* each profile's token.json
    temp,      \* token.json.tmp, the one name every login of a profile writes
    handle,    \* where the file that a login has open, while it writes, is now
    sharing,   \* logins beside which another had the temporary file in hand
    record,    \* each profile's config.json
    valid,     \* the refresh tokens Google honours
    ring,      \* how the keyring answers
    cmd,       \* each command's process
    turns, crashes   \* bounds

vars ==
    <<keyring, file, temp, handle, sharing, record, valid, ring, cmd, turns, crashes>>

\* pc, and held, the tokens in the profile's stores when the command began;
\* muted, a silent keyring was asked to delete; told, the person was told
\* the grant was not, or could not be, revoked.
Pcs ==
    {"idle", "browser", "exchange", "save", "drop_file", "open_temp", "write_temp",
     "rename_temp", "inspect", "save_record", "resolve", "revoke", "forget",
     "drop_copy", "drop_record", "done", "killed"}

CommandState ==
    [pc: Pcs, req: Asks, client: Clients, heard: {"none", "code", "refused"},
     tok: Token \union {NoToken}, src: {"none", "keyring", "file"},
     email: Accounts \union {Nobody}, held: SUBSET Token, failed: BOOLEAN,
     muted: BOOLEAN, told: BOOLEAN, outcome: {"none", "ok", "failed"}]

\* What a profile's stores would answer with: a file that does not parse is
\* an error.
Stored(p) == {keyring[p], file[p]} \ {NoToken, Blank, Torn}

Init ==
    /\ \E old \in Earlier :
        /\ keyring = [p \in Profiles |-> old[p].keyring]
        /\ file = [p \in Profiles |-> old[p].file]
        /\ record = [p \in Profiles |-> old[p].record]
        /\ valid = UNION {{old[p].keyring, old[p].file} \ {NoToken} : p \in Profiles}
    /\ temp = [p \in Profiles |-> NoToken]
    /\ handle = [c \in Commands |-> "temp"] /\ sharing = {}
    /\ ring = "works"
    /\ cmd \in
        [Commands -> [pc: {"idle"}, req: Asks, client: {DefaultClient},
            heard: {"none"}, tok: {NoToken}, src: {"none"}, email: {Nobody},
            held: {{}}, failed: {FALSE}, muted: {FALSE}, told: {FALSE},
            outcome: {"none"}]]
    /\ \A c \in Commands : cmd[c].req \in Asked[c]
    /\ turns = 0 /\ crashes = 0

-----------------------------------------------------------------------------
Profile(c) == cmd[c].req.profile
At(c, pc) == cmd[c].pc = pc
Goto(c, pc) == cmd' = [cmd EXCEPT ![c].pc = pc]
\* The process ends, its locals with it.
Exit(c, pc, o) ==
    cmd' = [cmd EXCEPT ![c].pc = pc, ![c].outcome = o, ![c].heard = "none",
                       ![c].src = "none", ![c].email = Nobody,
                       ![c].client = DefaultClient, ![c].failed = FALSE]
End(c, o) == Exit(c, "done", o)
Fail(c) == End(c, "failed") /\ UNCHANGED <<keyring, file, record, valid>>
World == <<ring, turns, crashes>>
Temps == <<temp, handle, sharing>>

\* A login writes to the file it opened, wherever that is now: it may have
\* been renamed into place, replaced there or removed.
Moved(p, place) ==
    [d \in Commands |->
        IF Profile(d) = p /\ At(d, "write_temp") THEN place[handle[d]] ELSE handle[d]]
OnRename == [temp |-> "file", file |-> "gone", gone |-> "gone"]
OnRemove == [temp |-> "temp", file |-> "gone", gone |-> "gone"]
Remove(p) ==
    file' = [file EXCEPT ![p] = NoToken] /\ handle' = Moved(p, OnRemove)

\* ResolveClientSecretPath: the flag's, the remembered one, the default.
ClientPath(r) ==
    IF r.client # "remembered" THEN r.client
    ELSE IF record[r.profile] # NoRecord THEN record[r.profile].client
    ELSE DefaultClient

\* Both commands begin on the profile's record; a login's client JSON, a
\* logout's record may be unreadable, which ends them.
Begin(c) ==
    /\ At(c, "idle")
    /\ \/ cmd' = [cmd EXCEPT
            ![c].pc = IF cmd[c].req.kind = "login" THEN "browser" ELSE "resolve",
            ![c].client = ClientPath(cmd[c].req),
            ![c].held = Stored(Profile(c))]
       \/ End(c, "failed")
    /\ UNCHANGED <<keyring, file, record, valid, Temps, World>>

-----------------------------------------------------------------------------
(* Login.                                                                  *)

\* The loopback handler: the first redirect is delivered, a state that does
\* not match and a denial as an error; the channel holds one.
Redirect(c) ==
    /\ At(c, "browser") /\ cmd[c].heard = "none"
    /\ \E h \in {"code", "refused"} : cmd' = [cmd EXCEPT ![c].heard = h]
    /\ UNCHANGED <<keyring, file, record, valid, Temps, World>>

BrowserNoTimeout(c) ==   \* mutant: the wait for the browser is unbounded
    /\ At(c, "browser") /\ cmd[c].heard # "none"
    /\ IF cmd[c].heard = "code" THEN Goto(c, "exchange") ELSE End(c, "failed")
    /\ UNCHANGED <<keyring, file, record, valid, Temps, World>>

\* The select: the delivered answer, or the deadline.
Browser(c) ==
    /\ At(c, "browser")
    /\ \/ cmd[c].heard = "code" /\ Goto(c, "exchange")
       \/ cmd[c].heard = "refused" /\ End(c, "failed")
       \/ End(c, "failed")
    /\ UNCHANGED <<keyring, file, record, valid, Temps, World>>

\* The code exchange: a token, or an answer lost after Google issued one,
\* or no refresh token.
Exchange(c) ==
    LET t == [by |-> c, account |-> cmd[c].req.account, client |-> cmd[c].client]
    IN
    /\ At(c, "exchange")
    /\ \/ /\ valid' = valid \union {t}
          /\ \/ cmd' = [cmd EXCEPT ![c].pc = "save", ![c].tok = t]
             \/ End(c, "failed")
          /\ UNCHANGED <<keyring, file, record>>
       \/ Fail(c)
    /\ UNCHANGED <<Temps, World>>

SaveFileFirst(c) ==   \* mutant: the old file goes before the keyring is set
    /\ At(c, "save")
    /\ Remove(Profile(c))
    /\ \/ /\ ring # "broken"
          /\ keyring' = [keyring EXCEPT ![Profile(c)] = cmd[c].tok]
          /\ cmd' = [cmd EXCEPT ![c].pc = "drop_file", ![c].src = "keyring"]
       \/ /\ ring # "works"
          /\ cmd' = [cmd EXCEPT ![c].pc = "open_temp", ![c].src = "file"]
          /\ UNCHANGED keyring
    /\ UNCHANGED <<record, valid, temp, sharing, World>>

\* store() reads the record; Save tries the keyring first.  A keyring that
\* answers nothing may still take an entry.
Save(c) ==
    /\ At(c, "save")
    /\ \/ Fail(c)
       \/ /\ ring # "broken"
          /\ keyring' = [keyring EXCEPT ![Profile(c)] = cmd[c].tok]
          /\ cmd' = [cmd EXCEPT ![c].pc = "drop_file", ![c].src = "keyring"]
          /\ UNCHANGED <<file, record, valid>>
       \/ /\ ring # "works"
          /\ cmd' = [cmd EXCEPT ![c].pc = "open_temp", ![c].src = "file"]
          /\ UNCHANGED <<keyring, file, record, valid>>
    /\ UNCHANGED <<Temps, World>>

\* One source of truth; what removeFile answers is dropped.
DropFile(c) ==
    /\ At(c, "drop_file")
    /\ Remove(Profile(c)) \/ UNCHANGED <<file, handle>>
    /\ Goto(c, "inspect")
    /\ UNCHANGED <<keyring, record, valid, temp, sharing, World>>

\* writeFile: os.WriteFile opens the temporary file, whoever made it, and
\* cuts it to nothing; then it writes; then the file is renamed into place.
Writing(c) == cmd[c].pc \in {"write_temp", "rename_temp"}
Beside(c) == {d \in Commands \ {c} : Profile(d) = Profile(c) /\ Writing(d)}

OpenTemp(c) ==
    /\ At(c, "open_temp")
    /\ \/ Fail(c) /\ UNCHANGED Temps
       \/ /\ temp' = [temp EXCEPT ![Profile(c)] = Blank]
          /\ handle' = [handle EXCEPT ![c] = "temp"]
          /\ sharing' =
                sharing \union Beside(c) \union (IF Beside(c) = {} THEN {} ELSE {c})
          /\ Goto(c, "write_temp")
          /\ UNCHANGED <<keyring, file, record, valid>>
    /\ UNCHANGED World

\* Over what another login wrote, the longer of the two shows through.  A
\* write that fails may have written some of it, or all.
WriteTemp(c) ==
    LET p == Profile(c)
        now == IF handle[c] = "temp" THEN temp[p] ELSE file[p]
    IN
    /\ At(c, "write_temp")
    /\ \E left \in {cmd[c].tok, Torn, now} :
        /\ temp' = IF handle[c] = "temp" THEN [temp EXCEPT ![p] = left] ELSE temp
        /\ file' = IF handle[c] = "file" THEN [file EXCEPT ![p] = left] ELSE file
        /\ \/ /\ left = cmd[c].tok \/ (left = Torn /\ now # Blank)
              /\ Goto(c, "rename_temp")
           \/ End(c, "failed")
    /\ UNCHANGED <<keyring, record, valid, handle, sharing, World>>

\* Renamed into place, then restricted to its owner.  The name may be gone,
\* or be another login's file by now.
RenameTemp(c) ==
    LET p == Profile(c) IN
    /\ At(c, "rename_temp")
    /\ \/ Fail(c) /\ UNCHANGED Temps
       \/ /\ temp[p] # NoToken
          /\ file' = [file EXCEPT ![p] = temp[p]]
          /\ temp' = [temp EXCEPT ![p] = NoToken]
          /\ handle' = Moved(p, OnRename)
          /\ Goto(c, "inspect") \/ End(c, "failed")
          /\ sharing' = sharing \ {c}
          /\ UNCHANGED <<keyring, record, valid>>
    /\ UNCHANGED World

\* What the record will name: tokeninfo's address, else the primary
\* calendar's, each of which may be missing.  A tokeninfo that fails leaves
\* the loaded record's.
Inspect(c) ==
    LET old == IF record[Profile(c)] = NoRecord THEN Nobody
               ELSE record[Profile(c)].account
        primary == {Nobody, cmd[c].tok.account}
    IN
    /\ At(c, "inspect")
    /\ \/ \E email \in primary \union (IF old = Nobody THEN {} ELSE {old}) :
            cmd' = [cmd EXCEPT ![c].pc = "save_record", ![c].email = email]
       \/ End(c, "failed")
    /\ UNCHANGED <<keyring, file, record, valid, Temps, World>>

\* Written through a temporary file of one name as well: of two logins that
\* write at once either's record may stay, and one that does not parse is an
\* error to whoever reads it next (Begin, Save, Inspect).
SaveRecord(c) ==
    /\ At(c, "save_record")
    /\ \/ Fail(c)
       \/ \E d \in Commands :
            /\ At(d, "save_record") /\ Profile(d) = Profile(c)
            /\ record' = [record EXCEPT ![Profile(c)] =
                [client |-> cmd[d].client, account |-> cmd[d].email,
                 store |-> cmd[d].src]]
            /\ \E o \in {"ok", "failed"} : End(c, o)
            /\ UNCHANGED <<keyring, file, valid>>
    /\ UNCHANGED <<Temps, World>>

-----------------------------------------------------------------------------
(* Logout.                                                                 *)

\* ResolveStored: what the keyring answers, else what the file holds; an
\* unreadable file is an error, and logout goes on without a token.
Resolved(p) ==
    IF ring = "works" /\ keyring[p] # NoToken THEN {keyring[p]}
    ELSE ({file[p]} \ {Blank, Torn}) \union {NoToken}

Resolve(c) ==
    /\ At(c, "resolve")
    /\ \E t \in Resolved(Profile(c)) :
        cmd' = [cmd EXCEPT ![c].tok = t,
                           ![c].pc = IF t = NoToken THEN "forget" ELSE "revoke"]
    /\ UNCHANGED <<keyring, file, record, valid, Temps, World>>

RevokeOne(c) ==   \* mutant: the profile's own token, and nobody is told
    /\ At(c, "revoke")
    /\ valid' \in {valid, valid \ {cmd[c].tok}}
    /\ Goto(c, "forget")
    /\ UNCHANGED <<keyring, file, record, Temps, World>>

\* Revoke: the whole grant, or an error, after which it may have ended too.
Revoke(c) ==
    LET rest == {t \in valid : ~SameGrant(t, cmd[c].tok)} IN
    /\ At(c, "revoke")
    /\ \/ valid' = rest /\ cmd[c].tok \in valid /\ Goto(c, "forget")
       \/ /\ valid' \in {valid, rest}
          /\ cmd' = [cmd EXCEPT ![c].pc = "forget", ![c].told = TRUE]
    /\ UNCHANGED <<keyring, file, record, Temps, World>>

ForgetQuietly(c) ==   \* mutant: the keyring's error is dropped
    /\ At(c, "forget")
    /\ keyring' = IF ring = "works" THEN [keyring EXCEPT ![Profile(c)] = NoToken]
                  ELSE keyring
    /\ cmd' = [cmd EXCEPT ![c].pc = "drop_copy", ![c].muted = (ring = "silent")]
    /\ UNCHANGED <<file, record, valid, Temps, World>>

\* Store.Delete: a missing entry is fine, which is also what a silent
\* keyring answers; an error does not keep the file.
Forget(c) ==
    /\ At(c, "forget")
    /\ keyring' = IF ring = "works" THEN [keyring EXCEPT ![Profile(c)] = NoToken]
                  ELSE keyring
    /\ cmd' = [cmd EXCEPT ![c].pc = "drop_copy", ![c].failed = (ring = "broken"),
                          ![c].muted = (ring = "silent")]
    /\ UNCHANGED <<file, record, valid, Temps, World>>

DropCopy(c) ==
    /\ At(c, "drop_copy")
    /\ \/ /\ Remove(Profile(c))
          /\ IF cmd[c].failed THEN End(c, "failed") ELSE Goto(c, "drop_record")
          /\ UNCHANGED <<keyring, record, valid>>
       \/ Fail(c) /\ UNCHANGED handle
    /\ UNCHANGED <<temp, sharing, World>>

DropRecord(c) ==
    /\ At(c, "drop_record")
    /\ \/ /\ record' = [record EXCEPT ![Profile(c)] = NoRecord]
          /\ End(c, "ok")
          /\ UNCHANGED <<keyring, file, valid>>
       \/ Fail(c)
    /\ UNCHANGED <<Temps, World>>

-----------------------------------------------------------------------------
\* The process is killed.
Kill(c) ==
    /\ cmd[c].pc \notin {"idle", "done", "killed"} /\ crashes < MaxCrashes
    /\ Exit(c, "killed", "none")
    /\ crashes' = crashes + 1
    /\ UNCHANGED <<keyring, file, record, valid, Temps, ring, turns>>

\* The keyring is locked, unlocked, lost or found.
RingTurns ==
    /\ turns < MaxTurns
    /\ ring' \in {"works", "silent", "broken"} \ {ring}
    /\ turns' = turns + 1
    /\ UNCHANGED <<keyring, file, record, valid, Temps, cmd, crashes>>

LoginStep(c) ==
    \/ Browser(c) \/ Exchange(c) \/ Save(c) \/ DropFile(c)
    \/ OpenTemp(c) \/ WriteTemp(c) \/ RenameTemp(c)
    \/ Inspect(c) \/ SaveRecord(c)

LogoutStep(c) ==
    Resolve(c) \/ Revoke(c) \/ Forget(c) \/ DropCopy(c) \/ DropRecord(c)

Step(c) == Begin(c) \/ LoginStep(c) \/ LogoutStep(c)

Next ==
    \/ \E c \in Commands : Step(c) \/ Redirect(c) \/ Kill(c)
    \/ RingTurns

\* A command that runs goes on: every request has a timeout and the file
\* system answers.  Nobody need finish at the browser.
Fairness == \A c \in Commands : WF_vars(Step(c))

Spec == Init /\ [][Next]_vars /\ Fairness

-----------------------------------------------------------------------------
(* Properties.                                                             *)

TypeOK ==
    /\ keyring \in [Profiles -> Token \union {NoToken}]
    /\ file \in [Profiles -> Contents] /\ temp \in [Profiles -> Contents]
    /\ handle \in [Commands -> {"temp", "file", "gone"}] /\ sharing \subseteq Commands
    /\ record \in [Profiles -> Record \union {NoRecord}]
    /\ valid \subseteq Token
    /\ ring \in {"works", "silent", "broken"}
    /\ cmd \in [Commands -> CommandState]
    /\ turns \in 0 .. MaxTurns /\ crashes \in 0 .. MaxCrashes

SignsOut(p) ==
    \E c \in Commands :
        Profile(c) = p /\ cmd[c].req.kind = "logout" /\ ~At(c, "idle")

\* A login is at the temporary file while, or after, another of the profile
\* was: they write one name, and neither locks it.
TwoAtTheFile(p) == \E c \in sharing : Profile(c) = p /\ Writing(c)

\* Until somebody runs a logout, a login, whatever fails in it, wherever it
\* is killed and whichever other login runs beside it, leaves a token in the
\* profile's stores if there was one: unless two of them came to write the
\* token's temporary file at once, when one may rename, or write into, the
\* half-written file of the other.  (Save sets the keyring before it removes
\* the file, and replaces the file by a rename.)
LoginNeverSignsOut ==
    [][\A p \in Profiles :
        Stored(p) # {} /\ Stored(p)' = {} => SignsOut(p) \/ TwoAtTheFile(p)]_vars

Answered(c, kind) ==
    cmd[c].req.kind = kind /\ cmd[c].pc = "done" /\ cmd[c].outcome = "ok"

\* "Signed out" is true of every token the profile's stores held when the
\* logout began, whatever logins and logouts ran beside it, unless the
\* keyring was silent when it was asked to delete: that answer is the one
\* of a keyring with no entry.
SignedOutForgets ==
    \A c \in Commands :
        Answered(c, "logout") /\ ~cmd[c].muted
            => cmd[c].held \intersect Stored(Profile(c)) = {}

\* Revoking ends the grant of the token the logout read before the local
\* copies go, and so every token of that grant the profile had; otherwise
\* the person is told.
RevokedOrTold ==
    \A c \in Commands :
        cmd[c].pc \in {"forget", "drop_copy", "drop_record"} /\ cmd[c].tok # NoToken
            => \/ cmd[c].told
               \/ \A t \in cmd[c].held \intersect valid : ~SameGrant(t, cmd[c].tok)

\* Every command that is not killed ends, though nobody answers the browser.
AllEnded == \A c \in Commands : <>(cmd[c].pc \in {"done", "killed"})
=============================================================================
