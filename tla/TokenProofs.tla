----------------------------- MODULE TokenProofs -----------------------------
(***************************************************************************)
(* Proofs about the tokens that are kept between calls and between runs:   *)
(* about SignIn, for any commands, profiles, accounts, clients and bounds, *)
(* and any earlier sign-ins; and about Changes, for any events, budgets    *)
(* and bounds: a sync token covers only what was reported.                 *)
(***************************************************************************)
EXTENDS SignIn, Changes, TLAPS

-----------------------------------------------------------------------------
(* SignIn: the inductive invariant.                                        *)

LoginPcs ==
    {"browser", "exchange", "save", "drop_file", "open_temp", "write_temp",
     "rename_temp", "inspect", "save_record"}
LogoutPcs == {"resolve", "revoke", "forget", "drop_copy", "drop_record"}

Kind(c) == cmd[c].req.kind

KindFits ==
    \A c \in Commands :
        /\ cmd[c].pc \in LoginPcs => Kind(c) = "login"
        /\ cmd[c].pc \in LogoutPcs => Kind(c) = "logout"

\* A login that has its token has its own.
Saved ==
    {"drop_file", "open_temp", "write_temp", "rename_temp", "inspect", "save_record"}
HasToken ==
    \A c \in Commands :
        /\ cmd[c].pc \in Saved \union {"save"}
            => cmd[c].tok \in Token /\ cmd[c].tok.by = c
        /\ cmd[c].pc \in Saved => cmd[c].src \in {"keyring", "file"}
        /\ cmd[c].pc = "revoke" => cmd[c].tok \in Token

\* Before a login has stored its token nobody holds it.
Early == {"idle", "browser", "exchange", "save", "open_temp", "write_temp"}
NotYet ==
    \A c \in Commands : cmd[c].pc \in Early =>
        /\ \A p \in Profiles : \A t \in Stored(p) : t.by # c
        /\ \A p \in Profiles : temp[p] \in Token => temp[p].by # c
        /\ \A d \in Commands : \A t \in cmd[d].held : t.by # c

\* Nor anybody what is in the temporary file still, a login's of the profile.
NotYetNamed ==
    \A p \in Profiles : temp[p] \in Token =>
        /\ temp[p].by \in Commands /\ Profile(temp[p].by) = p
        /\ \A q \in Profiles : \A t \in Stored(q) : t.by # temp[p].by
        /\ \A d \in Commands : \A t \in cmd[d].held : t.by # temp[p].by

\* A login that is alone at the temporary file finds there what it wrote.
Alone ==
    \A c \in Commands :
        /\ Writing(c) /\ Beside(c) # {} => c \in sharing
        /\ c \notin sharing =>
            /\ At(c, "write_temp") => handle[c] = "temp" /\ temp[Profile(c)] = Blank
            /\ At(c, "rename_temp") => temp[Profile(c)] = cmd[c].tok

\* The file is removed behind a keyring entry, unless a logout took it.
Behind ==
    \A c \in Commands :
        cmd[c].pc = "drop_file" /\ ~SignsOut(Profile(c))
            => keyring[Profile(c)] # NoToken

Forgotten ==
    \A c \in Commands : ~cmd[c].muted =>
        /\ cmd[c].pc = "drop_copy" /\ ~cmd[c].failed
            => keyring[Profile(c)] \notin cmd[c].held
        /\ cmd[c].pc = "drop_record" \/ Answered(c, "logout")
            => cmd[c].held \intersect Stored(Profile(c)) = {}

TypeInv == TypeOK /\ HasToken
IInv ==
    /\ KindFits /\ NotYet /\ NotYetNamed /\ Alone /\ Behind /\ Forgotten
    /\ RevokedOrTold

-----------------------------------------------------------------------------
(* What one step of a command does to its process, k, and to the rest.     *)

Quiet == UNCHANGED <<keyring, file, record, valid, Temps>>

\* It ends without an answer, or waits, or goes on, and touches nothing.
Aborts(c, k) ==
    /\ Quiet /\ k.pc \in {"done", "killed"} /\ k.outcome # "ok"
    /\ k.held = cmd[c].held
GoesOn(c, k) ==
    /\ Quiet /\ k.tok = cmd[c].tok
    /\ <<cmd[c].pc, k.pc>> \in
        {<<"browser", "browser">>, <<"browser", "exchange">>,
         <<"save", "open_temp">>, <<"inspect", "save_record">>}
Begins(c, k) ==
    /\ Quiet /\ cmd[c].pc = "idle" /\ k.held = Stored(Profile(c))
    /\ k.pc = IF Kind(c) = "login" THEN "browser" ELSE "resolve"

Issues(c, k) ==
    /\ cmd[c].pc = "exchange" /\ UNCHANGED <<keyring, file, record, Temps>>
    /\ \E t \in Token :
        /\ t.by = c /\ valid' = valid \union {t}
        /\ (k.pc = "save" /\ k.tok = t) \/ (k.pc = "done" /\ k.outcome = "failed")
Sets(c, k) ==
    /\ cmd[c].pc = "save" /\ k.pc = "drop_file" /\ k.tok = cmd[c].tok
    /\ keyring' = [keyring EXCEPT ![Profile(c)] = cmd[c].tok]
    /\ UNCHANGED <<file, record, valid, Temps>>
Drops(c, k) ==
    /\ cmd[c].pc = "drop_file" /\ k.pc = "inspect" /\ k.tok = cmd[c].tok
    /\ Remove(Profile(c)) \/ UNCHANGED <<file, handle>>
    /\ UNCHANGED <<keyring, record, valid, temp, sharing>>
Opens(c, k) ==
    /\ cmd[c].pc = "open_temp" /\ k.pc = "write_temp" /\ k.tok = cmd[c].tok
    /\ temp' = [temp EXCEPT ![Profile(c)] = Blank]
    /\ handle' = [handle EXCEPT ![c] = "temp"]
    /\ sharing' = sharing \union Beside(c) \union (IF Beside(c) = {} THEN {} ELSE {c})
    /\ UNCHANGED <<keyring, file, record, valid>>
Now(c) == IF handle[c] = "temp" THEN temp[Profile(c)] ELSE file[Profile(c)]
Puts(c, k) ==
    /\ cmd[c].pc = "write_temp" /\ k.tok = cmd[c].tok
    /\ \E left \in {cmd[c].tok, Torn, Now(c)} :
        /\ temp' = IF handle[c] = "temp" THEN [temp EXCEPT ![Profile(c)] = left] ELSE temp
        /\ file' = IF handle[c] = "file" THEN [file EXCEPT ![Profile(c)] = left] ELSE file
        /\ \/ /\ left = cmd[c].tok \/ (left = Torn /\ Now(c) # Blank)
              /\ k.pc = "rename_temp"
           \/ k.pc = "done" /\ k.outcome = "failed"
    /\ UNCHANGED <<keyring, record, valid, handle, sharing>>
Renames(c, k) ==
    /\ cmd[c].pc = "rename_temp" /\ k.tok = cmd[c].tok
    /\ k.pc = "inspect" \/ (k.pc = "done" /\ k.outcome = "failed")
    /\ temp[Profile(c)] # NoToken
    /\ file' = [file EXCEPT ![Profile(c)] = temp[Profile(c)]]
    /\ temp' = [temp EXCEPT ![Profile(c)] = NoToken]
    /\ handle' = Moved(Profile(c), OnRename) /\ sharing' = sharing \ {c}
    /\ UNCHANGED <<keyring, record, valid>>
Records(c, k) ==
    /\ cmd[c].pc = "save_record" /\ k.pc = "done"
    /\ record' \in [Profiles -> Record \union {NoRecord}]
    /\ UNCHANGED <<keyring, file, valid, Temps>>

Resolves(c, k) ==
    /\ Quiet /\ cmd[c].pc = "resolve" /\ k.tok \in Token \union {NoToken}
    /\ k.pc = IF k.tok = NoToken THEN "forget" ELSE "revoke"
Revokes(c, k) ==
    /\ cmd[c].pc = "revoke" /\ k.pc = "forget" /\ k.tok = cmd[c].tok
    /\ valid' \subseteq valid /\ UNCHANGED <<keyring, file, record, Temps>>
    /\ k.told \/ \A t \in valid' : ~SameGrant(t, cmd[c].tok)
Forgets(c, k) ==
    /\ cmd[c].pc = "forget" /\ k.pc = "drop_copy"
    /\ k.tok = cmd[c].tok /\ k.told = cmd[c].told
    /\ keyring' \in {keyring, [keyring EXCEPT ![Profile(c)] = NoToken]}
    /\ k.failed \/ k.muted \/ keyring' = [keyring EXCEPT ![Profile(c)] = NoToken]
    /\ UNCHANGED <<file, record, valid, Temps>>
DropsCopy(c, k) ==
    /\ cmd[c].pc = "drop_copy" /\ k.tok = cmd[c].tok /\ k.told = cmd[c].told
    /\ k.muted = cmd[c].muted
    /\ \/ k.pc = "done" /\ k.outcome = "failed"
       \/ k.pc = "drop_record" /\ ~cmd[c].failed
    /\ Remove(Profile(c))
    /\ UNCHANGED <<keyring, record, valid, temp, sharing>>
DropsRecord(c, k) ==
    /\ cmd[c].pc = "drop_record" /\ k.pc = "done" /\ k.muted = cmd[c].muted
    /\ record' \in [Profiles -> Record \union {NoRecord}]
    /\ UNCHANGED <<keyring, file, valid, Temps>>

Moves(c, k) ==
    /\ cmd' = [cmd EXCEPT ![c] = k] /\ k.req = cmd[c].req
    /\ cmd[c].pc # "idle" => k.held = cmd[c].held
    /\ k.pc \in {"drop_file", "open_temp"} => k.src \in {"keyring", "file"}
    /\ k.pc \in Saved \ {"drop_file", "open_temp"} => k.src = cmd[c].src
    /\ \/ Aborts(c, k) \/ GoesOn(c, k) \/ Begins(c, k)
       \/ Issues(c, k) \/ Sets(c, k) \/ Drops(c, k)
       \/ Opens(c, k) \/ Puts(c, k) \/ Renames(c, k) \/ Records(c, k)
       \/ Resolves(c, k) \/ Revokes(c, k) \/ Forgets(c, k)
       \/ DropsCopy(c, k) \/ DropsRecord(c, k)

\* One field of a process at a time.
LEMMA FieldTypes ==
    ASSUME NEW k \in CommandState
    PROVE  /\ \A x \in Pcs : [k EXCEPT !.pc = x] \in CommandState
           /\ \A x \in Clients : [k EXCEPT !.client = x] \in CommandState
           /\ \A x \in {"none", "code", "refused"} :
                [k EXCEPT !.heard = x] \in CommandState
           /\ \A x \in Token \union {NoToken} : [k EXCEPT !.tok = x] \in CommandState
           /\ \A x \in {"none", "keyring", "file"} :
                [k EXCEPT !.src = x] \in CommandState
           /\ \A x \in Accounts \union {Nobody} : [k EXCEPT !.email = x] \in CommandState
           /\ \A x \in SUBSET Token : [k EXCEPT !.held = x] \in CommandState
           /\ \A x \in BOOLEAN : /\ [k EXCEPT !.failed = x] \in CommandState
                                 /\ [k EXCEPT !.muted = x] \in CommandState
                                 /\ [k EXCEPT !.told = x] \in CommandState
           /\ \A x \in {"none", "ok", "failed"} :
                [k EXCEPT !.outcome = x] \in CommandState
BY DEF CommandState

\* What the types say of one command's process.
LEMMA ProcessType ==
    ASSUME TypeInv, NEW c \in Commands
    PROVE  /\ cmd[c] \in CommandState
           /\ Profile(c) \in Profiles /\ cmd[c].req \in Asks
           /\ cmd[c].req.account \in Accounts /\ cmd[c].req.client \in Clients \union {"remembered"}
           /\ cmd[c].tok \in Token \union {NoToken} /\ cmd[c].client \in Clients
           /\ cmd[c].src \in {"none", "keyring", "file"}
           /\ cmd[c].email \in Accounts \union {Nobody}
           /\ keyring[Profile(c)] \in Token \union {NoToken}
           /\ file[Profile(c)] \in Contents /\ temp[Profile(c)] \in Contents
           /\ record[Profile(c)] \in Record \union {NoRecord}
           /\ Stored(Profile(c)) \in SUBSET Token
<1>1. cmd[c] \in CommandState BY DEF TypeInv, TypeOK
<1>2. cmd[c].req \in Asks BY <1>1 DEF CommandState
<1>3. Profile(c) \in Profiles BY <1>2 DEF Asks, Profile
<1>4. keyring[Profile(c)] \in Token \union {NoToken} /\ file[Profile(c)] \in Contents
      /\ temp[Profile(c)] \in Contents /\ record[Profile(c)] \in Record \union {NoRecord}
    BY <1>3 DEF TypeInv, TypeOK
<1>5. Stored(Profile(c)) \in SUBSET Token BY <1>4 DEF Stored, Contents
<1> QED BY <1>1, <1>2, <1>3, <1>4, <1>5 DEF CommandState, Asks

\* A process that ends.
LEMMA ExitMoves ==
    ASSUME TypeInv, NEW c \in Commands, NEW pc \in {"done", "killed"},
           NEW o \in {"none", "ok", "failed"}, Exit(c, pc, o)
    PROVE  \E k \in CommandState :
            /\ cmd' = [cmd EXCEPT ![c] = k] /\ k.req = cmd[c].req
            /\ k.held = cmd[c].held /\ k.tok = cmd[c].tok /\ k.told = cmd[c].told
            /\ k.muted = cmd[c].muted /\ k.pc = pc /\ k.outcome = o
<1> DEFINE a == [cmd[c] EXCEPT !.pc = pc]
           b == [a EXCEPT !.outcome = o]
           d == [b EXCEPT !.heard = "none"]
           e == [d EXCEPT !.src = "none"]
           f == [e EXCEPT !.email = Nobody]
           g == [f EXCEPT !.client = DefaultClient]
           k == [g EXCEPT !.failed = FALSE]
<1>1. cmd[c] \in CommandState /\ DefaultClient \in Clients
    BY ProcessType, SignInAssumption
<1>2. a \in CommandState BY <1>1, FieldTypes DEF Pcs
<1>3. b \in CommandState BY <1>2, FieldTypes
<1>4. d \in CommandState BY <1>3, FieldTypes
<1>5. e \in CommandState BY <1>4, FieldTypes
<1>6. f \in CommandState BY <1>5, FieldTypes
<1>7. g \in CommandState BY <1>1, <1>6, FieldTypes
<1>8. k \in CommandState BY <1>7, FieldTypes
<1>9. cmd' = [cmd EXCEPT ![c] = k] BY DEF Exit, TypeInv, TypeOK
<1>10. /\ k.req = cmd[c].req /\ k.held = cmd[c].held /\ k.tok = cmd[c].tok
       /\ k.told = cmd[c].told /\ k.muted = cmd[c].muted /\ k.pc = pc /\ k.outcome = o
    BY <1>1 DEF CommandState
<1> QED BY <1>8, <1>9, <1>10

\* A command that fails.
LEMMA FailMoves ==
    ASSUME TypeInv, NEW c \in Commands, End(c, "failed"), Quiet
    PROVE  \E k \in CommandState : Moves(c, k)
BY ExitMoves DEF End, Moves, Saved, Aborts

LEMMA BeginMoves ==
    ASSUME TypeInv, NEW c \in Commands, Begin(c)
    PROVE  \E k \in CommandState : Moves(c, k)
<1> DEFINE pc == IF cmd[c].req.kind = "login" THEN "browser" ELSE "resolve"
           client == ClientPath(cmd[c].req)
           heldNow == Stored(Profile(c))
           a == [cmd[c] EXCEPT !.pc = pc]
           b == [a EXCEPT !.client = client]
           k == [b EXCEPT !.held = heldNow]
<1>1. client \in Clients
    <2>1. DefaultClient \in Clients BY SignInAssumption
    <2>2. record[cmd[c].req.profile] \in Record \union {NoRecord}
          /\ cmd[c].req.client \in Clients \union {"remembered"}
        BY ProcessType DEF Profile
    <2> QED BY <2>1, <2>2 DEF ClientPath, Record
<1>2. cmd[c] \in CommandState /\ heldNow \in SUBSET Token BY ProcessType
<1>3. a \in CommandState BY <1>2, FieldTypes DEF Pcs
<1>4. b \in CommandState BY <1>1, <1>3, FieldTypes
<1>5. k \in CommandState BY <1>2, <1>4, FieldTypes
<1>6. CASE End(c, "failed") BY <1>6, FailMoves DEF Begin, Quiet
<1>7. CASE ~End(c, "failed")
    <2>1. cmd' = [cmd EXCEPT ![c] = k] BY <1>7 DEF Begin, TypeInv, TypeOK
    <2>2. /\ k.req = cmd[c].req /\ k.held = heldNow /\ k.pc = pc
          /\ k.pc \notin Saved
        BY <1>2 DEF CommandState, Saved
    <2>3. Quiet /\ cmd[c].pc = "idle" BY DEF Begin, Quiet, At
    <2>4. Begins(c, k) BY <2>2, <2>3 DEF Begins, Kind
    <2> HIDE DEF k, pc, heldNow
    <2> QED BY <1>5, <2>1, <2>2, <2>3, <2>4 DEF Moves, Saved
<1> QED BY <1>6, <1>7

LEMMA BrowserMoves ==
    ASSUME TypeInv, NEW c \in Commands, Redirect(c) \/ Browser(c)
    PROVE  \E k \in CommandState : Moves(c, k)
<1>1. cmd[c] \in CommandState BY ProcessType
<1>2. CASE Redirect(c)
    <2>1. PICK h \in {"code", "refused"} : cmd' = [cmd EXCEPT ![c].heard = h]
        BY <1>2 DEF Redirect
    <2> DEFINE k == [cmd[c] EXCEPT !.heard = h]
    <2>2. k \in CommandState BY <1>1, FieldTypes
    <2>3. cmd' = [cmd EXCEPT ![c] = k] BY <2>1 DEF TypeInv, TypeOK
    <2>4. k.req = cmd[c].req /\ k.held = cmd[c].held /\ k.tok = cmd[c].tok
          /\ k.pc = "browser" /\ cmd[c].pc = "browser" /\ Quiet
        BY <1>1, <1>2 DEF CommandState, Redirect, At, Quiet
    <2> QED BY <2>2, <2>3, <2>4 DEF Moves, Saved, GoesOn
<1>3. CASE Browser(c)
    <2>1. CASE End(c, "failed") BY <1>3, <2>1, FailMoves DEF Browser, Quiet
    <2>2. CASE Goto(c, "exchange")
        <3> DEFINE k == [cmd[c] EXCEPT !.pc = "exchange"]
        <3>1. k \in CommandState BY <1>1, FieldTypes DEF Pcs
        <3>2. cmd' = [cmd EXCEPT ![c] = k] BY <2>2 DEF TypeInv, TypeOK, Goto
        <3>3. k.req = cmd[c].req /\ k.held = cmd[c].held /\ k.tok = cmd[c].tok
              /\ k.pc = "exchange" /\ cmd[c].pc = "browser" /\ Quiet
            BY <1>1, <1>3 DEF CommandState, Browser, At, Quiet
        <3> QED BY <3>1, <3>2, <3>3 DEF Moves, Saved, GoesOn
    <2> QED BY <1>3, <2>1, <2>2 DEF Browser
<1> QED BY <1>2, <1>3

LEMMA ExchangeMoves ==
    ASSUME TypeInv, NEW c \in Commands, Exchange(c)
    PROVE  \E k \in CommandState : Moves(c, k)
<1> DEFINE t == [by |-> c, account |-> cmd[c].req.account, client |-> cmd[c].client]
           a == [cmd[c] EXCEPT !.pc = "save"]
           k == [a EXCEPT !.tok = t]
<1>1. cmd[c] \in CommandState BY ProcessType
<1>2. t \in Token /\ t.by = c BY ProcessType DEF Token
<1>3. a \in CommandState BY <1>1, FieldTypes DEF Pcs
<1>4. k \in CommandState BY <1>2, <1>3, FieldTypes
<1>5. cmd[c].pc = "exchange" BY DEF Exchange, At
<1>8. UNCHANGED Temps BY DEF Exchange
<1>6. CASE Fail(c) BY <1>6, <1>8, FailMoves DEF Fail, Quiet
<1>7. CASE ~Fail(c)
    <2>1. valid' = valid \union {t} /\ UNCHANGED <<keyring, file, record>>
        BY <1>7 DEF Exchange
    <2>2. CASE End(c, "failed")
        <3>1. PICK j \in CommandState :
                cmd' = [cmd EXCEPT ![c] = j] /\ j.req = cmd[c].req
                /\ j.held = cmd[c].held /\ j.pc = "done" /\ j.outcome = "failed"
            BY <2>2, ExitMoves DEF End
        <3>2. Issues(c, j) BY <1>2, <1>5, <1>8, <2>1, <3>1 DEF Issues
        <3> QED BY <3>1, <3>2 DEF Moves, Saved
    <2>3. CASE ~End(c, "failed")
        <3>1. cmd' = [cmd EXCEPT ![c] = k]
            BY <1>7, <2>3 DEF Exchange, TypeInv, TypeOK
        <3>2. k.req = cmd[c].req /\ k.held = cmd[c].held /\ k.pc = "save" /\ k.tok = t
            BY <1>1, <1>2 DEF CommandState
        <3>3. Issues(c, k) BY <1>2, <1>5, <1>8, <2>1, <3>2 DEF Issues
        <3> QED BY <1>4, <3>1, <3>2, <3>3 DEF Moves, Saved
    <2> QED BY <2>2, <2>3
<1> QED BY <1>6, <1>7

LEMMA SaveMoves ==
    ASSUME TypeInv, NEW c \in Commands, Save(c)
    PROVE  \E k \in CommandState : Moves(c, k)
<1>1. cmd[c] \in CommandState BY ProcessType
<1>8. UNCHANGED Temps BY DEF Save
<1>2. CASE Fail(c) BY <1>2, <1>8, FailMoves DEF Fail, Quiet
<1>3. ASSUME NEW pc \in {"drop_file", "open_temp"}, NEW src \in {"keyring", "file"},
             cmd' = [cmd EXCEPT ![c].pc = pc, ![c].src = src]
      PROVE  \E k \in CommandState :
                /\ cmd' = [cmd EXCEPT ![c] = k] /\ k.req = cmd[c].req
                /\ k.held = cmd[c].held /\ k.tok = cmd[c].tok /\ k.pc = pc
                /\ k.src = src
    <2> DEFINE a == [cmd[c] EXCEPT !.pc = pc]
               k == [a EXCEPT !.src = src]
    <2>1. a \in CommandState BY <1>1, FieldTypes DEF Pcs
    <2>2. k \in CommandState BY <2>1, FieldTypes
    <2>3. cmd' = [cmd EXCEPT ![c] = k] BY <1>3 DEF TypeInv, TypeOK
    <2>4. /\ k.req = cmd[c].req /\ k.held = cmd[c].held /\ k.tok = cmd[c].tok
          /\ k.pc = pc /\ k.src = src
        BY <1>1 DEF CommandState
    <2> QED BY <2>2, <2>3, <2>4
<1>4. cmd[c].pc = "save" BY DEF Save, At
<1>5. CASE ring # "broken" /\ ~Fail(c)
           /\ cmd' = [cmd EXCEPT ![c].pc = "drop_file", ![c].src = "keyring"]
    BY <1>3, <1>4, <1>5 DEF Save, Moves, Saved, Sets, GoesOn, Quiet
<1>6. CASE ~Fail(c)
           /\ cmd' = [cmd EXCEPT ![c].pc = "open_temp", ![c].src = "file"]
    BY <1>3, <1>4, <1>6 DEF Save, Moves, Saved, Sets, GoesOn, Quiet
<1> QED BY <1>2, <1>5, <1>6 DEF Save

\* A command that goes on to another step of its own, with no more changed.
LEMMA GotoMoves ==
    ASSUME TypeInv, NEW c \in Commands, NEW pc \in Pcs, Goto(c, pc)
    PROVE  \E k \in CommandState :
            /\ cmd' = [cmd EXCEPT ![c] = k] /\ k.req = cmd[c].req
            /\ k.held = cmd[c].held /\ k.tok = cmd[c].tok /\ k.told = cmd[c].told
            /\ k.muted = cmd[c].muted /\ k.pc = pc /\ k.src = cmd[c].src
<1> DEFINE k == [cmd[c] EXCEPT !.pc = pc]
<1>1. cmd[c] \in CommandState BY ProcessType
<1>2. k \in CommandState BY <1>1, FieldTypes
<1>3. cmd' = [cmd EXCEPT ![c] = k] BY DEF Goto, TypeInv, TypeOK
<1>4. /\ k.req = cmd[c].req /\ k.held = cmd[c].held /\ k.tok = cmd[c].tok
      /\ k.told = cmd[c].told /\ k.muted = cmd[c].muted /\ k.pc = pc
      /\ k.src = cmd[c].src
    BY <1>1 DEF CommandState
<1> QED BY <1>2, <1>3, <1>4

LEMMA DropFileMoves ==
    ASSUME TypeInv, NEW c \in Commands, DropFile(c)
    PROVE  \E k \in CommandState : Moves(c, k)
<1>1. Goto(c, "inspect") /\ "inspect" \in Pcs BY DEF DropFile, Pcs
<1> QED BY <1>1, GotoMoves DEF DropFile, At, Moves, Saved, Drops

\* The three steps of writing the file.
LEMMA OpenTempMoves ==
    ASSUME TypeInv, NEW c \in Commands, OpenTemp(c)
    PROVE  \E k \in CommandState : Moves(c, k)
<1>1. CASE Fail(c) /\ UNCHANGED Temps BY <1>1, FailMoves DEF Fail, Quiet
<1>2. CASE ~(Fail(c) /\ UNCHANGED Temps)
    <2>1. Goto(c, "write_temp") BY <1>2 DEF OpenTemp
    <2>2. PICK k \in CommandState :
            /\ cmd' = [cmd EXCEPT ![c] = k] /\ k.req = cmd[c].req
            /\ k.held = cmd[c].held /\ k.tok = cmd[c].tok /\ k.pc = "write_temp"
            /\ k.src = cmd[c].src
        BY <2>1, GotoMoves DEF Pcs
    <2>3. Opens(c, k) BY <1>2, <2>2 DEF OpenTemp, At, Opens
    <2> QED BY <2>2, <2>3 DEF Moves, Saved
<1> QED BY <1>1, <1>2

LEMMA WriteTempMoves ==
    ASSUME TypeInv, NEW c \in Commands, WriteTemp(c)
    PROVE  \E k \in CommandState : Moves(c, k)
<1>1. PICK left \in {cmd[c].tok, Torn, Now(c)} :
        /\ temp' = IF handle[c] = "temp" THEN [temp EXCEPT ![Profile(c)] = left] ELSE temp
        /\ file' = IF handle[c] = "file" THEN [file EXCEPT ![Profile(c)] = left] ELSE file
        /\ \/ /\ left = cmd[c].tok \/ (left = Torn /\ Now(c) # Blank)
              /\ Goto(c, "rename_temp")
           \/ End(c, "failed")
    BY DEF WriteTemp, Now
<1>2. cmd[c].pc = "write_temp" /\ UNCHANGED <<keyring, record, valid, handle, sharing>>
    BY DEF WriteTemp, At
<1>3. CASE Goto(c, "rename_temp") /\ (left = cmd[c].tok \/ (left = Torn /\ Now(c) # Blank))
    <2>1. PICK k \in CommandState :
            /\ cmd' = [cmd EXCEPT ![c] = k] /\ k.req = cmd[c].req
            /\ k.held = cmd[c].held /\ k.tok = cmd[c].tok /\ k.pc = "rename_temp"
            /\ k.src = cmd[c].src
        BY <1>3, GotoMoves DEF Pcs
    <2>2. Puts(c, k) BY <1>1, <1>2, <1>3, <2>1 DEF Puts
    <2> QED BY <1>2, <2>1, <2>2 DEF Moves, Saved
<1>4. CASE End(c, "failed")
    <2>1. PICK k \in CommandState :
            /\ cmd' = [cmd EXCEPT ![c] = k] /\ k.req = cmd[c].req
            /\ k.held = cmd[c].held /\ k.tok = cmd[c].tok /\ k.pc = "done"
            /\ k.outcome = "failed"
        BY <1>4, ExitMoves DEF End
    <2>2. Puts(c, k) BY <1>1, <1>2, <2>1 DEF Puts
    <2> QED BY <1>2, <2>1, <2>2 DEF Moves, Saved
<1> QED BY <1>1, <1>3, <1>4

LEMMA RenameTempMoves ==
    ASSUME TypeInv, NEW c \in Commands, RenameTemp(c)
    PROVE  \E k \in CommandState : Moves(c, k)
<1>1. CASE Fail(c) /\ UNCHANGED Temps BY <1>1, FailMoves DEF Fail, Quiet
<1>2. CASE ~(Fail(c) /\ UNCHANGED Temps)
    <2>1. /\ cmd[c].pc = "rename_temp" /\ temp[Profile(c)] # NoToken
          /\ file' = [file EXCEPT ![Profile(c)] = temp[Profile(c)]]
          /\ temp' = [temp EXCEPT ![Profile(c)] = NoToken]
          /\ handle' = Moved(Profile(c), OnRename) /\ sharing' = sharing \ {c}
          /\ UNCHANGED <<keyring, record, valid>>
        BY <1>2 DEF RenameTemp, At
    <2>2. CASE Goto(c, "inspect")
        <3>1. PICK k \in CommandState :
                /\ cmd' = [cmd EXCEPT ![c] = k] /\ k.req = cmd[c].req
                /\ k.held = cmd[c].held /\ k.tok = cmd[c].tok /\ k.pc = "inspect"
                /\ k.src = cmd[c].src
            BY <2>2, GotoMoves DEF Pcs
        <3>2. Renames(c, k) BY <2>1, <3>1 DEF Renames
        <3> QED BY <2>1, <3>1, <3>2 DEF Moves, Saved
    <2>3. CASE End(c, "failed")
        <3>1. PICK k \in CommandState :
                /\ cmd' = [cmd EXCEPT ![c] = k] /\ k.req = cmd[c].req
                /\ k.held = cmd[c].held /\ k.tok = cmd[c].tok /\ k.pc = "done"
                /\ k.outcome = "failed"
            BY <2>3, ExitMoves DEF End
        <3>2. Renames(c, k) BY <2>1, <3>1 DEF Renames
        <3> QED BY <2>1, <3>1, <3>2 DEF Moves, Saved
    <2> QED BY <1>2, <2>2, <2>3 DEF RenameTemp
<1> QED BY <1>1, <1>2

LEMMA InspectMoves ==
    ASSUME TypeInv, NEW c \in Commands, Inspect(c)
    PROVE  \E k \in CommandState : Moves(c, k)
<1>1. CASE End(c, "failed") BY <1>1, FailMoves DEF Inspect, Quiet
<1>2. CASE ~End(c, "failed")
    <2>1. cmd[c].pc = "inspect" /\ cmd[c].tok \in Token
        BY DEF Inspect, At, TypeInv, HasToken, Saved
    <2>2. cmd[c].tok.account \in Accounts BY <2>1 DEF Token
    <2>3. record[Profile(c)] # NoRecord
            => record[Profile(c)].account \in Accounts \union {Nobody}
        BY ProcessType DEF Record
    <2>4. PICK email \in Accounts \union {Nobody} :
            cmd' = [cmd EXCEPT ![c].pc = "save_record", ![c].email = email]
        BY <1>2, <2>2, <2>3 DEF Inspect
    <2> DEFINE a == [cmd[c] EXCEPT !.pc = "save_record"]
               k == [a EXCEPT !.email = email]
    <2>5. cmd[c] \in CommandState BY ProcessType
    <2>6. a \in CommandState BY <2>5, FieldTypes DEF Pcs
    <2>7. k \in CommandState BY <2>6, FieldTypes
    <2>8. cmd' = [cmd EXCEPT ![c] = k] BY <2>4 DEF TypeInv, TypeOK
    <2>9. k.req = cmd[c].req /\ k.held = cmd[c].held /\ k.tok = cmd[c].tok
          /\ k.pc = "save_record" /\ k.src = cmd[c].src /\ Quiet
        BY <2>5 DEF CommandState, Inspect, Quiet
    <2> QED BY <2>1, <2>7, <2>8, <2>9 DEF Moves, Saved, GoesOn
<1> QED BY <1>1, <1>2

LEMMA SaveRecordMoves ==
    ASSUME TypeInv, NEW c \in Commands, SaveRecord(c)
    PROVE  \E k \in CommandState : Moves(c, k)
<1>3. UNCHANGED Temps BY DEF SaveRecord
<1>1. CASE Fail(c) BY <1>1, <1>3, FailMoves DEF Fail, Quiet
<1>2. CASE ~Fail(c)
    <2>1. PICK d \in Commands :
            /\ At(d, "save_record") /\ Profile(d) = Profile(c)
            /\ record' = [record EXCEPT ![Profile(c)] =
                [client |-> cmd[d].client, account |-> cmd[d].email,
                 store |-> cmd[d].src]]
            /\ \E o \in {"ok", "failed"} : End(c, o)
            /\ UNCHANGED <<keyring, file, valid>>
        BY <1>2 DEF SaveRecord
    <2> DEFINE r == [client |-> cmd[d].client, account |-> cmd[d].email,
                     store |-> cmd[d].src]
    <2>2. cmd[c].pc = "save_record" BY DEF SaveRecord, At
    <2>3. Profile(c) \in Profiles BY ProcessType
    <2>4. cmd[d].src \in {"keyring", "file"}
        BY <2>1 DEF TypeInv, HasToken, Saved, At
    <2>5. r \in Record BY <2>4, ProcessType DEF Record
    <2>6. record' \in [Profiles -> Record \union {NoRecord}]
        BY <2>1, <2>5 DEF TypeInv, TypeOK
    <2>7. PICK o \in {"ok", "failed"} : End(c, o) BY <2>1
    <2> QED BY <1>3, <2>1, <2>2, <2>6, <2>7, ExitMoves DEF End, Moves, Saved, Records
<1> QED BY <1>1, <1>2

LEMMA ResolveMoves ==
    ASSUME TypeInv, NEW c \in Commands, Resolve(c)
    PROVE  \E k \in CommandState : Moves(c, k)
<1>1. cmd[c] \in CommandState BY ProcessType
<1>2. PICK t \in Resolved(Profile(c)) :
        cmd' = [cmd EXCEPT ![c].tok = t,
                           ![c].pc = IF t = NoToken THEN "forget" ELSE "revoke"]
    BY DEF Resolve
<1>3. t \in Token \union {NoToken} BY ProcessType DEF Resolved, Contents
<1> DEFINE a == [cmd[c] EXCEPT !.tok = t]
           k == [a EXCEPT !.pc = IF t = NoToken THEN "forget" ELSE "revoke"]
<1>4. a \in CommandState BY <1>1, <1>3, FieldTypes
<1>5. k \in CommandState BY <1>4, FieldTypes DEF Pcs
<1>6. cmd' = [cmd EXCEPT ![c] = k] BY <1>2 DEF TypeInv, TypeOK
<1>7. /\ k.req = cmd[c].req /\ k.held = cmd[c].held /\ k.tok = t
      /\ k.pc = IF t = NoToken THEN "forget" ELSE "revoke"
    BY <1>1, <1>3 DEF CommandState
<1>10. k.pc \notin Saved
    BY <1>7 DEF Saved
<1>8. Quiet /\ cmd[c].pc = "resolve" BY DEF Resolve, Quiet, At
<1>9. Resolves(c, k) BY <1>3, <1>7, <1>8 DEF Resolves
<1> HIDE DEF k
<1> QED BY <1>5, <1>6, <1>7, <1>8, <1>9, <1>10 DEF Moves, Saved

LEMMA RevokeMoves ==
    ASSUME TypeInv, NEW c \in Commands, Revoke(c)
    PROVE  \E k \in CommandState : Moves(c, k)
<1> DEFINE rest == {t \in valid : ~SameGrant(t, cmd[c].tok)}
<1>1. cmd[c] \in CommandState BY ProcessType
<1>2. cmd[c].pc = "revoke" /\ UNCHANGED <<keyring, file, record, Temps>>
    BY DEF Revoke, At
<1>3. CASE valid' = rest /\ Goto(c, "forget")
    <2>1. "forget" \in Pcs BY DEF Pcs
    <2> QED BY <1>2, <1>3, <2>1, GotoMoves DEF Moves, Saved, Revokes
<1>4. CASE /\ valid' \in {valid, rest}
           /\ cmd' = [cmd EXCEPT ![c].pc = "forget", ![c].told = TRUE]
    <2> DEFINE a == [cmd[c] EXCEPT !.pc = "forget"]
               k == [a EXCEPT !.told = TRUE]
    <2>1. a \in CommandState BY <1>1, FieldTypes DEF Pcs
    <2>2. k \in CommandState BY <2>1, FieldTypes
    <2>3. cmd' = [cmd EXCEPT ![c] = k] BY <1>4 DEF TypeInv, TypeOK
    <2>4. k.req = cmd[c].req /\ k.held = cmd[c].held /\ k.tok = cmd[c].tok
          /\ k.pc = "forget" /\ k.told
        BY <1>1 DEF CommandState
    <2>5. valid' \subseteq valid BY <1>4
    <2> QED BY <1>2, <2>2, <2>3, <2>4, <2>5 DEF Moves, Saved, Revokes
<1> QED BY <1>3, <1>4 DEF Revoke

LEMMA ForgetMoves ==
    ASSUME TypeInv, NEW c \in Commands, Forget(c)
    PROVE  \E k \in CommandState : Moves(c, k)
<1> DEFINE a == [cmd[c] EXCEPT !.pc = "drop_copy"]
           b == [a EXCEPT !.failed = (ring = "broken")]
           k == [b EXCEPT !.muted = (ring = "silent")]
<1>1. cmd[c] \in CommandState BY ProcessType
<1>2. a \in CommandState BY <1>1, FieldTypes DEF Pcs
<1>3. b \in CommandState BY <1>2, FieldTypes
<1>4. k \in CommandState BY <1>3, FieldTypes
<1>5. cmd' = [cmd EXCEPT ![c] = k] BY DEF Forget, TypeInv, TypeOK
<1>6. /\ k.req = cmd[c].req /\ k.held = cmd[c].held /\ k.tok = cmd[c].tok
      /\ k.pc = "drop_copy" /\ k.told = cmd[c].told
      /\ k.failed = (ring = "broken") /\ k.muted = (ring = "silent")
    BY <1>1 DEF CommandState
<1>7. ring = "works" \/ k.failed \/ k.muted BY <1>6 DEF TypeInv, TypeOK
<1>8. Forgets(c, k) BY <1>6, <1>7 DEF Forget, Forgets, At
<1> QED BY <1>4, <1>5, <1>6, <1>8 DEF Moves, Saved

LEMMA DropCopyMoves ==
    ASSUME TypeInv, NEW c \in Commands, DropCopy(c)
    PROVE  \E k \in CommandState : Moves(c, k)
<1>1. CASE Fail(c) /\ UNCHANGED handle
    BY <1>1, FailMoves DEF Fail, Quiet, DropCopy, Temps
<1>2. CASE ~(Fail(c) /\ UNCHANGED handle)
    <2>1. /\ cmd[c].pc = "drop_copy"
          /\ Remove(Profile(c))
          /\ UNCHANGED <<keyring, record, valid, temp, sharing>>
        BY <1>2 DEF DropCopy, At
    <2>2. CASE cmd[c].failed
        BY <1>2, <2>1, <2>2, ExitMoves DEF DropCopy, End, Moves, Saved, DropsCopy
    <2>3. CASE ~cmd[c].failed
        <3>1. "drop_record" \in Pcs BY DEF Pcs
        <3> QED BY <1>2, <2>1, <2>3, <3>1, GotoMoves DEF DropCopy, Moves, Saved, DropsCopy
    <2> QED BY <2>2, <2>3
<1> QED BY <1>1, <1>2

LEMMA DropRecordMoves ==
    ASSUME TypeInv, NEW c \in Commands, DropRecord(c)
    PROVE  \E k \in CommandState : Moves(c, k)
<1>1. CASE Fail(c) BY <1>1, FailMoves DEF Fail, Quiet, DropRecord
<1>2. CASE ~Fail(c)
    <2>1. Profile(c) \in Profiles BY ProcessType
    <2>2. record' \in [Profiles -> Record \union {NoRecord}]
        BY <1>2, <2>1 DEF DropRecord, TypeInv, TypeOK
    <2> QED BY <1>2, <2>2, ExitMoves DEF DropRecord, At, End, Moves, Saved, DropsRecord
<1> QED BY <1>1, <1>2

LEMMA KillMoves ==
    ASSUME TypeInv, NEW c \in Commands, Kill(c)
    PROVE  \E k \in CommandState : Moves(c, k)
BY ExitMoves DEF Kill, Moves, Saved, Aborts, Quiet

\* Every step of a command is one of the moves.
LEMMA StepMoves ==
    ASSUME TypeInv, NEW c \in Commands, Step(c) \/ Redirect(c) \/ Kill(c)
    PROVE  \E k \in CommandState : Moves(c, k)
BY BeginMoves, BrowserMoves, ExchangeMoves, SaveMoves, DropFileMoves,
   OpenTempMoves, WriteTempMoves, RenameTempMoves, InspectMoves,
   SaveRecordMoves, ResolveMoves, RevokeMoves,
   ForgetMoves, DropCopyMoves, DropRecordMoves, KillMoves
   DEF Step, LoginStep, LogoutStep

-----------------------------------------------------------------------------
(* Type correctness.                                                       *)

\* The initial state has its types.
LEMMA TypeInit == Init => TypeInv
<1> SUFFICES ASSUME Init PROVE TypeInv OBVIOUS
<1>1. PICK old \in Earlier :
        /\ keyring = [p \in Profiles |-> old[p].keyring]
        /\ file = [p \in Profiles |-> old[p].file]
        /\ record = [p \in Profiles |-> old[p].record]
        /\ valid = UNION {{old[p].keyring, old[p].file} \ {NoToken} : p \in Profiles}
    BY DEF Init
<1>2. old \in [Profiles -> Sheet] BY EarlierAssumption
<1>3. \A p \in Profiles :
        /\ old[p].keyring \in Token \union {NoToken}
        /\ old[p].file \in Token \union {NoToken}
        /\ old[p].record \in Record \union {NoRecord}
    BY <1>2 DEF Sheet, Old
<1>4. DefaultClient \in Clients /\ 0 \in 0 .. MaxTurns /\ 0 \in 0 .. MaxCrashes
    BY SignInAssumption
<1>5. \A c \in Commands : cmd[c] \in CommandState /\ cmd[c].pc = "idle"
    <2>1. \A c \in Commands : cmd[c] \in
            [pc: {"idle"}, req: Asks, client: {DefaultClient},
             heard: {"none"}, tok: {NoToken}, src: {"none"}, email: {Nobody},
             held: {{}}, failed: {FALSE}, muted: {FALSE}, told: {FALSE},
             outcome: {"none"}]
        BY DEF Init
    <2> QED BY <1>4, <2>1 DEF CommandState, Pcs
<1>6. cmd \in [Commands -> CommandState] BY <1>5 DEF Init
<1>7. valid \subseteq Token BY <1>1, <1>3
<1>8. HasToken BY <1>5 DEF HasToken, Saved
<1>9. file \in [Profiles -> Contents] /\ temp \in [Profiles -> Contents]
    BY <1>1, <1>3 DEF Init, Contents
<1> QED BY <1>1, <1>3, <1>4, <1>6, <1>7, <1>8, <1>9 DEF Init, TypeInv, TypeOK

\* Where an opened file is, after it was renamed or removed.
LEMMA MovedFacts ==
    ASSUME TypeInv, NEW p \in Profiles, NEW place \in {OnRename, OnRemove}
    PROVE  /\ Moved(p, place) \in [Commands -> {"temp", "file", "gone"}]
           /\ \A d \in Commands :
                handle[d] = "temp" /\ (Profile(d) # p \/ place = OnRemove)
                    => Moved(p, place)[d] = "temp"
<1>1. handle \in [Commands -> {"temp", "file", "gone"}] BY DEF TypeInv, TypeOK
<1>2. \A h \in {"temp", "file", "gone"} : place[h] \in {"temp", "file", "gone"}
    BY DEF OnRename, OnRemove
<1>3. OnRemove["temp"] = "temp" BY DEF OnRemove
<1> QED BY <1>1, <1>2, <1>3 DEF Moved

\* What a move leaves of the other processes.
LEMMA MoveFrame ==
    ASSUME TypeInv, NEW c \in Commands, NEW k \in CommandState, Moves(c, k)
    PROVE  /\ cmd'[c] = k /\ \A d \in Commands \ {c} : cmd'[d] = cmd[d]
           /\ cmd' \in [Commands -> CommandState]
           /\ \A d \in Commands : cmd'[d].req = cmd[d].req
           /\ \A d \in Commands : Profile(d)' = Profile(d) /\ Kind(d)' = Kind(d)
BY DEF Moves, TypeInv, TypeOK, Profile, Kind

\* A move keeps the types of what it changes, and a login its token.
LEMMA MoveTypes ==
    ASSUME TypeInv, NEW c \in Commands, NEW k \in CommandState, Moves(c, k)
    PROVE  /\ keyring' \in [Profiles -> Token \union {NoToken}]
           /\ file' \in [Profiles -> Contents] /\ temp' \in [Profiles -> Contents]
           /\ handle' \in [Commands -> {"temp", "file", "gone"}]
           /\ sharing' \subseteq Commands
           /\ record' \in [Profiles -> Record \union {NoRecord}]
           /\ valid' \subseteq Token
           /\ HasToken'
<1>1. Profile(c) \in Profiles /\ cmd[c].tok \in Token \union {NoToken}
    BY ProcessType
<1>2. keyring' \in [Profiles -> Token \union {NoToken}]
    BY <1>1 DEF Moves, Aborts, GoesOn, Begins, Issues, Sets, Drops, Opens, Puts, Renames,
                Records, Resolves, Revokes, Forgets, DropsCopy, DropsRecord, Quiet,
                TypeInv, TypeOK
<1>3. file \in [Profiles -> Contents] /\ temp \in [Profiles -> Contents]
      /\ handle \in [Commands -> {"temp", "file", "gone"}] /\ sharing \subseteq Commands
    BY DEF TypeInv, TypeOK
<1>4. record' \in [Profiles -> Record \union {NoRecord}] /\ valid' \subseteq Token
    BY DEF Moves, Aborts, GoesOn, Begins, Issues, Sets, Drops, Opens, Puts, Renames,
           Records, Resolves, Revokes, Forgets, DropsCopy, DropsRecord, Quiet, TypeInv,
           TypeOK
<1>6. /\ file' \in [Profiles -> Contents] /\ temp' \in [Profiles -> Contents]
      /\ handle' \in [Commands -> {"temp", "file", "gone"}] /\ sharing' \subseteq Commands
    <2>1. CASE UNCHANGED <<file, Temps>> BY <1>3, <2>1 DEF Temps
    <2>2. CASE Drops(c, k) \/ DropsCopy(c, k)
        <3>1. handle' \in {handle, Moved(Profile(c), OnRemove)}
              /\ file' \in {file, [file EXCEPT ![Profile(c)] = NoToken]}
              /\ UNCHANGED <<temp, sharing>>
            BY <2>2 DEF Drops, DropsCopy, Remove
        <3>2. Moved(Profile(c), OnRemove) \in [Commands -> {"temp", "file", "gone"}]
            BY <1>1, MovedFacts
        <3> QED BY <1>1, <1>3, <3>1, <3>2 DEF Contents
    <2>3. CASE Opens(c, k)
        <3>1. Beside(c) \subseteq Commands BY DEF Beside
        <3> QED BY <1>1, <1>3, <2>3, <3>1 DEF Opens, Contents
    <2>4. CASE Puts(c, k)
        <3>1. Now(c) \in Contents /\ cmd[c].tok \in Contents /\ Torn \in Contents
            BY <1>1, <1>3 DEF Now, Contents
        <3> QED BY <1>1, <1>3, <2>4, <3>1 DEF Puts
    <2>5. CASE Renames(c, k)
        <3>1. Moved(Profile(c), OnRename) \in [Commands -> {"temp", "file", "gone"}]
            BY <1>1, MovedFacts
        <3> QED BY <1>1, <1>3, <2>5, <3>1 DEF Renames, Contents
    <2> QED BY <2>1, <2>2, <2>3, <2>4, <2>5 DEF Moves, Aborts, GoesOn, Begins, Issues,
            Sets, Records, Resolves, Revokes, Forgets, DropsRecord, Quiet
<1>5. HasToken'
    <2> SUFFICES ASSUME NEW d \in Commands
                 PROVE
            /\ cmd'[d].pc \in Saved \union {"save"}
                => cmd'[d].tok \in Token /\ cmd'[d].tok.by = d
            /\ cmd'[d].pc \in Saved
                => cmd'[d].src \in {"keyring", "file"}
            /\ cmd'[d].pc = "revoke" => cmd'[d].tok \in Token
        BY DEF HasToken
    <2>1. CASE d # c BY <2>1, MoveFrame DEF TypeInv, HasToken
    <2>2. CASE d = c
        <3>1. cmd'[d] = k BY <2>2, MoveFrame
        <3>0. Saved = {"drop_file", "open_temp", "write_temp", "rename_temp", "inspect",
                       "save_record"} BY DEF Saved
        <3>2. k.pc \in Saved \union {"save"}
                => k.tok \in Token /\ k.tok.by = c
            BY <3>0 DEF Moves, Aborts, GoesOn, Begins, Issues, Sets, Drops, Opens, Puts,
                   Renames, Records, Resolves, Revokes, Forgets, DropsCopy,
                   DropsRecord, TypeInv, HasToken
        <3>3. k.pc \in Saved
                => k.src \in {"keyring", "file"}
            BY <3>0 DEF Moves, Aborts, GoesOn, Begins, Issues, Sets, Drops, Opens, Puts,
                   Renames, Records, Resolves, Revokes, Forgets, DropsCopy,
                   DropsRecord, TypeInv, HasToken
        <3>4. k.pc = "revoke" => k.tok \in Token
            BY <3>0 DEF Moves, Aborts, GoesOn, Begins, Issues, Sets, Drops, Opens, Puts,
                   Renames, Records, Resolves, Revokes, Forgets, DropsCopy, DropsRecord
        <3> QED BY <2>2, <3>1, <3>2, <3>3, <3>4
    <2> QED BY <2>1, <2>2
<1> QED BY <1>2, <1>4, <1>5, <1>6

\* Every step keeps the types.
LEMMA TypeNext == TypeInv /\ [Next]_vars => TypeInv'
<1> SUFFICES ASSUME TypeInv, [Next]_vars PROVE TypeInv' OBVIOUS
<1>1. ASSUME NEW c \in Commands, Step(c) \/ Redirect(c) \/ Kill(c) PROVE TypeInv'
    <2>1. PICK k \in CommandState : Moves(c, k) BY <1>1, StepMoves
    <2>2. cmd' \in [Commands -> CommandState] BY <2>1, MoveFrame
    <2>3. ring' = ring /\ turns' = turns /\ (crashes' = crashes \/ Kill(c))
        BY <1>1 DEF Step, LoginStep, LogoutStep, Begin, Browser, Exchange, Save,
                    DropFile, OpenTemp, WriteTemp, RenameTemp, Inspect, SaveRecord,
                    Resolve, Revoke, Forget, DropCopy, DropRecord, Redirect, Kill, World
    <2>4. crashes' \in 0 .. MaxCrashes
        BY <2>3, SignInAssumption DEF Kill, TypeInv, TypeOK
    <2> QED BY <2>1, <2>2, <2>3, <2>4, MoveTypes DEF TypeInv, TypeOK
<1>2. CASE RingTurns
    <2>1. turns' \in 0 .. MaxTurns
        BY <1>2, SignInAssumption DEF RingTurns, TypeInv, TypeOK
    <2> QED BY <1>2, <2>1 DEF RingTurns, TypeInv, TypeOK, HasToken, Temps
<1>3. CASE UNCHANGED vars BY <1>3 DEF vars, TypeInv, TypeOK, HasToken
<1> QED BY <1>1, <1>2, <1>3 DEF Next

\* Every value has its type in every reachable state.
THEOREM TypeCorrect == Spec => []TypeOK
<1>1. TypeInv => TypeOK BY DEF TypeInv
<1> QED BY <1>1, TypeInit, TypeNext, PTL DEF Spec

-----------------------------------------------------------------------------
(* The invariant.                                                          *)

\* It holds initially.
LEMMA IInvInit == Init => IInv
<1> SUFFICES ASSUME Init PROVE IInv OBVIOUS
<1>1. \A c \in Commands : cmd[c].pc = "idle" /\ cmd[c].held = {}
    <2>1. \A c \in Commands : cmd[c] \in
            [pc: {"idle"}, req: Asks, client: {DefaultClient},
             heard: {"none"}, tok: {NoToken}, src: {"none"}, email: {Nobody},
             held: {{}}, failed: {FALSE}, muted: {FALSE}, told: {FALSE},
             outcome: {"none"}]
        BY DEF Init
    <2> QED BY <2>1
<1>2. KindFits BY <1>1 DEF KindFits, LoginPcs, LogoutPcs
<1>3. NotYet
    <2>1. PICK old \in Earlier :
            /\ keyring = [p \in Profiles |-> old[p].keyring]
            /\ file = [p \in Profiles |-> old[p].file]
        BY DEF Init
    <2>2. old \in [Profiles -> Sheet] /\ Before \notin Commands
        BY EarlierAssumption
    <2>3. \A p \in Profiles : \A t \in Stored(p) : t.by = Before
        BY <2>1, <2>2 DEF Stored, Sheet, Old
    <2>4. \A p \in Profiles : temp[p] \notin Token BY NoTokenAssumption DEF Init
    <2> QED BY <1>1, <2>2, <2>3, <2>4 DEF NotYet
<1>4. Behind /\ Forgotten /\ RevokedOrTold
    BY <1>1 DEF Behind, Forgotten, RevokedOrTold, Answered
<1>5. NotYetNamed
    BY NoTokenAssumption DEF Init, NotYetNamed
<1>6. Alone BY <1>1 DEF Alone, Writing, At
<1> QED BY <1>2, <1>3, <1>4, <1>5, <1>6 DEF IInv

\* A move puts no token in the temporary file but the mover's own.
LEMMA TempAfter ==
    ASSUME TypeInv, NEW c \in Commands, NEW k \in CommandState, Moves(c, k),
           NEW p \in Profiles, temp'[p] \in Token
    PROVE  \/ temp'[p] = temp[p] /\ ~(Renames(c, k) /\ p = Profile(c))
           \/ /\ p = Profile(c) /\ cmd[c].pc = "write_temp" /\ temp'[p] = cmd[c].tok
              /\ k.pc \in {"rename_temp", "done"} /\ UNCHANGED <<keyring, file>>
<1>1. Profile(c) \in Profiles BY ProcessType
<1>2. temp \in [Profiles -> Contents] /\ handle[c] \in {"temp", "file", "gone"}
    BY DEF TypeInv, TypeOK
<1>3. CASE Opens(c, k) BY <1>1, <1>2, <1>3, NoTokenAssumption DEF Opens, Renames
<1>4. CASE Puts(c, k)
    <2>1. CASE handle[c] = "temp" /\ p = Profile(c)
        <3>1. temp'[p] \in {cmd[c].tok, Torn, temp[p]} /\ UNCHANGED <<keyring, file>>
            BY <1>2, <1>4, <2>1 DEF Puts, Now
        <3> QED BY <1>4, <2>1, <3>1, NoTokenAssumption DEF Puts, Renames
    <2>2. CASE ~(handle[c] = "temp" /\ p = Profile(c))
        BY <1>1, <1>2, <1>4, <2>2 DEF Puts, Renames
    <2> QED BY <2>1, <2>2
<1>5. CASE Renames(c, k)
    <2>1. temp'[Profile(c)] = NoToken BY <1>1, <1>2, <1>5 DEF Renames
    <2> QED BY <1>1, <1>2, <1>5, <2>1, NoTokenAssumption DEF Renames
<1>6. CASE ~Opens(c, k) /\ ~Puts(c, k) /\ ~Renames(c, k)
    BY <1>6 DEF Moves, Aborts, GoesOn, Begins, Issues, Sets, Drops, Records, Resolves,
                Revokes, Forgets, DropsCopy, DropsRecord, Quiet, Temps
<1> QED BY <1>3, <1>4, <1>5, <1>6

\* A move stores no token but the mover's own, once its code is exchanged, or
\* the one in the temporary file.
LEMMA StoredAfter ==
    ASSUME TypeInv, IInv, NEW c \in Commands, NEW k \in CommandState, Moves(c, k),
           NEW p \in Profiles, NEW t \in Stored(p)'
    PROVE  \/ t \in Stored(p)
           \/ /\ t.by = c /\ p = Profile(c) /\ cmd[c].pc \in {"save", "write_temp"}
              /\ k.pc \in {"drop_file", "rename_temp", "done"}
           \/ Renames(c, k) /\ p = Profile(c) /\ t = temp[p] /\ t \in Token
<1>1. Profile(c) \in Profiles BY ProcessType
<1>2. keyring \in [Profiles -> Token \union {NoToken}]
      /\ file \in [Profiles -> Contents] /\ temp \in [Profiles -> Contents]
    BY DEF TypeInv, TypeOK
<1>3. CASE UNCHANGED <<keyring, file>> BY <1>3 DEF Stored
<1>4. CASE Sets(c, k)
    BY <1>1, <1>2, <1>4 DEF Sets, Stored, TypeInv, HasToken
<1>5. CASE Drops(c, k) BY <1>1, <1>2, <1>5 DEF Drops, Stored, Remove
<1>6. CASE Puts(c, k)
    <2>1. keyring' = keyring BY <1>6 DEF Puts
    <2>2. file'[p] = file[p] \/ (p = Profile(c) /\ file'[p] \in {cmd[c].tok, Torn})
        BY <1>1, <1>2, <1>6 DEF Puts, Now
    <2>3. cmd[c].tok.by = c BY <1>6 DEF Puts, TypeInv, HasToken, Saved
    <2>4. cmd[c].pc = "write_temp" /\ k.pc \in {"rename_temp", "done"}
        BY <1>6 DEF Puts
    <2> QED BY <2>1, <2>2, <2>3, <2>4 DEF Stored
<1>9. CASE Renames(c, k)
    <2>1. keyring' = keyring BY <1>9 DEF Renames
    <2>2. file'[p] = file[p] \/ (p = Profile(c) /\ file'[p] = temp[p])
        BY <1>1, <1>2, <1>9 DEF Renames
    <2> QED BY <1>2, <1>9, <2>1, <2>2 DEF Stored, Contents
<1>7. CASE Forgets(c, k) BY <1>1, <1>2, <1>7 DEF Forgets, Stored
<1>8. CASE DropsCopy(c, k) BY <1>1, <1>2, <1>8 DEF DropsCopy, Stored, Remove
<1> QED BY <1>3, <1>4, <1>5, <1>6, <1>7, <1>8, <1>9
        DEF Moves, Aborts, GoesOn, Begins, Issues, Opens, Records, Resolves, Revokes,
            DropsRecord, Quiet

\* What a move stores anew is nothing that was ever held.
LEMMA EitherAfter ==
    ASSUME TypeInv, IInv, NEW c \in Commands, NEW k \in CommandState, Moves(c, k),
           NEW p \in Profiles, NEW d \in Commands, NEW t \in cmd[d].held,
           t \in {keyring'[p], file'[p]} \ {NoToken, Blank, Torn}
    PROVE  t \in Stored(p)
<1>0. t \in Stored(p)' BY DEF Stored
<1>1. CASE t.by = c /\ cmd[c].pc \in {"save", "write_temp"}
    BY <1>1 DEF IInv, NotYet, Early
<1>2. CASE t = temp[p] /\ t \in Token BY <1>2 DEF IInv, NotYetNamed
<1> QED BY <1>0, <1>1, <1>2, StoredAfter

LEMMA KindNext ==
    ASSUME TypeInv, IInv, NEW c \in Commands, NEW k \in CommandState, Moves(c, k)
    PROVE  KindFits'
<1>1. k.pc \in LoginPcs => Kind(c) = "login"
    BY DEF Moves, Aborts, GoesOn, Begins, Issues, Sets, Drops, Opens, Puts, Renames, Records,
           Resolves, Revokes, Forgets, DropsCopy, DropsRecord, IInv, KindFits,
           LoginPcs, LogoutPcs
<1>2. Kind(c) \in {"login", "logout"} BY ProcessType DEF Kind, Asks
<1>3. k.pc \in LogoutPcs => Kind(c) = "logout"
    BY <1>2 DEF Moves, Aborts, GoesOn, Begins, Issues, Sets, Drops, Opens, Puts, Renames, Records,
           Resolves, Revokes, Forgets, DropsCopy, DropsRecord, IInv, KindFits,
           LoginPcs, LogoutPcs
<1> QED BY <1>1, <1>3, MoveFrame DEF IInv, KindFits

\* What a logout held was in the stores when it began.
LEMMA HeldAfter ==
    ASSUME TypeInv, NEW c \in Commands, NEW k \in CommandState, Moves(c, k),
           NEW e \in Commands, NEW t \in cmd'[e].held, t \notin cmd[e].held
    PROVE  Profile(c) \in Profiles /\ t \in Stored(Profile(c))
<1>1. e = c /\ cmd[c].pc = "idle" BY MoveFrame DEF Moves
<1>2. t \in k.held BY <1>1, MoveFrame
<1>3. k.held = cmd[c].held \/ k.held = Stored(Profile(c))
    BY <1>1 DEF Moves, Aborts, GoesOn, Begins, Issues, Sets, Drops, Opens, Puts, Renames,
            Records, Resolves, Revokes, Forgets, DropsCopy, DropsRecord
<1> QED BY <1>1, <1>2, <1>3, ProcessType

LEMMA NotYetNext ==
    ASSUME TypeInv, IInv, NEW c \in Commands, NEW k \in CommandState, Moves(c, k)
    PROVE  NotYet'
<1>1. k.pc \in Early => cmd[c].pc \in Early
    BY DEF Moves, Aborts, GoesOn, Begins, Issues, Sets, Drops, Opens, Puts, Renames,
           Records, Resolves, Revokes, Forgets, DropsCopy, DropsRecord, Early
<1>2. \A d \in Commands : cmd'[d].pc \in Early => cmd[d].pc \in Early
    BY <1>1, MoveFrame
<1>4. ASSUME NEW d \in Commands, cmd'[d].pc \in Early, NEW p \in Profiles,
             NEW t \in Stored(p)'
      PROVE  t.by # d
    <2>1. CASE t \in Stored(p) BY <1>2, <1>4, <2>1 DEF IInv, NotYet
    <2>2. CASE t.by = c /\ k.pc \in {"drop_file", "rename_temp", "done"}
        <3>1. k.pc \notin Early BY <2>2 DEF Early
        <3> QED BY <1>4, <2>2, <3>1, MoveFrame
    <2>3. CASE t = temp[p] /\ t \in Token BY <1>2, <1>4, <2>3 DEF IInv, NotYet
    <2> QED BY <1>4, <2>1, <2>2, <2>3, StoredAfter
<1>5. ASSUME NEW d \in Commands, cmd'[d].pc \in Early, NEW e \in Commands,
             NEW t \in cmd'[e].held
      PROVE  t.by # d
    <2>1. CASE t \in cmd[e].held BY <1>2, <1>5, <2>1 DEF IInv, NotYet
    <2>2. CASE t \notin cmd[e].held
        <3>1. Profile(c) \in Profiles /\ t \in Stored(Profile(c))
            BY <1>5, <2>2, HeldAfter
        <3> QED BY <1>2, <1>5, <3>1 DEF IInv, NotYet
    <2> QED BY <2>1, <2>2
<1>6. ASSUME NEW d \in Commands, cmd'[d].pc \in Early, NEW p \in Profiles,
             temp'[p] \in Token
      PROVE  temp'[p].by # d
    <2>1. CASE temp'[p] = temp[p] BY <1>2, <1>6, <2>1 DEF IInv, NotYet
    <2>2. CASE /\ cmd[c].pc = "write_temp" /\ temp'[p] = cmd[c].tok
               /\ k.pc \in {"rename_temp", "done"}
        <3>1. temp'[p].by = c /\ k.pc \notin Early
            BY <2>2 DEF Early, TypeInv, HasToken, Saved
        <3> QED BY <1>6, <3>1, MoveFrame
    <2> QED BY <1>6, <2>1, <2>2, TempAfter
<1> QED BY <1>4, <1>5, <1>6 DEF NotYet

LEMMA NotYetNamedNext ==
    ASSUME TypeInv, IInv, NEW c \in Commands, NEW k \in CommandState, Moves(c, k)
    PROVE  NotYetNamed'
<1> SUFFICES ASSUME NEW p \in Profiles, temp'[p] \in Token
             PROVE
        /\ temp'[p].by \in Commands /\ Profile(temp[p].by)' = p
        /\ \A q \in Profiles : \A t \in Stored(q)' : t.by # temp'[p].by
        /\ \A d \in Commands : \A t \in cmd'[d].held : t.by # temp'[p].by
    BY DEF NotYetNamed, Profile
<1>1. \A d \in Commands : Profile(d)' = Profile(d) BY MoveFrame
<1>2. CASE temp'[p] = temp[p] /\ ~(Renames(c, k) /\ p = Profile(c))
    <2>1. /\ temp[p].by \in Commands /\ Profile(temp[p].by) = p
          /\ \A q \in Profiles : \A t \in Stored(q) : t.by # temp[p].by
          /\ \A d \in Commands : \A t \in cmd[d].held : t.by # temp[p].by
        BY <1>2 DEF IInv, NotYetNamed
    <2>2. cmd[c].pc \in {"save", "write_temp"} => temp[p].by # c
        BY <1>2 DEF IInv, NotYet, Early
    <2>3. ASSUME NEW q \in Profiles, NEW t \in Stored(q)' PROVE t.by # temp[p].by
        <3>1. CASE t \in Stored(q) BY <2>1, <3>1
        <3>2. CASE t.by = c /\ cmd[c].pc \in {"save", "write_temp"} BY <2>2, <3>2
        <3>3. CASE Renames(c, k) /\ q = Profile(c) /\ t = temp[q] /\ t \in Token
            <4>1. Profile(t.by) = q BY <2>3, <3>3 DEF IInv, NotYetNamed
            <4> QED BY <1>2, <2>1, <3>3, <4>1
        <3> QED BY <2>3, <3>1, <3>2, <3>3, StoredAfter
    <2>4. ASSUME NEW d \in Commands, NEW t \in cmd'[d].held PROVE t.by # temp[p].by
        BY <2>1, <2>4, HeldAfter
    <2> QED BY <1>1, <1>2, <2>1, <2>3, <2>4
<1>3. CASE /\ p = Profile(c) /\ cmd[c].pc = "write_temp" /\ temp'[p] = cmd[c].tok
           /\ UNCHANGED <<keyring, file>>
    <2>1. temp'[p].by = c BY <1>3 DEF TypeInv, HasToken, Saved
    <2>2. \A q \in Profiles : Stored(q)' = Stored(q) BY <1>3 DEF Stored
    <2>3. /\ \A q \in Profiles : \A t \in Stored(q) : t.by # c
          /\ \A d \in Commands : \A t \in cmd[d].held : t.by # c
        BY <1>3 DEF IInv, NotYet, Early
    <2>4. ASSUME NEW d \in Commands, NEW t \in cmd'[d].held PROVE t.by # c
        BY <2>3, <2>4, HeldAfter
    <2> QED BY <1>1, <1>3, <2>1, <2>2, <2>3, <2>4
<1> QED BY <1>2, <1>3, TempAfter

\* Who writes after a move wrote before it, or has just opened the file.
LEMMA WritingAfter ==
    ASSUME TypeInv, NEW c \in Commands, NEW k \in CommandState, Moves(c, k)
    PROVE  /\ \A d \in Commands \ {c} : (Writing(d)' <=> Writing(d))
           /\ Writing(c)' => Opens(c, k) \/ Puts(c, k)
           /\ Puts(c, k) \/ Renames(c, k) => Writing(c)
           /\ \A d \in Commands : Beside(d)' \subseteq Beside(d) \union {c}
<1>1. \A d \in Commands \ {c} : (Writing(d)' <=> Writing(d)) BY MoveFrame DEF Writing
<1>2. k.pc \in {"write_temp", "rename_temp"} => Opens(c, k) \/ Puts(c, k)
    BY DEF Moves, Aborts, GoesOn, Begins, Issues, Sets, Drops, Renames,
           Records, Resolves, Revokes, Forgets, DropsCopy, DropsRecord
<1>3. Puts(c, k) \/ Renames(c, k) => Writing(c) BY DEF Puts, Renames, Writing
<1>4. \A d \in Commands : Profile(d)' = Profile(d) BY MoveFrame
<1>5. Writing(c)' => Opens(c, k) \/ Puts(c, k) BY <1>2, MoveFrame DEF Writing
<1>6. \A d \in Commands : Beside(d)' \subseteq Beside(d) \union {c}
    BY <1>1, <1>4 DEF Beside
<1> QED BY <1>1, <1>3, <1>5, <1>6

\* A login alone at the file is not disturbed there.
LEMMA AloneNext ==
    ASSUME TypeInv, IInv, NEW c \in Commands, NEW k \in CommandState, Moves(c, k)
    PROVE  Alone'
<1>1. Profile(c) \in Profiles /\ \A d \in Commands : Profile(d)' = Profile(d)
    BY ProcessType, MoveFrame
<1>2. temp \in [Profiles -> Contents] /\ handle \in [Commands -> {"temp", "file", "gone"}]
    BY DEF TypeInv, TypeOK
<1>3. \/ sharing' = sharing /\ ~Renames(c, k)
      \/ Renames(c, k) /\ sharing' = sharing \ {c}
      \/ Opens(c, k) /\ sharing' =
            sharing \union Beside(c) \union (IF Beside(c) = {} THEN {} ELSE {c})
    BY DEF Moves, Aborts, GoesOn, Begins, Issues, Sets, Drops, Opens, Puts, Renames,
           Records, Resolves, Revokes, Forgets, DropsCopy, DropsRecord, Quiet, Temps
<1>4. ASSUME NEW d \in Commands, Writing(d)', Beside(d)' # {} PROVE d \in sharing'
    <2>1. CASE d = c
        <3>1. Opens(c, k) \/ Puts(c, k) BY <1>4, <2>1, WritingAfter
        <3>2. Beside(c)' \subseteq Beside(c)
            BY <1>1, WritingAfter DEF Beside
        <3>3. CASE Opens(c, k) BY <1>4, <2>1, <3>2, <3>3 DEF Opens
        <3>4. CASE Puts(c, k)
            <4>1. c \in sharing BY <1>4, <2>1, <3>2, <3>4, WritingAfter DEF IInv, Alone
            <4> QED BY <2>1, <3>4, <4>1 DEF Puts
        <3> QED BY <3>1, <3>3, <3>4
    <2>2. CASE d # c
        <3>1. Writing(d) BY <1>4, <2>2, WritingAfter
        <3>2. CASE Beside(d) # {}
            <4>1. d \in sharing BY <3>1, <3>2 DEF IInv, Alone
            <4> QED BY <1>3, <2>2, <4>1
        <3>3. CASE Beside(d) = {}
            <4>1. c \in Beside(d)' BY <1>4, <3>3, WritingAfter
            <4>2. Profile(c) = Profile(d) /\ Writing(c)' BY <1>1, <4>1 DEF Beside
            <4>3. ~Writing(c) BY <2>2, <3>3, <4>2 DEF Beside
            <4>4. Opens(c, k) BY <4>2, <4>3, WritingAfter
            <4>5. d \in Beside(c) BY <2>2, <3>1, <4>2 DEF Beside
            <4> QED BY <4>4, <4>5 DEF Opens
        <3> QED BY <3>2, <3>3
    <2> QED BY <2>1, <2>2
<1>5. ASSUME NEW d \in Commands \ {c}, d \notin sharing', Writing(d)
      PROVE  /\ d \notin sharing
             /\ temp'[Profile(d)] = temp[Profile(d)]
             /\ handle[d] = "temp" => handle'[d] = "temp"
    <2>1. d \notin sharing BY <1>3, <1>5
    <2>2. Beside(d) = {} BY <1>5, <2>1 DEF IInv, Alone
    <2>3. Profile(d) \in Profiles BY ProcessType
    <2>4. CASE Opens(c, k)
        <3>1. Profile(d) # Profile(c)
            <4>1. d \notin Beside(c) BY <1>5, <2>4 DEF Opens
            <4> QED BY <1>5, <4>1 DEF Beside
        <3> QED BY <1>2, <1>5, <2>1, <2>3, <2>4, <3>1 DEF Opens
    <2>5. CASE Puts(c, k)
        <3>1. Profile(d) # Profile(c)
            BY <1>5, <2>2, <2>5, WritingAfter DEF Beside
        <3> QED BY <1>2, <2>1, <2>3, <2>5, <3>1 DEF Puts
    <2>6. CASE Renames(c, k)
        <3>1. Profile(d) # Profile(c)
            BY <1>5, <2>2, <2>6, WritingAfter DEF Beside
        <3> QED BY <1>1, <1>2, <2>1, <2>3, <2>6, <3>1, MovedFacts DEF Renames
    <2>7. CASE Drops(c, k) \/ DropsCopy(c, k)
        <3>1. temp' = temp /\ handle' \in {handle, Moved(Profile(c), OnRemove)}
            BY <2>7 DEF Drops, DropsCopy, Remove
        <3> QED BY <1>1, <2>1, <3>1, MovedFacts
    <2>8. CASE UNCHANGED Temps BY <2>1, <2>8 DEF Temps
    <2> QED BY <2>4, <2>5, <2>6, <2>7, <2>8 DEF Moves, Aborts, GoesOn, Begins, Issues,
            Sets, Records, Resolves, Revokes, Forgets, DropsRecord, Quiet
<1>6. ASSUME NEW d \in Commands, d \notin sharing', At(d, "write_temp")'
      PROVE  handle'[d] = "temp" /\ temp'[Profile(d)] = Blank
    <2>1. CASE d = c
        <3>1. cmd'[c] = k /\ k.pc = "write_temp" BY <1>6, <2>1, MoveFrame DEF At
        <3>2. Opens(c, k) BY <3>1, <2>1, WritingAfter DEF Writing, Puts
        <3> QED BY <1>1, <1>2, <2>1, <3>2 DEF Opens
    <2>2. CASE d # c
        <3>1. At(d, "write_temp") /\ Writing(d) BY <1>6, <2>2, MoveFrame DEF At, Writing
        <3> QED BY <1>5, <1>6, <2>2, <3>1 DEF IInv, Alone
    <2> QED BY <2>1, <2>2
<1>7. ASSUME NEW d \in Commands, d \notin sharing', At(d, "rename_temp")'
      PROVE  temp'[Profile(d)] = cmd'[d].tok
    <2>1. CASE d = c
        <3>1. cmd'[c] = k /\ k.pc = "rename_temp" BY <1>7, <2>1, MoveFrame DEF At
        <3>2. Puts(c, k) BY <3>1, <2>1, WritingAfter DEF Writing, Opens
        <3>3. handle[c] = "temp" /\ temp[Profile(c)] = Blank
            BY <1>7, <2>1, <3>2 DEF Puts, IInv, Alone, At
        <3>4. temp' = [temp EXCEPT ![Profile(c)] = cmd[c].tok] /\ k.tok = cmd[c].tok
            BY <3>1, <3>2, <3>3 DEF Puts, Now
        <3> QED BY <1>1, <1>2, <2>1, <3>1, <3>4
    <2>2. CASE d # c
        <3>1. At(d, "rename_temp") /\ Writing(d) /\ cmd'[d] = cmd[d]
            BY <1>7, <2>2, MoveFrame DEF At, Writing
        <3> QED BY <1>5, <1>7, <2>2, <3>1 DEF IInv, Alone
    <2> QED BY <2>1, <2>2
<1> QED BY <1>1, <1>4, <1>6, <1>7 DEF Alone

LEMMA BehindNext ==
    ASSUME TypeInv, IInv, NEW c \in Commands, NEW k \in CommandState, Moves(c, k)
    PROVE  Behind'
<1> SUFFICES ASSUME NEW d \in Commands, cmd'[d].pc = "drop_file",
                    ~SignsOut(Profile(d))', keyring'[Profile(d)'] = NoToken
             PROVE  FALSE
    BY DEF Behind
<1>1. Profile(d)' = Profile(d) BY MoveFrame
<1>2. Profile(c) \in Profiles /\ Profile(d) \in Profiles BY ProcessType
<1>3. k.pc # "idle"
    BY DEF Moves, Aborts, GoesOn, Begins, Issues, Sets, Drops, Opens, Puts, Renames, Records,
           Resolves, Revokes, Forgets, DropsCopy, DropsRecord
<1>4. \A e \in Commands : cmd'[e].pc = "idle" => cmd[e].pc = "idle"
    BY <1>3, MoveFrame
<1>5. \A e \in Commands : Profile(e)' = Profile(e) /\ cmd'[e].req = cmd[e].req
    BY MoveFrame
<1>6. ~SignsOut(Profile(d)) BY <1>1, <1>4, <1>5 DEF SignsOut, At, Profile
<1>7. CASE Sets(c, k) /\ Profile(c) = Profile(d)
    <2>1. keyring'[Profile(d)] = cmd[c].tok
        BY <1>2, <1>7 DEF Sets, TypeInv, TypeOK
    <2>2. cmd[c].tok \in Token BY <1>7 DEF Sets, TypeInv, HasToken
    <2> QED BY <1>1, <2>1, <2>2, NoTokenAssumption
<1>8. CASE cmd[d].pc = "drop_file" /\ keyring'[Profile(d)] = keyring[Profile(d)]
    BY <1>1, <1>6, <1>8 DEF IInv, Behind
<1>9. CASE Forgets(c, k) /\ Profile(c) = Profile(d)
    <2>1. cmd[c].req.kind = "logout"
        BY <1>9 DEF Forgets, IInv, KindFits, LogoutPcs, Kind
    <2> QED BY <1>6, <1>9, <2>1 DEF SignsOut, Forgets, At
<1>10. Sets(c, k) \/ Forgets(c, k) \/ keyring' = keyring
    BY DEF Moves, Aborts, GoesOn, Begins, Issues, Drops, Opens, Puts, Renames,
           Records, Resolves, Revokes, DropsCopy, DropsRecord, Quiet
<1>11. Profile(c) # Profile(d) => keyring'[Profile(d)] = keyring[Profile(d)]
    BY <1>2, <1>10 DEF Sets, Forgets, TypeInv, TypeOK
<1>12. cmd[d].pc = "drop_file" \/ (d = c /\ Sets(c, k))
    <2>1. k.pc = "drop_file" => Sets(c, k)
        BY DEF Moves, Aborts, GoesOn, Begins, Issues, Drops, Opens, Puts, Renames, Records,
               Resolves, Revokes, Forgets, DropsCopy, DropsRecord
    <2> QED BY <2>1, MoveFrame
<1> QED BY <1>7, <1>8, <1>9, <1>10, <1>11, <1>12

\* What a logout has forgotten stays forgotten, whatever others store.
LEMMA ForgottenNext ==
    ASSUME TypeInv, IInv, NEW c \in Commands, NEW k \in CommandState, Moves(c, k)
    PROVE  Forgotten'
<1> SUFFICES ASSUME NEW d \in Commands, ~cmd'[d].muted
             PROVE  /\ cmd'[d].pc = "drop_copy" /\ ~cmd'[d].failed
                        => keyring'[Profile(d)'] \notin cmd'[d].held
                    /\ cmd'[d].pc = "drop_record" \/ Answered(d, "logout")'
                        => cmd'[d].held \intersect Stored(Profile(d))' = {}
    BY DEF Forgotten
<1> DEFINE p == Profile(d)
           after == {keyring'[p], file'[p]} \ {NoToken, Blank, Torn}
<1>1. Profile(d)' = p /\ Stored(Profile(d))' = after BY MoveFrame DEF Stored
<1>2. p \in Profiles /\ cmd[d] \in CommandState BY ProcessType
<1>8. p = Profile(d) OBVIOUS
<1> HIDE DEF p
<1>3. keyring \in [Profiles -> Token \union {NoToken}]
      /\ file \in [Profiles -> Contents]
      /\ keyring' \in [Profiles -> Token \union {NoToken}]
      /\ file' \in [Profiles -> Contents]
    BY MoveTypes DEF TypeInv, TypeOK
<1>4. ASSUME NEW t \in cmd[d].held, cmd[d].pc # "idle", t \in after
      PROVE  t \in Stored(p) /\ (t = keyring'[p] => t = keyring[p])
    <2>1. cmd[c].pc \in {"save", "write_temp"} => t.by # c
        BY <1>4 DEF IInv, NotYet, Early
    <2>3. t \in Stored(p) BY <1>2, <1>4, EitherAfter
    <2>4. keyring'[p] \in {keyring[p], NoToken, cmd[c].tok}
        /\ (keyring'[p] \notin {keyring[p], NoToken} =>
                keyring'[p].by = c /\ cmd[c].pc = "save")
        BY <1>2, <1>3 DEF Moves, Aborts, GoesOn, Begins, Issues, Sets, Drops, Opens, Puts, Renames,
              Records, Resolves, Revokes, Forgets, DropsCopy, DropsRecord, Quiet,
              TypeInv, HasToken
    <2> QED BY <1>4, <2>1, <2>3, <2>4
<1>5. {NoToken, Blank, Torn} \intersect cmd[d].held = {}
    BY <1>2, NoTokenAssumption DEF CommandState
<1>6. CASE d # c
    <2>1. cmd'[d] = cmd[d] BY <1>6, MoveFrame
    <2>2. ASSUME cmd[d].pc = "drop_copy", ~cmd[d].failed
          PROVE  keyring'[p] \notin cmd[d].held
        <3>1. keyring[p] \notin cmd[d].held
            BY <1>8, <2>1, <2>2 DEF IInv, Forgotten
        <3> QED BY <1>4, <1>5, <2>2, <3>1
    <2>3. ASSUME cmd[d].pc = "drop_record" \/ Answered(d, "logout")
          PROVE  cmd[d].held \intersect after = {}
        <3>1. cmd[d].held \intersect Stored(p) = {}
            BY <1>8, <2>1, <2>3 DEF IInv, Forgotten
        <3>2. cmd[d].pc # "idle" BY <2>3 DEF Answered
        <3> QED BY <1>4, <3>1, <3>2
    <2>4. Answered(d, "logout")' = Answered(d, "logout") BY <2>1 DEF Answered
    <2> QED BY <1>1, <2>1, <2>2, <2>3, <2>4
<1>7. CASE d = c
    <2>1. cmd'[d] = k BY <1>7, MoveFrame
    <2>2. k.pc = "drop_copy" => Forgets(c, k)
        BY DEF Moves, Aborts, GoesOn, Begins, Issues, Sets, Drops, Opens, Puts, Renames, Records,
               Resolves, Revokes, DropsCopy, DropsRecord
    <2>3. ASSUME k.pc = "drop_copy", ~k.failed PROVE keyring'[p] \notin k.held
        <3>1. keyring'[p] = NoToken
            BY <1>2, <1>3, <1>7, <1>8, <2>1, <2>2, <2>3 DEF Forgets
        <3>2. k.held = cmd[d].held
            BY <1>7, <2>2, <2>3 DEF Moves, Forgets
        <3> QED BY <1>5, <3>1, <3>2
    <2>4. k.pc = "drop_record" => DropsCopy(c, k)
        BY DEF Moves, Aborts, GoesOn, Begins, Issues, Sets, Drops, Opens, Puts, Renames, Records,
               Resolves, Revokes, Forgets, DropsRecord
    <2>5. ASSUME k.pc = "drop_record" PROVE k.held \intersect after = {}
        <3>1. file'[p] = NoToken /\ keyring'[p] = keyring[p]
            BY <1>2, <1>3, <1>7, <1>8, <2>4, <2>5 DEF DropsCopy, Remove
        <3>2. cmd[c].pc = "drop_copy" /\ ~cmd[c].failed /\ ~cmd[c].muted
            BY <1>7, <2>1, <2>4, <2>5 DEF DropsCopy
        <3>3. keyring[p] \notin cmd[c].held
            BY <1>7, <1>8, <3>2 DEF IInv, Forgotten
        <3>4. k.held = cmd[c].held BY <3>2 DEF Moves
        <3> QED BY <3>1, <3>3, <3>4
    <2>6. ASSUME k.pc = "done", k.outcome = "ok", Kind(c) = "logout"
          PROVE  k.held \intersect after = {}
        <3>1. DropsRecord(c, k) \/ Records(c, k)
            BY <2>6 DEF Moves, Aborts, GoesOn, Begins, Issues, Sets, Drops, Opens, Puts, Renames,
                    Resolves, Revokes, Forgets, DropsCopy
        <3>2. ~Records(c, k)
            BY <2>6 DEF Records, IInv, KindFits, LoginPcs
        <3>3. cmd[c].pc = "drop_record" /\ ~cmd[c].muted /\ UNCHANGED <<keyring, file>>
            BY <1>7, <2>1, <3>1, <3>2 DEF DropsRecord
        <3>4. cmd[c].held \intersect Stored(p) = {}
            BY <1>7, <1>8, <3>3 DEF IInv, Forgotten, Answered
        <3>5. k.held = cmd[c].held BY <3>3 DEF Moves
        <3> QED BY <3>3, <3>4, <3>5 DEF Stored
    <2>7. Answered(d, "logout")' => k.pc = "done" /\ k.outcome = "ok" /\ Kind(c) = "logout"
        BY <1>7, <2>1, MoveFrame DEF Answered, Kind
    <2> QED BY <1>1, <2>1, <2>3, <2>5, <2>6, <2>7
<1> QED BY <1>6, <1>7

LEMMA RevokedNext ==
    ASSUME TypeInv, IInv, NEW c \in Commands, NEW k \in CommandState, Moves(c, k)
    PROVE  RevokedOrTold'
<1> SUFFICES ASSUME NEW d \in Commands,
                    cmd'[d].pc \in {"forget", "drop_copy", "drop_record"},
                    cmd'[d].tok # NoToken, ~cmd'[d].told,
                    NEW t \in cmd'[d].held, t \in valid', SameGrant(t, cmd'[d].tok)
             PROVE  FALSE
    BY DEF RevokedOrTold, SameGrant
<1>1. ASSUME cmd[d].pc \in {"forget", "drop_copy", "drop_record"},
             cmd[d].tok = cmd'[d].tok, cmd[d].told = cmd'[d].told,
             cmd[d].held = cmd'[d].held
      PROVE  FALSE
    <2>1. t \notin valid BY <1>1 DEF IInv, RevokedOrTold, SameGrant
    <2>2. Issues(c, k) \/ valid' \subseteq valid
        BY DEF Moves, Aborts, GoesOn, Begins, Sets, Drops, Opens, Puts, Renames, Records,
               Resolves, Revokes, Forgets, DropsCopy, DropsRecord, Quiet
    <2>3. Issues(c, k) => t.by = c /\ cmd[c].pc = "exchange"
        BY <2>1 DEF Issues
    <2>4. Issues(c, k) => t.by # c
        BY <1>1, <2>3 DEF IInv, NotYet, Early
    <2> QED BY <2>1, <2>2, <2>3, <2>4
<1>2. CASE d # c BY <1>1, <1>2, MoveFrame
<1>3. CASE d = c
    <2>1. cmd'[d] = k BY <1>3, MoveFrame
    <2>2. Resolves(c, k) \/ Revokes(c, k) \/ Forgets(c, k) \/ DropsCopy(c, k)
        BY <2>1 DEF Moves, Aborts, GoesOn, Begins, Issues, Sets, Drops, Opens, Puts, Renames,
                    Records, DropsRecord
    <2>3. ~Resolves(c, k) BY <2>1 DEF Resolves
    <2>4. ~Revokes(c, k) BY <2>1 DEF Revokes
    <2>5. cmd[c].pc # "idle" /\ k.held = cmd[c].held
        BY <2>2, <2>3, <2>4 DEF Moves, Forgets, DropsCopy
    <2> QED BY <1>1, <1>3, <2>1, <2>2, <2>3, <2>4, <2>5 DEF Forgets, DropsCopy
<1> QED BY <1>2, <1>3

\* Every step keeps the invariant.
LEMMA IInvNext == TypeInv /\ IInv /\ [Next]_vars => IInv'
<1> SUFFICES ASSUME TypeInv, IInv, [Next]_vars PROVE IInv' OBVIOUS
<1>1. ASSUME NEW c \in Commands, Step(c) \/ Redirect(c) \/ Kill(c) PROVE IInv'
    <2>1. PICK k \in CommandState : Moves(c, k) BY <1>1, StepMoves
    <2> QED BY <2>1, KindNext, NotYetNext, NotYetNamedNext, AloneNext, BehindNext,
               ForgottenNext, RevokedNext DEF IInv
<1>2. CASE UNCHANGED <<keyring, file, temp, handle, sharing, valid, cmd>>
    <2>1. KindFits' /\ Behind' /\ Forgotten' /\ RevokedOrTold'
        BY <1>2 DEF IInv, KindFits, Behind, Forgotten, RevokedOrTold, Stored,
                    SignsOut, Answered, Profile, Kind, At
    <2>2. NotYet' /\ NotYetNamed'
        BY <1>2 DEF IInv, NotYet, NotYetNamed, Stored, Profile
    <2>3. Alone' BY <1>2 DEF IInv, Alone, Writing, Beside, Profile, At
    <2> QED BY <2>1, <2>2, <2>3 DEF IInv
<1> QED BY <1>1, <1>2 DEF Next, RingTurns, vars, Temps

\* The invariant holds in every reachable state.
THEOREM Soundness == Spec => [](TypeInv /\ IInv)
BY TypeInit, TypeNext, IInvInit, IInvNext, PTL DEF Spec

-----------------------------------------------------------------------------
(* What follows from it.                                                   *)

\* A logout that answered has taken every token it found, unless the
\* keyring was silent.
THEOREM LogoutForgets == Spec => []SignedOutForgets
<1>1. IInv => SignedOutForgets BY DEF IInv, Forgotten, SignedOutForgets
<1> QED BY <1>1, Soundness, PTL

\* The grant ends before the local copies go, or the person is told.
THEOREM RevokedFirst == Spec => []RevokedOrTold
<1>1. IInv => RevokedOrTold BY DEF IInv
<1> QED BY <1>1, Soundness, PTL

\* Logins alone never leave a signed-in profile without a token, wherever
\* they fail or are killed and however they interleave, unless two of them
\* were at the profile's temporary file at once.
THEOREM LoginsKeepSignedIn == Spec => LoginNeverSignsOut
<1>1. ASSUME TypeInv, IInv, [Next]_vars, NEW p \in Profiles,
             Stored(p) # {}, Stored(p)' = {}
      PROVE  SignsOut(p) \/ TwoAtTheFile(p)
    <2>1. CASE UNCHANGED <<keyring, file>> BY <1>1, <2>1 DEF Stored
    <2>2. ASSUME NEW c \in Commands, Step(c) \/ Redirect(c) \/ Kill(c)
          PROVE  SignsOut(p) \/ TwoAtTheFile(p)
        <3>1. PICK k \in CommandState : Moves(c, k) BY <1>1, <2>2, StepMoves
        <3>2. Profile(c) \in Profiles BY <1>1, <2>2, ProcessType
        <3>3. /\ keyring \in [Profiles -> Token \union {NoToken}]
              /\ file \in [Profiles -> Contents] /\ temp \in [Profiles -> Contents]
              /\ handle[c] \in {"temp", "file", "gone"}
            BY <1>1, <2>2 DEF TypeInv, TypeOK
        <3>4. keyring'[p] \notin Token /\ file'[p] \notin Token
            BY <1>1, NoTokenAssumption DEF Stored
        <3>5. ~UNCHANGED <<keyring, file>> BY <1>1 DEF Stored
        <3>6. ~Sets(c, k) \/ Profile(c) # p
            BY <1>1, <3>2, <3>3, <3>4 DEF Sets, TypeInv, HasToken
        <3>7. (Puts(c, k) \/ Renames(c, k)) /\ Profile(c) = p => c \in sharing
            <4>1. CASE Puts(c, k) /\ c \notin sharing
                <5>1. handle[c] = "temp" BY <1>1, <2>2, <4>1 DEF Puts, IInv, Alone, At
                <5> QED BY <3>5, <4>1, <5>1 DEF Puts
            <4>2. CASE Renames(c, k) /\ c \notin sharing /\ Profile(c) = p
                <5>1. temp[p] = cmd[c].tok /\ cmd[c].tok \in Token
                    BY <1>1, <2>2, <4>2 DEF Renames, IInv, Alone, At, TypeInv, HasToken, Saved
                <5>2. file'[p] = temp[p] BY <3>2, <3>3, <4>2 DEF Renames
                <5> QED BY <3>4, <5>1, <5>2
            <4> QED BY <4>1, <4>2
        <3>8. Sets(c, k) \/ Drops(c, k) \/ Puts(c, k) \/ Renames(c, k)
                \/ Forgets(c, k) \/ DropsCopy(c, k)
            BY <3>1, <3>5 DEF Moves, Aborts, GoesOn, Begins, Issues, Opens, Records,
                        Resolves, Revokes, DropsRecord, Quiet
        <3>9. Profile(c) = p
            <4>1. CASE Profile(c) # p
                <5>1. keyring'[p] = keyring[p] /\ file'[p] = file[p]
                    BY <3>2, <3>3, <3>8, <4>1 DEF Sets, Drops, Puts, Renames, Forgets,
                                                  DropsCopy, Remove
                <5> QED BY <1>1, <5>1 DEF Stored
            <4> QED BY <4>1
        <3>10. Drops(c, k) => SignsOut(p)
            <4>1. SUFFICES ASSUME Drops(c, k), ~SignsOut(p) PROVE FALSE OBVIOUS
            <4>2. keyring[p] # NoToken BY <1>1, <2>2, <3>9, <4>1 DEF Drops, IInv, Behind
            <4>3. keyring'[p] \in Token BY <1>1, <3>3, <4>1, <4>2 DEF Drops
            <4> QED BY <3>4, <4>3
        <3>11. Forgets(c, k) \/ DropsCopy(c, k) => SignsOut(p)
            BY <1>1, <2>2, <3>9 DEF Forgets, DropsCopy, IInv, KindFits, LogoutPcs, Kind,
                                    SignsOut, At
        <3>12. Puts(c, k) \/ Renames(c, k) => TwoAtTheFile(p)
            BY <1>1, <2>2, <3>1, <3>7, <3>9, WritingAfter DEF TwoAtTheFile
        <3> QED BY <3>6, <3>8, <3>9, <3>10, <3>11, <3>12
    <2> QED BY <2>1, <2>2, <1>1 DEF Next, RingTurns, vars
<1>2. TypeInv /\ IInv /\ [Next]_vars
        => [\A p \in Profiles : Stored(p) # {} /\ Stored(p)' = {}
                => SignsOut(p) \/ TwoAtTheFile(p)]_vars
    BY <1>1
<1> QED BY <1>2, Soundness, PTL DEF Spec, LoginNeverSignsOut

-----------------------------------------------------------------------------
(* Changes: the inductive invariant.                                       *)

\* The types, and that reads and counts name moments that have been.
ChangesTypeInv ==
    /\ ChangesTypeOK
    /\ page.read.from <= seq
    /\ call.read.from <= seq /\ call.began.from <= seq
    /\ \A e \in Events : known[e] <= changed[e] /\ call.got[e] <= changed[e]

\* A page token, and the call under way, continue the read they began with;
\* an incremental one starts from the sync token the caller still holds.
SameRead ==
    /\ page.open => page.asof > 0
    /\ page.read.kind = "sync" => held # NoSyncToken /\ page.read.from = held
    /\ call.pc # "idle" =>
           /\ call.began = call.read
           /\ call.read.kind = "sync" => held # NoSyncToken /\ call.read.from = held
           /\ call.asof = 0 => call.at = 0
    /\ call.pc = "answer" => call.asof > 0 /\ (call.complete => call.at = Last)

\* Carried rows are not older than what was reported before.
GotIsNewer == \A e \in Events : call.got[e] > 0 => known[e] <= call.got[e]

\* A read since a moment cannot tell of the event.
Missed(r, e) == r.kind = "since" /\ updated[e] <= r.from

\* What a page token has passed was reported.
PageAccounts ==
    page.open /\ page.read.kind # "baseline" =>
        \A e \in Events :
            e <= page.at /\ page.read.from < changed[e] /\ changed[e] <= page.asof
            => known[e] = changed[e] \/ Missed(page.read, e)

\* What the call under way has passed was reported, or will be by its result.
CallAccounts ==
    call.pc # "idle" /\ call.read.kind # "baseline" =>
        \A e \in Events :
            e <= call.at /\ call.read.from < changed[e] /\ changed[e] <= call.asof
            => known[e] = changed[e] \/ call.got[e] = changed[e] \/ Missed(call.read, e)

Inv == /\ ChangesTypeInv /\ SameRead /\ GotIsNewer
       /\ PageAccounts /\ CallAccounts /\ TokenCoversReported

\* The calls of a state whose count is n.
Calls(n) == [pc: {"idle", "reading", "answer"}, read: Read, began: Read,
             budget: Nat \ {0}, at: 0 .. Last, asof: 0 .. n,
             requests: Nat, got: [Events -> 0 .. n], complete: BOOLEAN]

-----------------------------------------------------------------------------
(* The initial states, and the calls that begin.                           *)

\* No call has asked for anything.
LEMMA NoCallType ==
    /\ NoCall.pc = "idle" /\ NoCall.read = Baseline /\ NoCall.began = Baseline
    /\ NoCall.budget = 1 /\ NoCall.at = 0 /\ NoCall.asof = 0
    /\ NoCall.requests = 0 /\ NoCall.complete = FALSE
    /\ NoCall.got = [e \in Events |-> 0]
    /\ Baseline.kind = "baseline" /\ Baseline.from = 0 /\ Baseline \in Read
    /\ \A n \in Nat : NoCall \in Calls(n)
BY ChangesAssumption DEF NoCall, Baseline, Read, Calls

\* A call as it begins: of the read r, resumed from s, at i and as of t.
Begun(r, s, b, i, t) ==
    [pc |-> "reading", read |-> r, began |-> s, budget |-> b, at |-> i,
     asof |-> t, requests |-> 0, got |-> [e \in Events |-> 0],
     complete |-> FALSE]

LEMMA BegunType ==
    ASSUME NEW n \in Nat, NEW r \in Read, NEW s \in Read, NEW b \in Budgets,
           NEW i \in 0 .. Last, NEW t \in 0 .. n
    PROVE  Begun(r, s, b, i, t) \in Calls(n)
<1>1. b \in Nat \ {0} BY ChangesAssumption
<1>2. [e \in Events |-> 0] \in [Events -> 0 .. n] OBVIOUS
<1> QED BY <1>1, <1>2 DEF Calls, Begun

\* Initially nothing is promised.
LEMMA InitInv == ChangesInit => Inv
<1> SUFFICES ASSUME ChangesInit PROVE Inv OBVIOUS
<1>1. ChangesTypeOK
    <2>1. page \in [open: BOOLEAN, read: Read, at: 0 .. Last, asof: 0 .. seq]
        BY NoCallType, ChangesAssumption DEF ChangesInit, NoPage
    <2>2. /\ changed \in [Events -> 0 .. seq] /\ updated \in [Events -> 0 .. seq]
          /\ known \in [Events -> 0 .. seq]
        BY DEF ChangesInit
    <2>3. seq \in 1 .. MaxSeq /\ forgotten \in 0 .. MaxSeq
          /\ held \in 0 .. seq /\ base \in 0 .. seq /\ legacy \in 0 .. seq
          /\ strays \in 0 .. MaxStrays /\ fails \in 0 .. MaxFails
        BY ChangesAssumption DEF ChangesInit, NoSyncToken
    <2>4. seq \in Nat BY DEF ChangesInit
    <2> QED BY <2>1, <2>2, <2>3, <2>4, NoCallType DEF ChangesInit, ChangesTypeOK, Calls
<1>2. ChangesTypeInv
    BY <1>1, NoCallType DEF ChangesTypeInv, ChangesInit, NoPage
<1> QED BY <1>2, NoCallType
        DEF ChangesInit, Inv, SameRead, GotIsNewer, PageAccounts, CallAccounts,
            TokenCoversReported, NoPage, NoSyncToken

\* What a caller can ask for is a read, of a moment that has been.
LEMMA AskableType ==
    ASSUME ChangesTypeOK, NEW r \in Askable
    PROVE  /\ r \in Read /\ r.from <= seq
           /\ r.kind = "sync" => held # NoSyncToken /\ r.from = held
<1>1. seq \in Nat /\ held \in Nat /\ held <= seq BY DEF ChangesTypeOK
<1>2. CASE r = Baseline BY <1>1, <1>2 DEF Baseline, Read
<1>3. CASE \E n \in 0 .. seq - 1 : r = Since(n)
    <2>1. PICK n \in 0 .. seq - 1 : r = Since(n) BY <1>3
    <2> QED BY <1>1, <2>1 DEF Since, Read
<1>4. CASE held # NoSyncToken /\ r = Sync(held) BY <1>1, <1>4 DEF Sync, Read
<1> QED BY <1>2, <1>3, <1>4 DEF Askable

\* A call that begins has carried nothing and passed nothing.
LEMMA AskInv ==
    ASSUME Inv, NEW r, r \in Read, r.from <= seq,
           r.kind = "sync" => held # NoSyncToken /\ r.from = held,
           NEW b \in Budgets, Ask(r, b), strays' \in 0 .. MaxStrays,
           UNCHANGED <<seq, changed, updated, forgotten, held, page, known, base, legacy, fails>>
    PROVE  Inv'
<1>1. seq \in Nat /\ 0 \in 0 .. seq /\ 0 \in 0 .. Last
    BY ChangesAssumption DEF Inv, ChangesTypeInv, ChangesTypeOK
<1>2. call' = Begun(r, r, b, 0, 0)
    BY DEF Ask, NoCall, Begun
<1>3. /\ call' \in Calls(seq)
      /\ call'.pc = "reading" /\ call'.read = r /\ call'.began = r
      /\ call'.at = 0 /\ call'.asof = 0 /\ call'.got = [e \in Events |-> 0]
    <2>1. call' \in Calls(seq) BY <1>1, <1>2, BegunType
    <2> QED BY <2>1, <1>2 DEF Begun
<1>4. ChangesTypeInv' BY <1>3 DEF Inv, ChangesTypeInv, ChangesTypeOK, Calls
<1>5. SameRead' BY <1>3 DEF Inv, SameRead
<1>6. GotIsNewer' BY <1>3 DEF GotIsNewer
<1>7. CallAccounts' BY <1>3 DEF CallAccounts, Events
<1>8. PageAccounts' /\ TokenCoversReported'
    BY DEF Inv, PageAccounts, TokenCoversReported, Untold, Missed
<1> QED BY <1>4, <1>5, <1>6, <1>7, <1>8 DEF Inv

\* A call that resumes has passed what its page token had.
LEMMA ResumeInv ==
    ASSUME Inv, NEW r, Accepts(r), NEW b \in Budgets, Resumes(r, b),
           strays' \in 0 .. MaxStrays,
           UNCHANGED <<seq, changed, updated, forgotten, held, page, known, base, legacy, fails>>
    PROVE  Inv'
<1>1. r = page.read /\ page.open BY DEF Accepts
<1>2. seq \in Nat /\ page.read \in Read /\ page.at \in 0 .. Last
      /\ page.asof \in 0 .. seq
    BY DEF Inv, ChangesTypeInv, ChangesTypeOK
<1>3. /\ call' \in Calls(seq)
      /\ call'.pc = "reading" /\ call'.read = r /\ call'.began = r
      /\ call'.at = page.at /\ call'.asof = page.asof
      /\ call'.got = [e \in Events |-> 0]
    <2>1. call' = Begun(r, r, b, page.at, page.asof)
        BY <1>1 DEF Resumes, NoCall, Begun
    <2>2. Begun(r, r, b, page.at, page.asof) \in Calls(seq)
        BY <1>1, <1>2, BegunType
    <2> QED BY <2>1, <2>2 DEF Begun
<1>4. ChangesTypeInv' BY <1>1, <1>3 DEF Inv, ChangesTypeInv, ChangesTypeOK, Calls
<1>5. SameRead' BY <1>1, <1>3 DEF Inv, SameRead
<1>6. GotIsNewer' BY <1>3 DEF GotIsNewer
<1>7. CallAccounts' BY <1>1, <1>3 DEF Inv, PageAccounts, CallAccounts, Missed
<1>8. PageAccounts' /\ TokenCoversReported'
    BY DEF Inv, PageAccounts, TokenCoversReported, Untold, Missed
<1> QED BY <1>4, <1>5, <1>6, <1>7, <1>8 DEF Inv

-----------------------------------------------------------------------------
(* The pages and the result.                                               *)

\* A page carries what it passes.
LEMMA ReadPageInv == Inv /\ ReadPage => Inv'
<1> SUFFICES ASSUME Inv, ReadPage PROVE Inv' OBVIOUS
<1>0. /\ call \in Calls(seq) /\ seq \in Nat /\ seq > 0 /\ call.pc = "reading"
      /\ changed \in [Events -> 0 .. seq] /\ updated \in [Events -> 0 .. seq]
      /\ known \in [Events -> 0 .. seq]
      /\ \A e \in Events : known[e] <= changed[e] /\ call.got[e] <= changed[e]
    BY DEF Inv, ChangesTypeInv, ChangesTypeOK, Calls, ReadPage
<1>1. /\ call.began = call.read
      /\ call.read.kind = "sync" => held # NoSyncToken /\ call.read.from = held
      /\ call.asof = 0 => call.at = 0
    BY <1>0 DEF Inv, SameRead
<1>2. PICK to \in call.at .. Last, more \in BOOLEAN :
        LET sent == Between(call.read, call.at, to)
            got == [e \in Events |->
                IF e \in sent /\ Carries(call.got) THEN changed[e]
                ELSE call.got[e]]
        IN /\ Between(call.read, to, Last) # {} => more
           /\ call' = [call EXCEPT
                !.pc = IF ~more \/ StopsHere(got, call.requests + 1)
                       THEN "answer" ELSE "reading",
                !.at = IF more THEN to ELSE Last,
                !.asof = IF @ = 0 THEN seq ELSE @,
                !.requests = @ + 1,
                !.got = got,
                !.complete = ~more]
    BY DEF ReadPage
<1> DEFINE sent == Between(call.read, call.at, to)
           got == [e \in Events |->
                    IF e \in sent /\ Carries(call.got) THEN changed[e]
                    ELSE call.got[e]]
           pc == IF ~more \/ StopsHere(got, call.requests + 1)
                 THEN "answer" ELSE "reading"
           at == IF more THEN to ELSE Last
           asof == IF call.asof = 0 THEN seq ELSE call.asof
<1>3. call' = [call EXCEPT !.pc = pc, !.at = at, !.asof = asof,
                 !.requests = call.requests + 1, !.got = got, !.complete = ~more]
    BY <1>2
<1>4. pc \in {"reading", "answer"} /\ at \in 0 .. Last /\ asof \in 1 .. seq
    BY <1>0, <1>2, ChangesAssumption DEF Calls
<1>5. got \in [Events -> 0 .. seq] /\ \A e \in Events : got[e] <= changed[e]
    BY <1>0 DEF Calls
<1> HIDE DEF pc, got, at, asof
<1>6. /\ call' \in Calls(seq) /\ call'.pc = pc /\ call'.at = at
      /\ call'.asof = asof /\ call'.got = got /\ call'.complete = ~more
      /\ call'.read = call.read /\ call'.began = call.began
    <2>1. /\ call'.pc = pc /\ call'.at = at /\ call'.asof = asof
          /\ call'.got = got /\ call'.complete = ~more
          /\ call'.read = call.read /\ call'.began = call.began
          /\ call'.budget = call.budget /\ call'.requests = call.requests + 1
        BY <1>0, <1>3 DEF Calls
    <2>2. (~more) \in BOOLEAN OBVIOUS
    <2>3. /\ call.requests + 1 \in Nat /\ call.read \in Read
          /\ call.began \in Read /\ call.budget \in Nat \ {0}
        BY <1>0 DEF Calls
    <2>4. call' = [pc |-> pc, read |-> call.read, began |-> call.began,
                   budget |-> call.budget, at |-> at, asof |-> asof,
                   requests |-> call.requests + 1, got |-> got,
                   complete |-> ~more]
        BY <1>0, <1>3 DEF Calls
    <2>5. \A m \in BOOLEAN :
            [pc |-> pc, read |-> call.read, began |-> call.began,
             budget |-> call.budget, at |-> at, asof |-> asof,
             requests |-> call.requests + 1, got |-> got,
             complete |-> m] \in Calls(seq)
        BY <1>0, <1>4, <1>5, <2>3 DEF Calls
    <2> QED BY <2>1, <2>2, <2>4, <2>5
<1>7. UNCHANGED <<seq, changed, updated, forgotten, held, page, known, base, legacy, strays, fails>>
    BY DEF ReadPage
<1>8. ChangesTypeInv' BY <1>5, <1>6, <1>7 DEF Inv, ChangesTypeInv, ChangesTypeOK, Calls
<1>9. SameRead'
    <2>1. asof # 0 /\ asof > 0 /\ (~more => at = Last)
        BY <1>4 DEF at
    <2>2. /\ page'.open => page'.asof > 0
          /\ page'.read.kind = "sync" => held' # NoSyncToken /\ page'.read.from = held'
        BY <1>7 DEF Inv, SameRead
    <2>3. /\ call'.began = call'.read
          /\ call'.read.kind = "sync" => held' # NoSyncToken /\ call'.read.from = held'
          /\ call'.asof # 0 /\ call'.asof > 0
          /\ call'.complete => call'.at = Last
        BY <1>1, <1>6, <1>7, <2>1
    <2> QED BY <2>2, <2>3 DEF SameRead
<1>10. GotIsNewer'
    BY <1>0, <1>6, <1>7 DEF got, Inv, GotIsNewer
<1>11. CallAccounts'
    <2> SUFFICES ASSUME call.read.kind # "baseline", NEW e \in Events, e <= at,
                        call.read.from < changed[e], changed[e] <= asof
                 PROVE  known[e] = changed[e] \/ got[e] = changed[e] \/ Missed(call.read, e)
        BY <1>6, <1>7 DEF CallAccounts, Missed
    <2> USE DEF at, asof
    <2>1. Carries(call.got) BY DEF Carries
    <2>2. call.at \in Nat /\ e \in 1 .. Last /\ to \in Nat /\ Last \in Nat
        BY <1>0, <1>2, ChangesAssumption DEF Calls, Events
    <2>3. CASE e <= call.at
        <3>1. call.asof # 0 BY <1>1, <2>2, <2>3
        <3>2. known[e] = changed[e] \/ call.got[e] = changed[e] \/ Missed(call.read, e)
            BY <1>0, <2>3, <3>1 DEF Inv, CallAccounts
        <3> QED BY <3>2 DEF got
    <2>4. Missed(call.read, e) \/ GoesBy(call.read)[e] > call.read.from
        <3>1. updated[e] \in Nat /\ call.read.from \in Nat
            BY <1>0 DEF Calls, Read
        <3> QED BY <3>1 DEF Missed, GoesBy
    <2>5. CASE call.at < e /\ e <= to
        BY <2>1, <2>4, <2>5 DEF got, Between
    <2>6. CASE to < e
        <3>1. ~more BY <2>6, <2>2
        <3>2. Missed(call.read, e) \/ e \in Between(call.read, to, Last)
            BY <2>2, <2>4, <2>6 DEF Between
        <3> QED BY <1>2, <3>1, <3>2
    <2> QED BY <2>2, <2>3, <2>5, <2>6
<1>12. PageAccounts' /\ TokenCoversReported'
    BY <1>7 DEF Inv, PageAccounts, TokenCoversReported, Untold, Missed
<1> QED BY <1>8, <1>9, <1>10, <1>11, <1>12 DEF Inv

\* What a result reports is what the call carried, or was reported before.
LEMMA AnswerReports ==
    ASSUME Inv, Answer
    PROVE  /\ known' \in [Events -> 0 .. seq]
           /\ \A e \in Events :
                /\ known'[e] <= changed[e]
                /\ known[e] = changed[e] => known'[e] = changed[e]
                /\ changed[e] > 0 /\ call.got[e] = changed[e]
                   => known'[e] = changed[e]
<1>1. /\ changed \in [Events -> 0 .. seq] /\ known \in [Events -> 0 .. seq]
      /\ call.got \in [Events -> 0 .. seq] /\ seq \in Nat
      /\ \A e \in Events : known[e] <= changed[e] /\ call.got[e] <= changed[e]
      /\ \A e \in Events : call.got[e] > 0 => known[e] <= call.got[e]
    BY DEF Inv, ChangesTypeInv, ChangesTypeOK, GotIsNewer
<1>2. known' = [e \in Events |->
            IF call.got[e] > 0 THEN call.got[e] ELSE known[e]]
    BY DEF Answer
<1> QED BY <1>1, <1>2

\* A sync token comes with the last of what it covers.
LEMMA AnswerInv == Inv /\ Answer => Inv'
<1> SUFFICES ASSUME Inv, Answer PROVE Inv' OBVIOUS
<1>0. /\ call \in Calls(seq) /\ seq \in Nat /\ call.pc = "answer"
      /\ page \in [open: BOOLEAN, read: Read, at: 0 .. Last, asof: 0 .. seq]
      /\ changed \in [Events -> 0 .. seq]
      /\ held \in 0 .. seq /\ base \in 0 .. seq /\ legacy \in 0 .. seq
      /\ call.read.from <= seq
    BY DEF Inv, ChangesTypeInv, ChangesTypeOK, Calls, Answer
<1>1. /\ call.began = call.read
      /\ call.read.kind = "sync" => held # NoSyncToken /\ call.read.from = held
      /\ call.asof > 0 /\ (call.complete => call.at = Last)
    BY <1>0 DEF Inv, SameRead
<1>2. /\ call' = NoCall
      /\ UNCHANGED <<seq, changed, updated, forgotten, strays, fails>>
    BY DEF Answer
<1>3. /\ call'.pc = "idle" /\ call'.read.from <= seq /\ call'.began.from <= seq
      /\ call'.got = [e \in Events |-> 0] /\ call' \in Calls(seq)
    BY <1>0, <1>2, NoCallType
<1>4. call.read \in Read /\ call.at \in 0 .. Last /\ call.asof \in 0 .. seq
      /\ call.read.from \in Nat
    BY <1>0 DEF Calls, Read
\* What the call passed is reported now.
<1>5. call.read.kind # "baseline" =>
        \A e \in Events :
            e <= call.at /\ call.read.from < changed[e] /\ changed[e] <= call.asof
            => known'[e] = changed[e] \/ Missed(call.read, e)
    <2>1. CallAccounts BY DEF Inv
    <2>2. \A e \in Events : changed[e] \in Nat BY <1>0
    <2> QED BY <1>0, <1>4, <2>1, <2>2, AnswerReports DEF CallAccounts
<1>6. GotIsNewer' BY <1>3 DEF GotIsNewer
<1>7. CallAccounts' BY <1>3 DEF CallAccounts
<1>8. CASE call.complete
    <2>1. /\ held' = call.asof /\ page' = NoPage
          /\ base' = CASE call.began.kind = "baseline" -> call.asof
                       [] call.began.kind = "since" -> call.began.from
                       [] OTHER -> base
          /\ legacy' = IF call.began.kind = "sync" THEN legacy ELSE call.asof
        BY <1>8 DEF Answer
    <2>2. page'.open = FALSE /\ page'.read = Baseline /\ page'.read.from <= seq
          /\ page' \in [open: BOOLEAN, read: Read, at: 0 .. Last, asof: 0 .. seq]
        BY <1>0, <2>1, NoCallType, ChangesAssumption DEF NoPage
    <2>3. held' \in 0 .. seq /\ base' \in 0 .. seq /\ legacy' \in 0 .. seq
        BY <1>0, <1>1, <1>4, <2>1
    <2>4. ChangesTypeInv'
        BY <1>2, <1>3, <2>2, <2>3, AnswerReports
           DEF Inv, ChangesTypeInv, ChangesTypeOK, Calls
    <2>5. SameRead' /\ PageAccounts'
        BY <1>3, <2>2, NoCallType DEF SameRead, PageAccounts
    <2>6. TokenCoversReported'
        <3> SUFFICES ASSUME NEW e \in Events,
                            base' < changed[e], changed[e] <= held'
                     PROVE  known'[e] = changed[e] \/ (updated[e] <= base' /\ changed[e] <= legacy')
            BY <1>2 DEF TokenCoversReported, Untold
        <3>1. e <= call.at /\ changed[e] \in Nat /\ changed[e] <= call.asof
            BY <1>0, <1>1, <1>8, <2>1, ChangesAssumption DEF Events
        <3>2. call.read.kind # "baseline"
            BY <1>1, <1>4, <2>1, <3>1
        <3>3. CASE call.read.kind = "since"
            BY <1>1, <1>5, <2>1, <3>1, <3>2, <3>3 DEF Missed
        <3>4. CASE call.read.kind = "sync"
            <4>1. /\ base' = base /\ legacy' = legacy
                  /\ held # NoSyncToken /\ call.read.from = held
                BY <1>1, <2>1, <3>4
            <4>2. CASE changed[e] <= held
                <5>1. known[e] = changed[e] \/ Untold(e)
                    BY <3>1, <4>1, <4>2 DEF Inv, TokenCoversReported
                <5> QED BY <4>1, <5>1, AnswerReports DEF Untold
            <4>3. CASE held < changed[e]
                BY <1>5, <3>1, <3>2, <3>4, <4>1, <4>3 DEF Missed
            <4> QED BY <1>0, <3>1, <4>2, <4>3
        <3> QED BY <1>4, <3>2, <3>3, <3>4 DEF Read
    <2> QED BY <1>6, <1>7, <2>4, <2>5, <2>6 DEF Inv
<1>9. CASE ~call.complete
    <2>1. /\ page' = [open |-> TRUE, read |-> call.read,
                      at |-> call.at, asof |-> call.asof]
          /\ held' = held /\ base' = base /\ legacy' = legacy
        BY <1>9 DEF Answer
    <2>2. ChangesTypeInv'
        BY <1>0, <1>2, <1>3, <1>4, <2>1, AnswerReports
           DEF Inv, ChangesTypeInv, ChangesTypeOK, Calls
    <2>3. SameRead' BY <1>1, <1>3, <2>1 DEF SameRead
    <2>4. PageAccounts' BY <1>2, <1>5, <2>1 DEF PageAccounts, Missed
    <2>5. TokenCoversReported'
        BY <1>2, <2>1, AnswerReports DEF Inv, TokenCoversReported, Untold
    <2> QED BY <1>6, <1>7, <2>2, <2>3, <2>4, <2>5 DEF Inv
<1> QED BY <1>8, <1>9

\* A call that stops without a result leaves the tokens as they were.
LEMMA StopInv ==
    ASSUME Inv, call' = NoCall, fails' \in 0 .. MaxFails,
           UNCHANGED <<seq, changed, updated, forgotten, held, page, known, base, legacy, strays>>
    PROVE  Inv'
<1>1. /\ call'.pc = "idle" /\ call'.read.from <= seq /\ call'.began.from <= seq
      /\ call'.got = [e \in Events |-> 0] /\ call' \in Calls(seq)
    BY NoCallType DEF Inv, ChangesTypeInv, ChangesTypeOK
<1>2. ChangesTypeInv' BY <1>1 DEF Inv, ChangesTypeInv, ChangesTypeOK, Calls
<1>3. SameRead' BY <1>1 DEF Inv, SameRead
<1>4. GotIsNewer' /\ CallAccounts' BY <1>1 DEF GotIsNewer, CallAccounts
<1>5. PageAccounts' /\ TokenCoversReported'
    BY DEF Inv, PageAccounts, TokenCoversReported, Untold, Missed
<1> QED BY <1>2, <1>3, <1>4, <1>5 DEF Inv

-----------------------------------------------------------------------------
(* Google and everybody else.                                              *)

\* A change is newer than every token and every read.
LEMMA ChangeInv == ASSUME Inv, NEW e \in Events, Change(e) PROVE Inv'
<1>0. /\ seq \in Nat /\ MaxSeq \in Nat /\ seq < MaxSeq /\ seq' = seq + 1
      /\ changed' = [changed EXCEPT ![e] = seq + 1]
      /\ updated' = [updated EXCEPT ![e] = seq + 1] \/ updated' = updated
      /\ UNCHANGED <<forgotten, held, page, call, known, base, legacy, strays, fails>>
    BY ChangesAssumption DEF Inv, ChangesTypeInv, ChangesTypeOK, Change
<1>1. /\ changed \in [Events -> 0 .. seq] /\ updated \in [Events -> 0 .. seq]
      /\ known \in [Events -> 0 .. seq] /\ legacy \in 0 .. seq
      /\ call \in Calls(seq) /\ held \in 0 .. seq /\ base \in 0 .. seq
      /\ page \in [open: BOOLEAN, read: Read, at: 0 .. Last, asof: 0 .. seq]
    BY DEF Inv, ChangesTypeInv, ChangesTypeOK, Calls
<1>2. /\ changed' \in [Events -> 0 .. seq'] /\ changed'[e] = seq + 1
      /\ updated' \in [Events -> 0 .. seq']
      /\ \A d \in Events :
            d # e => changed'[d] = changed[d] /\ updated'[d] = updated[d]
      /\ \A d \in Events : changed[d] <= changed'[d] /\ changed[d] \in 0 .. seq
    BY <1>0, <1>1
<1>3. 0 .. seq \subseteq 0 .. seq' BY <1>0
<1>4. /\ known' \in [Events -> 0 .. seq'] /\ call'.got \in [Events -> 0 .. seq']
      /\ \A d \in Events : known[d] \in 0 .. seq /\ call.got[d] \in 0 .. seq
    BY <1>0, <1>1, <1>3 DEF Calls
<1>5. call' \in Calls(seq')
    BY <1>0, <1>1, <1>3, <1>4 DEF Calls
<1>6. page' \in [open: BOOLEAN, read: Read, at: 0 .. Last, asof: 0 .. seq']
    BY <1>0, <1>1, <1>3
<1>7. ChangesTypeInv'
    <2>1. ChangesTypeOK'
        BY <1>0, <1>1, <1>2, <1>3, <1>4, <1>5, <1>6 DEF Inv, ChangesTypeInv, ChangesTypeOK, Calls
    <2>2. /\ page'.read.from <= seq' /\ call'.read.from <= seq'
          /\ call'.began.from <= seq'
        <3>1. /\ page.read.from \in Nat /\ call.read.from \in Nat
              /\ call.began.from \in Nat
            BY <1>1 DEF Calls, Read
        <3> QED BY <1>0, <3>1 DEF Inv, ChangesTypeInv
    <2>3. \A d \in Events : known'[d] <= changed'[d] /\ call'.got[d] <= changed'[d]
        BY <1>0, <1>2, <1>4 DEF Inv, ChangesTypeInv
    <2> QED BY <2>1, <2>2, <2>3 DEF ChangesTypeInv
<1>8. SameRead' /\ GotIsNewer' BY <1>0 DEF Inv, SameRead, GotIsNewer
<1>9. page.asof \in 0 .. seq /\ call.asof \in 0 .. seq BY <1>1 DEF Calls
<1>10. ASSUME NEW d \in Events, NEW n \in 0 .. seq, changed'[d] <= n
       PROVE  changed'[d] = changed[d] /\ updated'[d] = updated[d]
    BY <1>0, <1>2, <1>10
<1>11. PageAccounts'
    BY <1>0, <1>9, <1>10 DEF Inv, PageAccounts, Missed
<1>12. CallAccounts'
    BY <1>0, <1>9, <1>10 DEF Inv, CallAccounts, Missed
<1>13. TokenCoversReported'
    BY <1>0, <1>1, <1>10 DEF Inv, TokenCoversReported, Untold
<1> QED BY <1>7, <1>8, <1>11, <1>12, <1>13 DEF Inv

\* What Google forgets, no token says.
LEMMA ExpireInv == ASSUME Inv, NEW n \in 1 .. MaxSeq, Expire(n) PROVE Inv'
<1>1. /\ forgotten' \in 0 .. MaxSeq
      /\ UNCHANGED <<seq, changed, updated, held, page, call, known, base, legacy, strays, fails>>
    BY ChangesAssumption DEF Expire
<1> QED BY <1>1
        DEF Inv, ChangesTypeInv, ChangesTypeOK, SameRead, GotIsNewer, PageAccounts,
            CallAccounts, TokenCoversReported, Missed, Untold

-----------------------------------------------------------------------------
(* Every step preserves the invariant.                                     *)

\* Everything a caller may begin or resume, advised or not.
LEMMA CallStep ==
    ASSUME Inv, NEW r \in Askable \union {page.read}, NEW b \in Budgets,
           Ask(r, b) \/ (Accepts(r) /\ Resumes(r, b)),
           strays' \in 0 .. MaxStrays,
           UNCHANGED <<seq, changed, updated, forgotten, held, page, known, base, legacy, fails>>
    PROVE  Inv'
<1>1. CASE Ask(r, b)
    <2>1. ChangesTypeOK BY DEF Inv, ChangesTypeInv
    <2>2. /\ r \in Read /\ r.from <= seq
          /\ r.kind = "sync" => held # NoSyncToken /\ r.from = held
        <3>1. CASE r \in Askable BY <2>1, <3>1, AskableType
        <3>2. CASE r = page.read BY <3>2 DEF Inv, ChangesTypeInv, ChangesTypeOK, SameRead
        <3> QED BY <3>1, <3>2
    <2> QED BY <1>1, <2>2, AskInv
<1>2. CASE Accepts(r) /\ Resumes(r, b) BY <1>2, ResumeInv
<1> QED BY <1>1, <1>2

\* What the tool's description says to do is something a caller may do.
LEMMA FollowInv == ASSUME Inv, NEW b \in Budgets, Follow(b) PROVE Inv'
<1>1. \E r \in Askable \union {page.read} :
            Ask(r, b) \/ (Accepts(r) /\ Resumes(r, b))
    BY DEF Follow, Askable
<1>2. strays' \in 0 .. MaxStrays BY DEF Follow, Inv, ChangesTypeInv, ChangesTypeOK
<1>3. UNCHANGED <<seq, changed, updated, forgotten, held, page, known, base, legacy, fails>>
    BY DEF Follow
<1> QED BY <1>1, <1>2, <1>3, CallStep

LEMMA StrayInv ==
    ASSUME Inv, NEW r \in Askable \union {page.read}, NEW b \in Budgets,
           Stray(r, b)
    PROVE  Inv'
<1>1. strays' \in 0 .. MaxStrays
    BY ChangesAssumption DEF Stray, Inv, ChangesTypeInv, ChangesTypeOK
<1>2. UNCHANGED <<seq, changed, updated, forgotten, held, page, known, base, legacy, fails>>
    BY DEF Stray
<1>3. Ask(r, b) \/ (Accepts(r) /\ Resumes(r, b)) BY DEF Stray
<1> QED BY <1>1, <1>2, <1>3, CallStep

LEMMA InvStep == Inv /\ [ChangesNext]_changesVars => Inv'
<1> SUFFICES ASSUME Inv, [ChangesNext]_changesVars PROVE Inv' OBVIOUS
<1>1. ASSUME NEW r \in Askable \union {page.read}, NEW b \in Budgets,
             Stray(r, b)
      PROVE  Inv'
    BY <1>1, StrayInv
<1>2. ASSUME NEW b \in Budgets, Follow(b) PROVE Inv' BY <1>2, FollowInv
<1>3. CASE ReadPage BY <1>3, ReadPageInv
<1>4. CASE Answer BY <1>4, AnswerInv
<1>5. CASE Stale
    <2>1. fails \in 0 .. MaxFails BY DEF Inv, ChangesTypeInv, ChangesTypeOK
    <2> QED BY <1>5, <2>1, StopInv DEF Stale
<1>6. CASE ReadFails
    <2>1. fails' \in 0 .. MaxFails
        BY <1>6, ChangesAssumption DEF ReadFails, Inv, ChangesTypeInv, ChangesTypeOK
    <2> QED BY <1>6, <2>1, StopInv DEF ReadFails
<1>7. ASSUME NEW e \in Events, Change(e) PROVE Inv' BY <1>7, ChangeInv
<1>8. ASSUME NEW n \in 1 .. MaxSeq, Expire(n) PROVE Inv' BY <1>8, ExpireInv
<1>9. CASE UNCHANGED changesVars
    BY <1>9 DEF changesVars, Inv, ChangesTypeInv, ChangesTypeOK, SameRead, GotIsNewer, PageAccounts,
                CallAccounts, TokenCoversReported, Missed, Untold
<1> QED BY <1>1, <1>2, <1>3, <1>4, <1>5, <1>6, <1>7, <1>8, <1>9 DEF ChangesNext

-----------------------------------------------------------------------------
(* The theorems.                                                           *)

\* The whole invariant: what the page token, the call under way and the
\* sync token each account for.
THEOREM TokensAccount == ChangesSpec => []Inv
<1> QED BY InitInv, InvStep, PTL DEF ChangesSpec

\* ChangesTypeOK, of every state list_changes and its caller can be in.
THEOREM ChangesTypeCorrect == ChangesSpec => []ChangesTypeOK
<1>1. Inv => ChangesTypeOK BY DEF Inv, ChangesTypeInv
<1> QED BY <1>1, TokensAccount, PTL

\* TokenCoversReported: for any calendar, any budgets and any mixture of
\* calls, failures and changes, every change a sync token counts as seen
\* was in some result since the baseline or the moment it began from, but
\* for changes of reminders alone that a read since a moment passed over.
THEOREM NothingSkipped == ChangesSpec => []TokenCoversReported
<1>1. Inv => TokenCoversReported BY DEF Inv
<1> QED BY <1>1, TokensAccount, PTL

=============================================================================
