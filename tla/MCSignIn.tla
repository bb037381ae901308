------------------------------- MODULE MCSignIn -------------------------------
(* Small instances of SignIn: two profiles, two accounts, one client.      *)
EXTENDS SignIn

In(p, a, cl) == [kind |-> "login", profile |-> p, account |-> a, client |-> cl]
Out(p) == [kind |-> "logout", profile |-> p, account |-> "ana", client |-> "remembered"]

MCAsked ==
    [c \in Commands |->
        IF c = "k1" THEN {In("work", "ana", "desktop"), In("work", "bo", "remembered")}
        ELSE {In("work", "bo", "remembered"), Out("work"), Out("home")}]

Got(a) == [by |-> Before, account |-> a, client |-> "desktop"]
Kept(a, s) == [client |-> "desktop", account |-> a, store |-> s]
Sheets(k, f, r) ==
    [p \in Profiles |->
        IF p = "work" THEN [keyring |-> k, file |-> f, record |-> r]
        ELSE [keyring |-> NoToken, file |-> Got("ana"),
              record |-> Kept("ana", "file")]]

\* Nobody; ana in the keyring; bo in the file; bo in the file, signed in
\* while ana's keyring entry could not be replaced.
MCEarlier ==
    {Sheets(NoToken, NoToken, NoRecord),
     Sheets(Got("ana"), NoToken, Kept("ana", "keyring")),
     Sheets(NoToken, Got("bo"), Kept("bo", "file")),
     Sheets(Got("ana"), Got("bo"), Kept("bo", "file"))}
=============================================================================
