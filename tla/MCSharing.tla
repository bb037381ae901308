------------------------------ MODULE MCSharing ------------------------------
(* Small instances of Sharing: the account, a colleague, and somebody      *)
(* outside; a domain; and two pages of rules.                              *)
EXTENDS Sharing, TLC

Interchangeable == Permutations(Calls)

MCPageOf == [s \in Scopes |-> IF s.type \in {"user", "group"} THEN 1 ELSE 2]

MCListed ==
    {[s \in Scopes |->
        IF s = Own THEN Owner
        ELSE IF s = [type |-> "user", value |-> "ana"] THEN l[1]
        ELSE IF s = [type |-> "group", value |-> "ana"] THEN l[2]
        ELSE IF s = [type |-> "user", value |-> "out"] THEN l[3]
        ELSE IF IsWide(s) THEN l[4] ELSE 0] :
     l \in {<<0, 0, 0, 0>>, <<4, 0, 5, 2>>, <<2, 2, 0, 0>>}}

Ask(tool, who, type, role) ==
    [tool |-> tool, who |-> who, type |-> type, role |-> role,
     notify |-> "all", titled |-> TRUE, confirm |-> TRUE, dryRun |-> FALSE]

MCRequests ==
    {Ask("share", "ana", "", 2), Ask("share", "ana", "", 4),
     Ask("share", "out", "", 4), Ask("share", "ana", "group", 5),
     Ask("share", Anyone, "", 2),
     Ask("publish", Anyone, "", 2), Ask("publish", "ana", "", 2),
     Ask("widen", "out", "", 4), Ask("widen", "ana", "", 5),
     Ask("unshare", "ana", "", 0), Ask("unshare", "me", "", 0),
     Ask("unshare", "dom", "", 0), [Ask("share", "ana", "", 2) EXCEPT !.notify = ""],
     [Ask("widen", "out", "", 4) EXCEPT !.notify = "external_only"],
     [Ask("publish", "dom", "", 2) EXCEPT !.dryRun = TRUE],
     [Ask("publish", "dom", "", 2) EXCEPT !.confirm = FALSE],
     [Ask("widen", "out", "", 4) EXCEPT !.titled = FALSE]}
=============================================================================
