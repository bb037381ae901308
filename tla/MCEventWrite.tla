---------------------------- MODULE MCEventWrite ----------------------------
(* Small instances of EventWrite: one weekly meeting and one of its        *)
(* occurrences, the account, a colleague and a guest from outside.         *)
EXTENDS EventWrite, TLC

Interchangeable == Permutations(Calls)

MCEvents == {"standup", "standup_mon"}
MCSeriesOf == [e \in MCEvents |-> "standup"]

\* The meeting before the calls: everybody invited, or the account alone.
Meeting(invited) ==
    [ver |-> 1, title |-> "t0", status |-> "confirmed", here |-> TRUE,
     answers |-> [g \in Guests |-> IF g = Me \/ g \in invited
                                   THEN "needsAction" ELSE "absent"],
     omits |-> FALSE]
MCStored == {Meeting(Guests)}
MCStoredInside == {Meeting(Guests \ Outside)}
MCStoredTruncated == {[Meeting(Guests) EXCEPT !.omits = TRUE]}
MCStoredAny == MCStored \union MCStoredTruncated \union {Meeting({})}

MCUpdate ==
    [op |-> "update", at |-> "standup_mon", scope |-> "instance",
     title |-> "t1", personal |-> FALSE, add |-> {}, drop |-> {}, answer |-> "accepted",
     notify |-> "all", quotes |-> FALSE, force |-> FALSE, dryRun |-> FALSE]
MCRespond == [MCUpdate EXCEPT !.op = "respond", !.title = Keep]
MCCancel == [MCRespond EXCEPT !.op = "cancel"]
MCMove == [MCRespond EXCEPT !.op = "move"]
MCInvite == [MCRespond EXCEPT !.op = "update", !.add = {"ann"}]
MCUninvite == [MCInvite EXCEPT !.add = {}, !.drop = {"ann"}]

SeriesScope(r) == [r EXCEPT !.scope = "series"]

\* The calls of the two-call runs, all on one occurrence: an answer, a new
\* title nobody outside is to be told of, and a cancel.
MCRequests == {MCRespond, [MCUpdate EXCEPT !.notify = "none"], MCCancel}

\* Every kind of call, with every argument that changes its course.
MCKinds == {MCUpdate, MCRespond, MCCancel, MCMove, MCInvite, MCUninvite}
MCEveryRequest ==
    MCKinds
    \union {SeriesScope(r) : r \in MCKinds}
    \union {[r EXCEPT !.at = "standup"] : r \in MCKinds}
    \union {[SeriesScope(r) EXCEPT !.at = "standup"] : r \in MCKinds}
    \union {[r EXCEPT !.notify = n] : r \in MCKinds,
                n \in {"", "none", "external_only"}}
    \union {[r EXCEPT !.quotes = TRUE] : r \in MCKinds}
    \union {[SeriesScope(r) EXCEPT !.quotes = TRUE] : r \in MCKinds}
    \union {[r EXCEPT !.force = TRUE] : r \in MCKinds}
    \union {[r EXCEPT !.dryRun = TRUE] : r \in MCKinds}
    \union {[MCUpdate EXCEPT !.personal = TRUE, !.notify = ""]}
=============================================================================
