--------------------------- MODULE MCSplitSeries ----------------------------
(* Small instances of SplitSeries: six days, and series of every kind on   *)
(* them -- ended by a COUNT, by an UNTIL or not at all, daily or every     *)
(* other day, with dates added to them and taken off, and with a part the  *)
(* server does not read.                                                   *)
EXTENDS SplitSeries, TLC

Interchangeable == Permutations(Calls)

Repeats(every, count, until) ==
    [ver |-> 1, start |-> 1, excluded |-> {}, added |-> {},
     rule |-> [every |-> every, count |-> count, until |-> until, unknown |-> {}]]

MCPlain == {Repeats(1, 5, 0), Repeats(2, 0, 5), Repeats(2, 0, 0)}
MCWithDates ==
    {[Repeats(2, 3, 0) EXCEPT !.added = {2}],
     [Repeats(2, 0, 0) EXCEPT !.added = {4}, !.excluded = {3}],
     [Repeats(1, 5, 0) EXCEPT !.excluded = {2, 4}]}
MCUnread == {[Repeats(1, 4, 0) EXCEPT !.rule.unknown = {2}]}
MCStored == MCPlain \union MCWithDates \union MCUnread

At(op, d) == [op |-> op, at |-> d, quotes |-> FALSE, force |-> FALSE]
MCRequests ==
    {At("split", d) : d \in {2, 3, 4, 5}} \union {At("cut", 3), At("create", 3)}
    \union {[At("split", 3) EXCEPT !.quotes = TRUE]}
    \union {[At(op, 4) EXCEPT !.force = TRUE] : op \in {"split", "cut"}}
=============================================================================
