-------------------------- MODULE MCManageCalendar --------------------------
(* Small instances of ManageCalendar: the primary, a team calendar, a club *)
(* calendar reached by id only, and one that create_calendar makes.        *)
EXTENDS ManageCalendar, TLC

Interchangeable == Permutations(Calls)

MCCals == {"me", "team", "club", "new"}
MCPageOf == [c \in MCCals |-> IF c \in {"me", "new"} THEN 1 ELSE 2]

On(c, steps) == [at |-> c, steps |-> steps]

MCRequests ==
    {On("team", <<>>), On("new", <<"create">>), On("new", <<"rename">>),
     On("team", <<"rename", "recolor">>),
     On("team", <<"unsubscribe">>), On("team", <<"delete">>),
     On("club", <<"subscribe", "recolor">>), On("me", <<"rename">>), On("me", <<"clear">>)}
=============================================================================
