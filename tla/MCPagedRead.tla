----------------------------- MODULE MCPagedRead ----------------------------
(* Small instances of PagedRead: two calendars of up to four rows.         *)
EXTENDS PagedRead

Ask1(op, canceled, expand) ==
    [op |-> op, canceled |-> canceled, expand |-> expand]

MCQueries == {Ask1("events", FALSE, TRUE), Ask1("events", FALSE, FALSE),
              Ask1("events", TRUE, FALSE), Ask1("instances", FALSE, TRUE)}

\* Calendars that are full, that have gaps, and whose rows are canceled.
MCStored ==
    {[r \in Rows |-> "live"],
     [r \in Rows |-> IF r = 2 THEN "none" ELSE "live"],
     [r \in Rows |-> IF r < LastRow THEN "canceled" ELSE "live"]}
=============================================================================
