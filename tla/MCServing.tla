----------------------------- MODULE MCServing -----------------------------
(* Serving over every way to write one switch, the others all on, and with  *)
(* none written.                                                           *)
EXTENDS Serving, TLC

Unsaid == [flag |-> "absent", env |-> ""]
Env(v) == [flag |-> "absent", env |-> v]
Written == {[flag |-> f, env |-> e] : f \in {"absent", "", "on", "off", "bad"}, e \in {"", "on", "off", "bad"}}

Plain == [readOnly |-> Unsaid, destructive |-> Unsaid, sharing |-> Unsaid, declineAll |-> Unsaid,
          removed |-> [READONLY |-> "", REQUIRE_PROMPT |-> ""],
          count |-> Unsaid, timeout |-> Unsaid, client |-> TRUE]
All == [Plain EXCEPT !.destructive = Env("on"), !.declineAll = Env("on")]

MCRawSettings ==
    {Plain}
    \union {[All EXCEPT !.readOnly = w] : w \in Written}
    \union {[All EXCEPT !.sharing = w] : w \in Written}
    \union {[All EXCEPT !.destructive = w] : w \in Written}
    \union {[All EXCEPT !.removed.READONLY = v] : v \in {"on", "off", "bad"}}
    \union {[All EXCEPT !.removed.REQUIRE_PROMPT = v] : v \in {"on", "bad"}}
    \union {[All EXCEPT !.count = Env(v)] : v \in {"least", "over", "zero"}}
    \union {[All EXCEPT !.timeout = [flag |-> v, env |-> ""]] : v \in {"", "zero", "most"}}
    \union {[All EXCEPT !.client = FALSE]}
=============================================================================
