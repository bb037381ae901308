------------------------------ MODULE MCChanges -----------------------------
(* A small instance of Changes: three events and a baseline capped at two  *)
(* pages a call.                                                           *)
EXTENDS Changes
=============================================================================
