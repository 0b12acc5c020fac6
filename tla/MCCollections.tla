----------------------------- MODULE MCCollections -----------------------------
(* An instance of Collections for TLC: two installments, due at noon, 27   *)
(* days apart; time runs until the first is more than a year late.         *)
EXTENDS Collections

MCDue == <<9, 62>>

===============================================================================
