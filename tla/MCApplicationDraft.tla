-------------------------- MODULE MCApplicationDraft --------------------------
(* An instance of ApplicationDraft for TLC: the requests in flight, the    *)
(* courses and the fees are interchangeable.                               *)
EXTENDS ApplicationDraft, TLC

Symmetry == Permutations(Requests) \cup Permutations(Courses)
            \cup Permutations(Fees)

===============================================================================
