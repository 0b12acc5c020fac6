------------------------------- MODULE MCRepayment -------------------------------
(***************************************************************************)
(* An instance of Repayment for TLC, in two halves: requests that overlap  *)
(* while the job runs once, and days that go by with one request at a      *)
(* time.  The requests are interchangeable.                                *)
(***************************************************************************)
EXTENDS Repayment, TLC

CONSTANTS RaceDays      \* bound: days that pass while requests overlap

VARIABLE focus

MCInit == Init /\ focus \in {"race", "days"}

MCNext ==
    /\ Next
    /\ focus = "race" => day' <= RaceDays
    /\ focus = "days" => Cardinality({r \in Requests : req'[r] # Idle}) <= 1
    /\ UNCHANGED focus

MCSpec == MCInit /\ [][MCNext]_<<vars, focus>>

RequestSymmetry == Permutations(Requests)

===============================================================================
