---------------------------- MODULE MCStatusTrail ----------------------------
(***************************************************************************)
(* Model values for StatusTrail: a live order, a deleted one and an id     *)
(* without a row; two numbers besides the default, and a name the table    *)
(* statuses does not have.                                                 *)
(***************************************************************************)
EXTENDS StatusTrail, TLC

MCTexts    == {"confirmed", "cancelled"}
MCNames    == {"Approved", "Shipped", "Nonsense"}
MCStatusId == ("Approved" :> 1) @@ ("Shipped" :> 2)

RequestSymmetry == Permutations(Requests)

=============================================================================
