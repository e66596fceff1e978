---------------------------- MODULE OrderContract ----------------------------
(***************************************************************************)
(* What an order promises to the people who look at it from outside: the   *)
(* stage it has reached and the amount still owing.  The stage only moves  *)
(* forward, a delivered order can only come back, a cancelled or returned  *)
(* order stays so, and the amount owing only ever goes down, never below   *)
(* zero.  The order aggregate (OrderLifecycle) is shown to implement it.   *)
(***************************************************************************)
EXTENDS Integers

VARIABLES stage, owing

cvars == <<stage, owing>>

Init == stage = "workshop" /\ owing \in Nat \ {0}

Move(from, to) == stage \in from /\ stage' = to /\ UNCHANGED owing

Ship    == Move({"workshop"}, "transit")
Deliver == Move({"transit"}, "delivered")
Return  == Move({"transit", "delivered"}, "returned")
Cancel  == Move({"workshop", "transit"}, "cancelled")
Pay     == owing' \in 0 .. owing - 1 /\ UNCHANGED stage

Next == Ship \/ Deliver \/ Return \/ Cancel \/ Pay

Spec == Init /\ [][Next]_cvars

=============================================================================
