--------------------------- MODULE MCOrderLifecycle ---------------------------
(***************************************************************************)
(* Model values for checking OrderLifecycle with TLC: totals small enough  *)
(* for several payments to reach and to exceed them, dates on both sides   *)
(* of the clock's readings, and an invalid id and amount to be refused.    *)
(***************************************************************************)
EXTENDS OrderLifecycle

MCAmounts == {-1, 0, 1, 2, 3}
MCIds     == {0, 7}
MCDates   == {0, 1, 2, 3}

=============================================================================
