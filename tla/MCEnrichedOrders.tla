--------------------------- MODULE MCEnrichedOrders ---------------------------
(***************************************************************************)
(* Model values for EnrichedOrders: three orders, two of the same second,  *)
(* of which the last is at first cancelled; pages of two rows of the       *)
(* orders that are new, the second asked for by a limit above the maximum. *)
(* The change of the table takes a row, or moves one into the filter's     *)
(* rows or out of them: there are one, two or three.  The pattern finds    *)
(* both pages.                                                             *)
(***************************************************************************)
EXTENDS EnrichedOrders, TLC

MCIds       == 1 .. 3
MCOrderTime == <<2, 1, 1>>

MCFirstTables == {<<"new", "new", "cancelled">>}

MCSelects == "new" :> MCIds \X {"new"}

Query(p, l) == [page |-> p, limit |-> l, filter |-> "new"]

MCQueries == {Query(1, 2), Query(2, 2), Query(2, 5)}

MCFinds == [p \in {"pages"} |-> {q \in MCQueries : q.limit = 2}]

=============================================================================
