----------------------------- MODULE MCOrderLines -----------------------------
(***************************************************************************)
(* Model values for OrderLines: two orders and three lines, so that a list *)
(* can name every line, name one twice, or name a line of the other order. *)
(***************************************************************************)
EXTENDS OrderLines, TLC

CONSTANTS o1, o2, l1, l2, l3

MCLists == {<<l2, l1>>, <<l1, l1>>, <<l3, l1>>}

(* Lines of one price, so that a change of price is a change.              *)
MCCreateDtos == {[orderId |-> o, sequence |-> 0, totalPrice |-> 1] : o \in Orders}

(* A new price, and a move of a single line.                               *)
MCUpdateDtos ==
    {[sequence |-> -1, totalPrice |-> 2], [sequence |-> 2, totalPrice |-> -1]}

RequestSymmetry == Permutations(Requests)

=============================================================================
