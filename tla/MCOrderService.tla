---------------------------- MODULE MCOrderService ----------------------------
(***************************************************************************)
(* Model values for OrderService: requests on different orders share no    *)
(* column, so one order and four requests give every kind of overlap:      *)
(* several copies of the same row, and whole requests between the          *)
(* statements of another.                                                  *)
(***************************************************************************)
EXTENDS OrderService, TLC

Dto(s, p, t, d) ==
    [status |-> s, priority |-> p, totalAmount |-> t, additionalDeposit |-> d]

(* A plain order with a deposit, and a rushed one without.                 *)
MCCreateDtos ==
    {[priceSaddle |-> 4, priceDeposit |-> 1, rushed |-> FALSE],
     [priceSaddle |-> 4, priceDeposit |-> 0, rushed |-> TRUE]}

(* A status, two priorities on either side of urgent, a payment, a new     *)
(* total, and a new total with a payment that leaves the balance the same. *)
MCUpdateDtos ==
    {Dto("confirmed", Unset, -1, 0), Dto(Unset, "high", -1, 0),
     Dto(Unset, "critical", -1, 0), Dto(Unset, Unset, -1, 1),
     Dto(Unset, Unset, 5, 0), Dto(Unset, Unset, 5, 1)}

RequestSymmetry == Permutations(Requests)

=============================================================================
