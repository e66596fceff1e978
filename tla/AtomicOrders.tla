----------------------------- MODULE AtomicOrders -----------------------------
(***************************************************************************)
(* What a client of the order service may count on: a request that no      *)
(* other request on its order overlaps takes effect whole and at once, on  *)
(* the row as it is at that moment, although the service serves it in      *)
(* several statements.  While requests race for an order nothing is        *)
(* promised of its row, except that it stays; and a race disturbs neither  *)
(* the other orders nor the requests that come once it is over.  The order *)
(* service (OrderService) is shown to implement it.                        *)
(***************************************************************************)
EXTENDS Integers, OrderStatus

CONSTANTS Orders, CreateDtos, UpdateDtos

VARIABLES
    rows,      \* the rows there are: a function on their keys
    contended  \* the orders for which requests race

avars == <<rows, contended>>

Init == DOMAIN rows = {} /\ contended = {}

Live(o) == o \in DOMAIN rows /\ ~rows[o].deleted

(* No row goes away, and none but o's is touched.                          *)
Only(o) ==
    /\ DOMAIN rows' = DOMAIN rows \cup {o}
    /\ \A k \in DOMAIN rows \ {o} : rows'[k] = rows[k]

(* The columns of o that a request does not mention keep their values.     *)
Keeps(o, columns) == \A c \in columns : rows'[o][c] = rows[o][c]

Create(o, dto) ==
    /\ o \notin DOMAIN rows
    /\ Only(o)
    /\ rows'[o].status = "pending" /\ ~rows'[o].deleted
    /\ rows'[o].isUrgent = dto.rushed
    /\ rows'[o].isUrgent = IsUrgentPriority(rows'[o].priority)
    /\ rows'[o].totalAmount = dto.priceSaddle
    /\ rows'[o].depositPaid = dto.priceDeposit
    /\ rows'[o].balanceOwing = dto.priceSaddle - dto.priceDeposit
    /\ UNCHANGED contended

(* A column that a body gives is set to what it gives, and flag and        *)
(* balance follow it; every other column is as it was.                     *)
Patch(o, dto) ==
    /\ Live(o)
    /\ Only(o)
    /\ IF dto.status = "unset" THEN Keeps(o, {"status"})
       ELSE rows'[o].status = dto.status
    /\ IF dto.priority = "unset" THEN Keeps(o, {"priority", "isUrgent"})
       ELSE /\ rows'[o].priority = dto.priority
            /\ rows'[o].isUrgent = IsUrgentPriority(dto.priority)
    /\ IF dto.totalAmount = -1 THEN Keeps(o, {"totalAmount"})
       ELSE rows'[o].totalAmount = dto.totalAmount
    /\ IF dto.additionalDeposit = 0 THEN Keeps(o, {"depositPaid", "balanceOwing"})
       ELSE /\ rows'[o].depositPaid = rows[o].depositPaid + dto.additionalDeposit
            /\ rows'[o].balanceOwing = rows'[o].totalAmount - rows'[o].depositPaid
    /\ Keeps(o, {"deleted"})
    /\ UNCHANGED contended

Cancel(o) ==
    /\ Live(o)
    /\ Only(o)
    /\ rows'[o] = [rows[o] EXCEPT !.status = "cancelled"]
    /\ UNCHANGED contended

Remove(o) ==
    /\ Live(o)
    /\ Only(o)
    /\ rows'[o] = [rows[o] EXCEPT !.deleted = TRUE]
    /\ UNCHANGED contended

(* A race for o begins, goes on or ends; only while it lasts may it write  *)
(* the row, and no other.                                                  *)
Race(o) ==
    /\ o \in DOMAIN rows
    /\ Only(o)
    /\ o \notin contended => rows'[o] = rows[o]
    /\ contended' \in {contended \cup {o}, contended \ {o}}

Next ==
    \E o \in Orders :
        \/ \E dto \in CreateDtos : Create(o, dto)
        \/ \E dto \in UpdateDtos : Patch(o, dto)
        \/ Cancel(o) \/ Remove(o) \/ Race(o)

Spec == Init /\ [][Next]_avars

=============================================================================
