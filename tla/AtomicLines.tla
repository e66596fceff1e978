------------------------------ MODULE AtomicLines ------------------------------
(***************************************************************************)
(* What a client may count on for a single line of an order: a request     *)
(* that shares the line with no other while it is under way changes it     *)
(* whole and at once, starting from the row as it is at that moment,       *)
(* however many statements and other lines the request goes through.  Of a *)
(* line that several requests hold nothing is promised but that it stays,  *)
(* and stays with its order; lines beside it are not disturbed, nor are    *)
(* the requests that come once it is free again.  The order lines          *)
(* (OrderLines) are shown to implement it.                                 *)
(***************************************************************************)
EXTENDS Integers

CONSTANTS Lines, CreateDtos, UpdateDtos

VARIABLES
    rows,      \* the rows there are: a function on their keys
    contended  \* the lines that requests race for

avars == <<rows, contended>>

Init == DOMAIN rows = {} /\ contended = {}

Live(l) == l \in DOMAIN rows /\ ~rows[l].deleted

(* No row goes away, and none but l's is touched.                          *)
Only(l) ==
    /\ DOMAIN rows' = DOMAIN rows
    /\ \A k \in DOMAIN rows \ {l} : rows'[k] = rows[k]

(* One line, or several in one transaction.                                *)
Insert(new, dtos) ==
    /\ new \cap DOMAIN rows = {}
    /\ DOMAIN rows' = DOMAIN rows \cup new
    /\ \A k \in DOMAIN rows : rows'[k] = rows[k]
    /\ \A l \in new :
           rows'[l] = [orderId    |-> dtos[l].orderId,
                       sequence   |-> dtos[l].sequence,
                       totalPrice |-> dtos[l].totalPrice,
                       deleted    |-> FALSE]
    /\ UNCHANGED contended

(* A column that the body gives is set to what it gives; the others are as *)
(* they were.                                                              *)
Update(l, dto) ==
    /\ Live(l)
    /\ Only(l)
    /\ \A c \in {"sequence", "totalPrice"} :
           rows'[l][c] = IF dto[c] = -1 THEN rows[l][c] ELSE dto[c]
    /\ \A c \in {"orderId", "deleted"} : rows'[l][c] = rows[l][c]
    /\ UNCHANGED contended

(* A reordering comes to the line: nothing but its place changes.          *)
Move(l) ==
    /\ Live(l)
    /\ Only(l)
    /\ rows'[l].sequence \in Nat
    /\ rows'[l] = [rows[l] EXCEPT !.sequence = rows'[l].sequence]
    /\ UNCHANGED contended

Remove(l) ==
    /\ Live(l)
    /\ Only(l)
    /\ rows'[l] = [rows[l] EXCEPT !.deleted = TRUE]
    /\ UNCHANGED contended

(* Races begin, go on or end; only while one lasts may it write its line.  *)
Race ==
    /\ DOMAIN rows' = DOMAIN rows
    /\ \A l \in DOMAIN rows :
           /\ l \notin contended => rows'[l] = rows[l]
           /\ rows'[l].orderId = rows[l].orderId
    /\ contended' \subseteq DOMAIN rows

Next ==
    \/ \E new \in SUBSET Lines : \E dtos \in [new -> CreateDtos] : Insert(new, dtos)
    \/ \E l \in Lines :
           \/ \E dto \in UpdateDtos : Update(l, dto)
           \/ Move(l) \/ Remove(l)
    \/ Race

Spec == Init /\ [][Next]_avars

=============================================================================
