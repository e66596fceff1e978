----------------------------- MODULE OrderService -----------------------------
(***************************************************************************)
(* The live path of orders: OrderService                                   *)
(* (backend/src/orders/order.service.ts) serving concurrent requests on    *)
(* the orders table.  Each handler reads the row, changes its copy and     *)
(* saves it, with no transaction around the two, no lock and no version    *)
(* column; save itself is two statements (TypeOrmSave), and softDelete     *)
(* updates deleted_at alone.  Every gap between two statements is a place  *)
(* where other requests run.                                               *)
(*                                                                         *)
(* Columns that nothing here relates to another (fitter, factory,          *)
(* specifications, instructions, dates, measurements) are left out.        *)
(***************************************************************************)
EXTENDS Integers, OrderStatus, TypeOrmSave

CONSTANTS
    Orders,      \* primary keys
    Requests,    \* requests, each served once
    CreateDtos,  \* bodies of POST /orders
    UpdateDtos   \* bodies of PATCH /orders/:id

Unset == "unset"     \* an optional DTO field that is undefined

Columns == {"status", "priority", "isUrgent", "totalAmount", "depositPaid",
            "balanceOwing", "deleted"}

(* The DTOs as validation lets them through: amounts in cents; an absent   *)
(* amount of an update is -1 (total) or 0 (deposit, which update skips).   *)
ASSUME DtoAssumption ==
    /\ \A d \in CreateDtos :
           d.priceSaddle \in Int /\ d.priceDeposit \in Int /\ d.rushed \in BOOLEAN
    /\ \A d \in UpdateDtos :
           /\ d.status \in (Statuses \ {"shipped_to_customer"}) \cup {Unset}
           /\ d.priority \in Priorities \cup {Unset}
           /\ d.totalAmount \in Nat \cup {-1}
           /\ d.additionalDeposit \in Nat

VARIABLES
    keys,       \* the primary keys in the orders table
    row,        \* the rows of those keys
    pc,         \* where each request is
    target,     \* the order each request is about
    copy,       \* the entity each request holds
    dirty,      \* the columns its save found different
    payment,    \* the deposit each request brings
    \* history
    offered,    \* per order, deposits of all requests that got hold of it
    committed,  \* per order, deposits of the requests whose save committed
    overlapped, \* per order, whether two requests ever were under way at once
    repriced,   \* per order, whether some request set its total
    crowded     \* the requests that overlapped another since they loaded

requestVars == <<pc, target, copy, dirty, payment>>
historyVars == <<offered, committed, overlapped, repriced, crowded>>
vars == <<keys, row, requestVars, historyVars>>

-----------------------------------------------------------------------------

Pcs == {"idle", "loaded", "saving", "removing", "done", "failed"}

Busy(r) == pc[r] \in {"loaded", "saving", "removing"}

(* The requests that hold a copy of an order.                              *)
Holders(o) == {r \in Requests : Busy(r) /\ target[r] = o}

(* What stands where there is no row, and where no copy is held.           *)
Blank ==
    [status |-> "pending", priority |-> "normal", isUrgent |-> FALSE,
     totalAmount |-> 0, depositPaid |-> 0, balanceOwing |-> 0,
     deleted |-> FALSE]

Init ==
    /\ keys = {}
    /\ row = [o \in Orders |-> Blank]
    /\ pc = [r \in Requests |-> "idle"]
    /\ target \in [Requests -> Orders]
    /\ copy = [r \in Requests |-> Blank]
    /\ dirty = [r \in Requests |-> {}]
    /\ payment = [r \in Requests |-> 0]
    /\ offered = [o \in Orders |-> 0]
    /\ committed = [o \in Orders |-> 0]
    /\ overlapped = [o \in Orders |-> FALSE]
    /\ repriced = [o \in Orders |-> FALSE]
    /\ crowded = {}

(* Mutant: the opening balance ignores the deposit.                        *)
NewRowOwingAll(dto) ==
    [status |-> "pending",
     priority |-> IF dto.rushed THEN "urgent" ELSE "normal",
     isUrgent |-> dto.rushed,
     totalAmount |-> dto.priceSaddle,
     depositPaid |-> dto.priceDeposit,
     balanceOwing |-> dto.priceSaddle,
     deleted |-> FALSE]

(* The entity create builds from its DTO.                                  *)
NewRow(dto) ==
    [status |-> "pending",
     priority |-> IF dto.rushed THEN "urgent" ELSE "normal",
     isUrgent |-> dto.rushed,
     totalAmount |-> dto.priceSaddle,
     depositPaid |-> dto.priceDeposit,
     balanceOwing |-> dto.priceSaddle - dto.priceDeposit,
     deleted |-> FALSE]

(* create: a single INSERT, of a key the sequence has not given out yet.   *)
Create(o, dto) ==
    /\ o \notin keys
    /\ keys' = keys \cup {o}
    /\ row' = [row EXCEPT ![o] = NewRow(dto)]
    /\ offered' = [offered EXCEPT ![o] = dto.priceDeposit]
    /\ committed' = [committed EXCEPT ![o] = dto.priceDeposit]
    /\ UNCHANGED <<requestVars, overlapped, repriced, crowded>>

-----------------------------------------------------------------------------
(* The first half of update, cancel and remove: findOne, and the changes   *)
(* made to the entity it returned before the next await.                   *)

(* Mutant: a deleted row is found as well.                                 *)
FoundDeletedToo(o) == o \in keys

(* findOne({ id, deletedAt: IsNull() }).                                   *)
Found(o) == o \in keys /\ ~row[o].deleted

(* What update makes of the entity when it leaves it with the given        *)
(* deposit: any status is accepted, the balance is worked out again only   *)
(* when a deposit comes with the request.                                  *)
UpdatedTo(e, dto, deposit) ==
    LET total == IF dto.totalAmount = -1 THEN e.totalAmount ELSE dto.totalAmount
    IN [e EXCEPT
         !.status       = IF dto.status = Unset THEN @ ELSE dto.status,
         !.priority     = IF dto.priority = Unset THEN @ ELSE dto.priority,
         !.isUrgent     = IF dto.priority = Unset THEN @
                          ELSE IsUrgentPriority(dto.priority),
         !.totalAmount  = total,
         !.depositPaid  = deposit,
         !.balanceOwing = IF dto.additionalDeposit > 0 THEN total - deposit
                          ELSE @]

(* Mutant: an additional deposit replaces what was paid before.            *)
UpdatedReplacingDeposit(e, dto) ==
    UpdatedTo(e, dto, IF dto.additionalDeposit > 0 THEN dto.additionalDeposit
                      ELSE e.depositPaid)

(* Mutant: the deposit is added to the column, and added again when the    *)
(* balance is worked out.                                                  *)
UpdatedAddingTwice(e, dto) ==
    UpdatedTo(e, dto, e.depositPaid + 2 * dto.additionalDeposit)

(* Mutant: the status is copied from the DTO whether it is there or not.   *)
UpdatedToUndefined(e, dto) ==
    [UpdatedTo(e, dto, e.depositPaid + dto.additionalDeposit)
        EXCEPT !.status = dto.status]

(* update's changes to the entity.                                         *)
Updated(e, dto) == UpdatedTo(e, dto, e.depositPaid + dto.additionalDeposit)

(* cancel looks at no status.                                              *)
Cancelled(e) == [e EXCEPT !.status = "cancelled"]

(* A request finds its order and goes on to its second statement with the  *)
(* given entity in hand.                                                   *)
Load(r, o, next, entity, deposit) ==
    /\ pc[r] = "idle"
    /\ Found(o)
    /\ pc' = [pc EXCEPT ![r] = next]
    /\ target' = [target EXCEPT ![r] = o]
    /\ copy' = [copy EXCEPT ![r] = entity]
    /\ payment' = [payment EXCEPT ![r] = deposit]
    /\ offered' = [offered EXCEPT ![o] = @ + deposit]
    /\ overlapped' = [overlapped EXCEPT ![o] = @ \/ Holders(o) # {}]
    /\ crowded' = IF Holders(o) = {} THEN crowded
                  ELSE crowded \cup Holders(o) \cup {r}
    /\ UNCHANGED <<keys, row, dirty, committed>>

StartUpdate(r, o, dto) ==
    /\ Load(r, o, "loaded", Updated(row[o], dto), dto.additionalDeposit)
    /\ repriced' = [repriced EXCEPT ![o] = @ \/ dto.totalAmount # -1]

StartCancel(r, o) ==
    Load(r, o, "loaded", Cancelled(row[o]), 0) /\ UNCHANGED repriced

StartRemove(r, o) ==
    Load(r, o, "removing", row[o], 0) /\ UNCHANGED repriced

(* "Order not found": no row, or a deleted one.                            *)
NotFound(r, o) ==
    /\ pc[r] = "idle"
    /\ ~Found(o)
    /\ pc' = [pc EXCEPT ![r] = "failed"]
    /\ target' = [target EXCEPT ![r] = o]
    /\ UNCHANGED <<keys, row, copy, dirty, payment, historyVars>>

-----------------------------------------------------------------------------
(* The second half: save, which is two statements, or softDelete.          *)

(* save's SELECT.                                                          *)
Compare(r) ==
    /\ pc[r] = "loaded"
    /\ dirty' = [dirty EXCEPT ![r] = Differing(Columns, copy[r], row[target[r]])]
    /\ pc' = [pc EXCEPT ![r] = "saving"]
    /\ UNCHANGED <<keys, row, target, copy, payment, historyVars>>

(* save's UPDATE of those columns, nothing when there are none.            *)
Commit(r) ==
    LET o == target[r] IN
    /\ pc[r] = "saving"
    /\ row' = [row EXCEPT ![o] = Merged(Columns, @, copy[r], dirty[r])]
    /\ committed' = [committed EXCEPT ![o] = @ + payment[r]]
    /\ pc' = [pc EXCEPT ![r] = "done"]
    /\ copy' = [copy EXCEPT ![r] = Blank]
    /\ dirty' = [dirty EXCEPT ![r] = {}]
    /\ crowded' = crowded \ {r}
    /\ UNCHANGED <<keys, target, payment>>
    /\ UNCHANGED <<offered, overlapped, repriced>>

SoftDelete(r) ==
    /\ pc[r] = "removing"
    /\ row' = [row EXCEPT ![target[r]].deleted = TRUE]
    /\ pc' = [pc EXCEPT ![r] = "done"]
    /\ copy' = [copy EXCEPT ![r] = Blank]
    /\ crowded' = crowded \ {r}
    /\ UNCHANGED <<keys, target, dirty, payment>>
    /\ UNCHANGED <<offered, committed, overlapped, repriced>>

(* A statement fails, or the process dies with the request in its hands:   *)
(* what was not committed is gone.                                         *)
Fail(r) ==
    /\ Busy(r)
    /\ pc' = [pc EXCEPT ![r] = "failed"]
    /\ copy' = [copy EXCEPT ![r] = Blank]
    /\ dirty' = [dirty EXCEPT ![r] = {}]
    /\ crowded' = crowded \ {r}
    /\ UNCHANGED <<keys, row, target, payment>>
    /\ UNCHANGED <<offered, committed, overlapped, repriced>>

Next ==
    \/ \E o \in Orders, dto \in CreateDtos : Create(o, dto)
    \/ \E r \in Requests, o \in Orders :
           \/ \E dto \in UpdateDtos : StartUpdate(r, o, dto)
           \/ StartCancel(r, o)
           \/ StartRemove(r, o)
           \/ NotFound(r, o)
    \/ \E r \in Requests :
           Compare(r) \/ Commit(r) \/ SoftDelete(r) \/ Fail(r)

Spec == Init /\ [][Next]_vars

-----------------------------------------------------------------------------
(* What holds of the table, whatever the interleaving.                     *)

Row == [status : Statuses, priority : Priorities, isUrgent : BOOLEAN,
        totalAmount : Int, depositPaid : Int, balanceOwing : Int,
        deleted : BOOLEAN]

TypeOK ==
    /\ keys \subseteq Orders /\ row \in [Orders -> Row]
    /\ pc \in [Requests -> Pcs]
    /\ target \in [Requests -> Orders]
    /\ copy \in [Requests -> Row]
    /\ dirty \in [Requests -> SUBSET Columns]
    /\ payment \in [Requests -> Int]
    /\ offered \in [Orders -> Int] /\ committed \in [Orders -> Int]
    /\ overlapped \in [Orders -> BOOLEAN] /\ repriced \in [Orders -> BOOLEAN]
    /\ crowded \subseteq Requests

(* As long as nobody sets an order's total, its balance is the total less  *)
(* the deposit, however the requests interleave and lose each other's      *)
(* writes: update computes the two columns together, and since they differ *)
(* from the row together, save writes both or neither.                     *)
BalanceTracksDeposit ==
    \A o \in keys : ~repriced[o] =>
        row[o].balanceOwing = row[o].totalAmount - row[o].depositPaid

(* A race may lose a payment but never counts one twice: the deposit on    *)
(* record never exceeds what the customers' requests brought in.           *)
NoPaymentCountedTwice ==
    \A o \in keys : row[o].depositPaid <= offered[o]

(* An order whose requests never overlap loses nothing: its deposit is the *)
(* sum of the committed payments, and it is flagged urgent exactly when    *)
(* its priority is urgent or critical.  This is the guarantee the          *)
(* handlers' read-then-save gives, and all of it.                          *)
LoneRequestsLoseNothing ==
    \A o \in keys : ~overlapped[o] =>
        /\ row[o].depositPaid = committed[o]
        /\ row[o].isUrgent = IsUrgentPriority(row[o].priority)

(* Deletion is final once the last request that read the order before it   *)
(* has ended: nothing changes the row any more, and no request gets hold   *)
(* of it again.  (A request that read it before may still write its copy   *)
(* back, deleted_at = null included.)                                      *)
DeletedIsGone ==
    [][\A o \in keys :
          row[o].deleted /\ Holders(o) = {} =>
              row'[o] = row[o] /\ Holders(o)' = {}]_vars

(* A request that overlaps no other on its order takes effect whole and at *)
(* once, however many statements serve it and whatever races went on for   *)
(* its order before: what AtomicOrders promises, an order being contended  *)
(* as long as a request that overlapped another holds it.                  *)
Contended == {o \in Orders : Holders(o) \cap crowded # {}}

Atomic == INSTANCE AtomicOrders
    WITH rows <- [o \in keys |-> row[o]], contended <- Contended

LoneRequestsAreAtomic == Atomic!Spec

(* "expect(order.balanceOwing).toBe(order.totalAmount - order.depositPaid)" *)
(* of docs/production-data-migration.md, of every order in the table.      *)
BalanceIsTotalLessDeposit ==
    \A o \in keys :
        row[o].balanceOwing = row[o].totalAmount - row[o].depositPaid

=============================================================================
