-------------------------- MODULE OrderServiceProofs --------------------------
(***************************************************************************)
(* What the orders table keeps under any number of concurrent requests,    *)
(* for every set of orders, requests and bodies.                           *)
(***************************************************************************)
EXTENDS OrderService, TLAPS

Balanced(e)   == e.balanceOwing = e.totalAmount - e.depositPaid
FlagIsRight(e) == e.isUrgent = IsUrgentPriority(e.priority)

(* What each request under way knows of its order: the row exists, and the *)
(* deposit its copy would write is covered by the requests so far.         *)
Backed(q) ==
    target[q] \in keys /\ copy[q].depositPaid <= offered[target[q]]

(* Unless somebody set the order's total, the copy balances against the    *)
(* same total as the row, so deposit and balance are dirty together.       *)
BalancedHolder(q) ==
    ~repriced[target[q]] =>
        /\ Balanced(copy[q])
        /\ copy[q].totalAmount = row[target[q]].totalAmount
        /\ pc[q] = "saving" =>
               /\ "totalAmount" \notin dirty[q]
               /\ "depositPaid" \in dirty[q] <=> "balanceOwing" \in dirty[q]

(* Unless its requests overlapped, nobody else holds the order, the copy   *)
(* adds this request's payment to the committed ones, and what is not      *)
(* dirty equals the row.                                                   *)
LoneHolder(q) ==
    ~overlapped[target[q]] =>
        /\ \A p \in Requests : Busy(p) /\ target[p] = target[q] => p = q
        /\ copy[q].depositPaid = committed[target[q]] + payment[q]
        /\ FlagIsRight(copy[q])
        /\ pc[q] = "saving" =>
               \A c \in Columns \ dirty[q] : copy[q][c] = row[target[q]][c]

HoldersOK ==
    \A q \in Requests : Busy(q) => Backed(q) /\ BalancedHolder(q) /\ LoneHolder(q)

IInv ==
    /\ TypeOK
    /\ BalanceTracksDeposit
    /\ NoPaymentCountedTwice
    /\ LoneRequestsLoseNothing
    /\ HoldersOK

(* An UPDATE of some columns leaves a row, which has the entity's value in *)
(* those columns and its old value in the others.                          *)
LEMMA MergedColumns ==
    ASSUME NEW old \in Row, NEW entity \in Row, NEW columns,
           NEW new, new = Merged(Columns, old, entity, columns)
    PROVE  /\ new \in Row
           /\ \A c \in Columns :
                  new[c] = IF c \in columns THEN entity[c] ELSE old[c]
<1>1. new = [c \in Columns |-> IF c \in columns THEN entity[c] ELSE old[c]]
  BY DEF Merged
<1>2. Columns = {"status", "priority", "isUrgent", "totalAmount",
                 "depositPaid", "balanceOwing", "deleted"}
  BY DEF Columns
<1>3. new = [status |-> new.status, priority |-> new.priority,
             isUrgent |-> new.isUrgent, totalAmount |-> new.totalAmount,
             depositPaid |-> new.depositPaid,
             balanceOwing |-> new.balanceOwing, deleted |-> new.deleted]
  BY <1>1, <1>2
<1>4. new.status \in Statuses /\ new.priority \in Priorities
  BY <1>1, <1>2 DEF Row
<1>5. new.isUrgent \in BOOLEAN
  BY <1>1, <1>2 DEF Row
<1>6. new.deleted \in BOOLEAN
  BY <1>1, <1>2 DEF Row
<1>7. new.totalAmount \in Int /\ new.depositPaid \in Int /\ new.balanceOwing \in Int
  BY <1>1, <1>2 DEF Row
<1>8. [status |-> new.status, priority |-> new.priority,
       isUrgent |-> new.isUrgent, totalAmount |-> new.totalAmount,
       depositPaid |-> new.depositPaid,
       balanceOwing |-> new.balanceOwing, deleted |-> new.deleted] \in Row
  BY <1>4, <1>5, <1>6, <1>7 DEF Row
<1> QED BY <1>1, <1>3, <1>8

(* What update does to an entity, field by field.                          *)
LEMMA UpdatedFields ==
    ASSUME NEW e \in Row, NEW dto \in UpdateDtos
    PROVE  LET u == Updated(e, dto) IN
           /\ u \in Row
           /\ u.deleted = e.deleted
           /\ u.depositPaid = e.depositPaid + dto.additionalDeposit
           /\ dto.totalAmount = -1 => u.totalAmount = e.totalAmount
           /\ dto.totalAmount = -1 /\ dto.additionalDeposit = 0 =>
                  u.balanceOwing = e.balanceOwing
           /\ dto.additionalDeposit > 0 =>
                  u.balanceOwing = u.totalAmount - u.depositPaid
<1>1. Updated(e, dto) \in Row
  <2> DEFINE total   == IF dto.totalAmount = -1 THEN e.totalAmount ELSE dto.totalAmount
             deposit == e.depositPaid + dto.additionalDeposit
             s == IF dto.status = Unset THEN e.status ELSE dto.status
             p == IF dto.priority = Unset THEN e.priority ELSE dto.priority
             u == IF dto.priority = Unset THEN e.isUrgent
                  ELSE IsUrgentPriority(dto.priority)
             b == IF dto.additionalDeposit > 0 THEN total - deposit ELSE e.balanceOwing
  <2>1. s \in Statuses /\ p \in Priorities
    BY DtoAssumption DEF Row
  <2>2. u \in BOOLEAN
    <3>1. e.isUrgent \in BOOLEAN
      BY DEF Row
    <3>2. IsUrgentPriority(dto.priority) \in BOOLEAN
      BY DEF IsUrgentPriority
    <3> QED BY <3>1, <3>2, Zenon
  <2>3. total \in Int /\ deposit \in Int /\ b \in Int
    BY DtoAssumption DEF Row
  <2>4. Updated(e, dto) =
            [e EXCEPT !.status = s, !.priority = p, !.isUrgent = u,
                      !.totalAmount = total, !.depositPaid = deposit,
                      !.balanceOwing = b]
    BY DEF Updated, UpdatedTo
  <2> HIDE DEF s, p, u, b, total, deposit
  <2> QED BY <2>1, <2>2, <2>3, <2>4 DEF Row
<1>2. dto.totalAmount \in Nat \cup {-1} /\ dto.additionalDeposit \in Nat
  BY DtoAssumption
<1>3. e.totalAmount \in Int /\ e.depositPaid \in Int /\ e.balanceOwing \in Int
  BY DEF Row
<1>4. Updated(e, dto).deleted = e.deleted
  BY DEF Row, Updated, UpdatedTo
<1>5. Updated(e, dto).totalAmount =
          IF dto.totalAmount = -1 THEN e.totalAmount ELSE dto.totalAmount
  BY DEF Row, Updated, UpdatedTo
<1>6. Updated(e, dto).depositPaid =
          e.depositPaid + dto.additionalDeposit
  BY DEF Row, Updated, UpdatedTo
<1>7. Updated(e, dto).balanceOwing =
          IF dto.additionalDeposit > 0
          THEN Updated(e, dto).totalAmount - Updated(e, dto).depositPaid
          ELSE e.balanceOwing
  BY <1>5, <1>6 DEF Row, Updated, UpdatedTo
<1> QED BY <1>1, <1>2, <1>3, <1>4, <1>5, <1>6, <1>7

(* Cancelling changes the status alone.                                    *)
LEMMA CancelledFields ==
    ASSUME NEW e \in Row
    PROVE  LET u == Cancelled(e) IN
           /\ u \in Row
           /\ \A c \in Columns \ {"status"} : u[c] = e[c]
BY DEF Row, Cancelled, Columns, Statuses

(* An empty table satisfies the invariant.                                 *)
THEOREM InitIInv == Init => IInv
<1> SUFFICES ASSUME Init PROVE IInv
  OBVIOUS
<1>1. Blank \in Row
  BY DEF Blank, Row, Statuses, Priorities
<1>2. TypeOK
  BY <1>1 DEF Init, TypeOK, Pcs
<1>3. keys = {} /\ \A q \in Requests : ~Busy(q)
  BY DEF Init, Busy
<1> QED BY <1>2, <1>3 DEF IInv, HoldersOK, BalanceTracksDeposit,
      NoPaymentCountedTwice, LoneRequestsLoseNothing

(* A request gets hold of its order.  The conditions on the entity are     *)
(* what update, cancel and remove have in common.                          *)
LEMMA LoadIInv ==
    ASSUME IInv, NEW r \in Requests, NEW o \in Orders,
           NEW next \in {"loaded", "removing"}, NEW entity \in Row,
           NEW deposit \in Nat, NEW pricing \in BOOLEAN,
           Load(r, o, next, entity, deposit),
           repriced' = [repriced EXCEPT ![o] = @ \/ pricing],
           entity.depositPaid = row[o].depositPaid + deposit,
           FlagIsRight(row[o]) => FlagIsRight(entity),
           ~pricing /\ Balanced(row[o]) =>
               Balanced(entity) /\ entity.totalAmount = row[o].totalAmount
    PROVE  IInv'
<1>1. /\ pc[r] = "idle" /\ o \in keys
      /\ pc' = [pc EXCEPT ![r] = next]
      /\ target' = [target EXCEPT ![r] = o]
      /\ copy' = [copy EXCEPT ![r] = entity]
      /\ payment' = [payment EXCEPT ![r] = deposit]
      /\ offered' = [offered EXCEPT ![o] = @ + deposit]
      /\ overlapped' = [overlapped EXCEPT ![o] = @ \/ Holders(o) # {}]
      /\ keys' = keys /\ row' = row /\ dirty' = dirty /\ committed' = committed
      /\ crowded' \in {crowded, crowded \cup Holders(o) \cup {r}}
  BY DEF Load, Found
<1>2. TypeOK
  BY DEF IInv
<1>3. TypeOK'
  <2>1. repriced' \in [Orders -> BOOLEAN] /\ overlapped' \in [Orders -> BOOLEAN]
    BY <1>1, <1>2 DEF TypeOK
  <2>2. offered' \in [Orders -> Int] /\ payment' \in [Requests -> Int]
    BY <1>1, <1>2 DEF TypeOK
  <2>3. pc' \in [Requests -> Pcs] /\ target' \in [Requests -> Orders]
        /\ copy' \in [Requests -> Row]
    BY <1>1, <1>2 DEF TypeOK, Pcs
  <2>4. crowded' \subseteq Requests
    BY <1>1, <1>2 DEF TypeOK, Holders
  <2> QED BY <1>1, <1>2, <2>1, <2>2, <2>3, <2>4 DEF TypeOK
<1>4. \A k \in Orders : /\ offered[k] \in Int /\ offered'[k] \in Int
                        /\ offered'[k] >= offered[k]
                        /\ ~repriced'[k] => ~repriced[k]
                        /\ ~overlapped'[k] => ~overlapped[k]
  BY <1>1, <1>2 DEF TypeOK
<1>5. \A k \in keys : k \in Orders /\ row[k] \in Row /\ row[k].depositPaid \in Int
  BY <1>2 DEF TypeOK, Row
<1>6. BalanceTracksDeposit' /\ LoneRequestsLoseNothing'
  BY <1>1, <1>4, <1>5 DEF IInv, BalanceTracksDeposit, LoneRequestsLoseNothing
<1>7. NoPaymentCountedTwice'
  <2> SUFFICES ASSUME NEW k \in keys PROVE row[k].depositPaid <= offered'[k]
    BY <1>1 DEF NoPaymentCountedTwice
  <2> QED BY <1>4, <1>5 DEF IInv, NoPaymentCountedTwice
<1>8. HoldersOK'
  <2> SUFFICES ASSUME NEW q \in Requests, Busy(q)'
               PROVE  Backed(q)' /\ BalancedHolder(q)' /\ LoneHolder(q)'
    BY DEF HoldersOK
  <2>1. CASE q = r
    <3>1. pc'[q] = next /\ target'[q] = o /\ copy'[q] = entity /\ payment'[q] = deposit
      BY <1>1, <1>2, <2>1 DEF TypeOK
    <3>2. offered'[o] = offered[o] + deposit
      BY <1>1, <1>2 DEF TypeOK
    <3>3. row[o].depositPaid <= offered[o]
      BY <1>1 DEF IInv, NoPaymentCountedTwice
    <3>4. Backed(q)'
      BY <1>1, <1>4, <1>5, <3>1, <3>2, <3>3 DEF Backed
    <3>5. BalancedHolder(q)'
      <4> SUFFICES ASSUME ~repriced'[o]
                   PROVE  Balanced(entity) /\ entity.totalAmount = row[o].totalAmount
        BY <1>1, <3>1 DEF BalancedHolder, Balanced
      <4>1. ~repriced[o] /\ ~pricing
        BY <1>2 DEF TypeOK
      <4> QED BY <1>1, <4>1 DEF IInv, BalanceTracksDeposit, Balanced
    <3>6. LoneHolder(q)'
      <4> SUFFICES ASSUME ~overlapped'[o]
                   PROVE  /\ \A p \in Requests : Busy(p)' /\ target'[p] = o => p = r
                          /\ entity.depositPaid = committed[o] + deposit
                          /\ FlagIsRight(entity)
        BY <1>1, <2>1, <3>1 DEF LoneHolder, FlagIsRight
      <4>1. ~overlapped[o] /\ Holders(o) = {}
        BY <1>1, <1>2 DEF TypeOK
      <4>2. ASSUME NEW p \in Requests, Busy(p)', target'[p] = o, p # r PROVE FALSE
        <5>1. Busy(p) /\ target[p] = o
          BY <1>1, <1>2, <4>2 DEF Busy, TypeOK
        <5> QED BY <4>1, <5>1 DEF Holders
      <4>3. row[o].depositPaid = committed[o] /\ FlagIsRight(row[o])
        BY <1>1, <4>1 DEF IInv, LoneRequestsLoseNothing, FlagIsRight
      <4> QED BY <4>2, <4>3
    <3> QED BY <3>4, <3>5, <3>6
  <2>2. CASE q # r
    <3>1. /\ Busy(q) /\ pc'[q] = pc[q] /\ target'[q] = target[q]
          /\ copy'[q] = copy[q] /\ payment'[q] = payment[q]
      BY <1>1, <1>2, <2>2 DEF Busy, TypeOK
    <3>2. /\ target[q] \in Orders /\ copy[q] \in Row /\ copy[q].depositPaid \in Int
      BY <1>2 DEF TypeOK, Row
    <3>3. Backed(q) /\ BalancedHolder(q) /\ LoneHolder(q)
      BY <3>1 DEF IInv, HoldersOK
    <3>4. Backed(q)'
      BY <1>1, <1>4, <3>1, <3>2, <3>3 DEF Backed
    <3>5. BalancedHolder(q)'
      BY <1>1, <1>4, <3>1, <3>2, <3>3 DEF BalancedHolder, Balanced
    <3>6. LoneHolder(q)'
      <4> SUFFICES ASSUME ~overlapped'[target[q]] PROVE LoneHolder(q)'
        BY <3>1 DEF LoneHolder
      <4>1. ~overlapped[target[q]]
        BY <1>4, <3>2
      <4>2. target[q] # o
        BY <1>1, <1>2, <3>1 DEF TypeOK, Holders
      <4>3. \A p \in Requests : Busy(p)' /\ target'[p] = target[q] =>
                Busy(p) /\ target[p] = target[q]
        BY <1>1, <1>2, <4>2 DEF Busy, TypeOK
      <4> QED BY <1>1, <3>1, <3>3, <4>1, <4>3 DEF LoneHolder, FlagIsRight
    <3> QED BY <3>4, <3>5, <3>6
  <2> QED BY <2>1, <2>2
<1> QED BY <1>3, <1>6, <1>7, <1>8 DEF IInv

(* A new order: nobody holds it yet.                                       *)
LEMMA CreateIInv ==
    ASSUME IInv, NEW o \in Orders, NEW dto \in CreateDtos, Create(o, dto)
    PROVE  IInv'
<1>1. /\ o \notin keys /\ keys' = keys \cup {o}
      /\ row' = [row EXCEPT ![o] = NewRow(dto)]
      /\ offered' = [offered EXCEPT ![o] = dto.priceDeposit]
      /\ committed' = [committed EXCEPT ![o] = dto.priceDeposit]
      /\ UNCHANGED <<pc, target, copy, dirty, payment, overlapped, repriced, crowded>>
  BY DEF Create, requestVars
<1>2. TypeOK
  BY DEF IInv
<1>3. dto.priceSaddle \in Int /\ dto.priceDeposit \in Int /\ dto.rushed \in BOOLEAN
  BY DtoAssumption
<1>4. /\ NewRow(dto) \in Row
      /\ Balanced(NewRow(dto)) /\ FlagIsRight(NewRow(dto))
      /\ NewRow(dto).depositPaid = dto.priceDeposit
  <2>1. (IF dto.rushed THEN "urgent" ELSE "normal") \in Priorities
    BY DEF Priorities
  <2>2. NewRow(dto) \in Row
    BY <1>3, <2>1 DEF NewRow, Row, Statuses
  <2>3. FlagIsRight(NewRow(dto))
    <3>1. NewRow(dto).isUrgent = dto.rushed
      BY DEF NewRow
    <3>2. NewRow(dto).priority = IF dto.rushed THEN "urgent" ELSE "normal"
      BY DEF NewRow
    <3>3. IsUrgentPriority(NewRow(dto).priority) = dto.rushed
      BY <1>3, <3>2 DEF IsUrgentPriority
    <3> QED BY <3>1, <3>3 DEF FlagIsRight
  <2>4. NewRow(dto).depositPaid = dto.priceDeposit /\ Balanced(NewRow(dto))
    BY DEF NewRow, Balanced
  <2> QED BY <2>2, <2>3, <2>4
<1>5. /\ row' \in [Orders -> Row] /\ row'[o] = NewRow(dto)
      /\ offered' \in [Orders -> Int] /\ offered'[o] = dto.priceDeposit
      /\ committed' \in [Orders -> Int] /\ committed'[o] = dto.priceDeposit
      /\ \A k \in Orders \ {o} : /\ row'[k] = row[k] /\ offered'[k] = offered[k]
                               /\ committed'[k] = committed[k]
  BY <1>1, <1>2, <1>3, <1>4 DEF TypeOK
<1>6. TypeOK'
  BY <1>1, <1>2, <1>5 DEF TypeOK
<1>7. ASSUME NEW k \in keys'
      PROVE  /\ ~repriced'[k] => Balanced(row'[k])
             /\ row'[k].depositPaid <= offered'[k]
             /\ ~overlapped'[k] =>
                    row'[k].depositPaid = committed'[k] /\ FlagIsRight(row'[k])
  <2>1. CASE k = o
    BY <1>3, <1>4, <1>5, <2>1
  <2>2. CASE k # o
    <3>1. k \in keys /\ k \in Orders
      BY <1>1, <1>2, <2>2 DEF TypeOK
    <3> QED BY <1>1, <1>5, <2>2, <3>1 DEF IInv, BalanceTracksDeposit, Balanced,
          NoPaymentCountedTwice, LoneRequestsLoseNothing, FlagIsRight
  <2> QED BY <2>1, <2>2
<1>8. BalanceTracksDeposit' /\ NoPaymentCountedTwice' /\ LoneRequestsLoseNothing'
  BY <1>7 DEF BalanceTracksDeposit, NoPaymentCountedTwice,
              LoneRequestsLoseNothing, Balanced, FlagIsRight
<1>9. HoldersOK'
  <2> SUFFICES ASSUME NEW q \in Requests, Busy(q)'
               PROVE  Backed(q)' /\ BalancedHolder(q)' /\ LoneHolder(q)'
    BY DEF HoldersOK
  <2>1. Busy(q) /\ Backed(q) /\ BalancedHolder(q) /\ LoneHolder(q)
    BY <1>1 DEF Busy, IInv, HoldersOK
  <2>2. target[q] \in keys /\ target[q] \in Orders \ {o}
    BY <1>1, <1>2, <2>1 DEF Backed, TypeOK
  <2>3. Backed(q)'
    BY <1>1, <1>5, <2>1, <2>2 DEF Backed
  <2>4. BalancedHolder(q)'
    BY <1>1, <1>5, <2>1, <2>2 DEF BalancedHolder, Balanced
  <2>5. LoneHolder(q)'
    BY <1>1, <1>5, <2>1, <2>2 DEF LoneHolder, FlagIsRight, Busy
  <2> QED BY <2>3, <2>4, <2>5
<1> QED BY <1>6, <1>8, <1>9 DEF IInv

(* save's SELECT: under a fixed total, deposit and balance differ from the *)
(* row together or not at all.                                             *)
LEMMA CompareIInv ==
    ASSUME IInv, NEW r \in Requests, Compare(r)
    PROVE  IInv'
<1> DEFINE o == target[r]
           found == Differing(Columns, copy[r], row[o])
<1>1. /\ pc[r] = "loaded"
      /\ dirty' = [dirty EXCEPT ![r] = found]
      /\ pc' = [pc EXCEPT ![r] = "saving"]
      /\ UNCHANGED <<keys, row, target, copy, payment, offered, committed,
                     overlapped, repriced, crowded>>
  BY DEF Compare, historyVars
<1> USE DEF Differing
<1>2. TypeOK
  BY DEF IInv
<1>3. TypeOK'
  BY <1>1, <1>2 DEF TypeOK, Pcs
<1>4. BalanceTracksDeposit' /\ NoPaymentCountedTwice' /\ LoneRequestsLoseNothing'
  BY <1>1 DEF IInv, BalanceTracksDeposit, NoPaymentCountedTwice,
              LoneRequestsLoseNothing
<1>5. HoldersOK'
  <2> SUFFICES ASSUME NEW q \in Requests, Busy(q)'
               PROVE  Backed(q)' /\ BalancedHolder(q)' /\ LoneHolder(q)'
    BY DEF HoldersOK
  <2>1. \A p \in Requests : Busy(p)' <=> Busy(p)
    BY <1>1, <1>2 DEF Busy, TypeOK
  <2>2. Backed(q) /\ BalancedHolder(q) /\ LoneHolder(q)
    BY <2>1 DEF IInv, HoldersOK
  <2>3. Backed(q)'
    BY <1>1, <2>2 DEF Backed
  <2>4. CASE q = r
    <3>1. dirty'[q] = found
      BY <1>1, <1>2, <2>4 DEF TypeOK
    <3>2. BalancedHolder(q)'
      <4> SUFFICES ASSUME ~repriced[o]
                   PROVE  /\ Balanced(copy[r]) /\ copy[r].totalAmount = row[o].totalAmount
                          /\ "totalAmount" \notin found
                          /\ "depositPaid" \in found <=> "balanceOwing" \in found
        BY <1>1, <2>4, <3>1 DEF BalancedHolder, Balanced
      <4>1. Balanced(copy[r]) /\ copy[r].totalAmount = row[o].totalAmount
        BY <2>2, <2>4 DEF BalancedHolder
      <4>2. Balanced(row[o])
        BY <2>2, <2>4 DEF IInv, BalanceTracksDeposit, Balanced, Backed
      <4>3. /\ row[o].depositPaid \in Int /\ row[o].totalAmount \in Int
            /\ copy[r].depositPaid \in Int
        BY <1>2 DEF TypeOK, Row
      <4>4. copy[r].depositPaid # row[o].depositPaid <=>
                copy[r].balanceOwing # row[o].balanceOwing
        BY <4>1, <4>2, <4>3 DEF Balanced
      <4> QED BY <4>1, <4>4 DEF Columns
    <3>3. LoneHolder(q)'
      BY <1>1, <2>1, <2>2, <2>4, <3>1 DEF LoneHolder, FlagIsRight
    <3> QED BY <2>3, <3>2, <3>3
  <2>5. CASE q # r
    <3>1. dirty'[q] = dirty[q] /\ pc'[q] = pc[q]
      BY <1>1, <1>2, <2>5 DEF TypeOK
    <3>2. BalancedHolder(q)'
      BY <1>1, <2>2, <3>1 DEF BalancedHolder, Balanced
    <3>3. LoneHolder(q)'
      BY <1>1, <2>1, <2>2, <3>1 DEF LoneHolder, FlagIsRight
    <3> QED BY <2>3, <3>2, <3>3
  <2> QED BY <2>4, <2>5
<1> QED BY <1>3, <1>4, <1>5 DEF IInv

(* A request lets go of its order, and the row keeps its money and flag:   *)
(* what softDelete, a failure and a 404 have in common.                    *)
LEMMA ReleaseIInv ==
    ASSUME IInv, TypeOK', NEW r \in Requests,
           pc' = [pc EXCEPT ![r] = pc'[r]], ~Busy(r)',
           \A q \in Requests \ {r} : /\ target'[q] = target[q] /\ copy'[q] = copy[q]
                                   /\ dirty'[q] = dirty[q] /\ payment'[q] = payment[q],
           \A k \in Orders : \A c \in Columns \ {"deleted"} : row'[k][c] = row[k][c],
           \A q \in Requests \ {r} : Busy(q) /\ ~overlapped[target[q]] =>
               row'[target[q]] = row[target[q]],
           UNCHANGED <<keys, offered, committed, overlapped, repriced>>
    PROVE  IInv'
<1>1. TypeOK
  BY DEF IInv
<1>2. \A k \in Orders : /\ row'[k].depositPaid = row[k].depositPaid
                        /\ row'[k].balanceOwing = row[k].balanceOwing
                        /\ row'[k].totalAmount = row[k].totalAmount
                        /\ row'[k].isUrgent = row[k].isUrgent
                        /\ row'[k].priority = row[k].priority
  BY DEF Columns
<1>3. keys \subseteq Orders
  BY <1>1 DEF TypeOK
<1>4. BalanceTracksDeposit' /\ NoPaymentCountedTwice' /\ LoneRequestsLoseNothing'
  BY <1>2, <1>3 DEF IInv, BalanceTracksDeposit,
     NoPaymentCountedTwice, LoneRequestsLoseNothing
<1>5. HoldersOK'
  <2> SUFFICES ASSUME NEW q \in Requests, Busy(q)'
               PROVE  Backed(q)' /\ BalancedHolder(q)' /\ LoneHolder(q)'
    BY DEF HoldersOK
  <2>1. q # r
    OBVIOUS
  <2>2. pc'[q] = pc[q] /\ Busy(q)
    BY <1>1, <2>1 DEF Busy, TypeOK
  <2>3. Backed(q) /\ BalancedHolder(q) /\ LoneHolder(q)
    BY <2>2 DEF IInv, HoldersOK
  <2>4. /\ target'[q] = target[q] /\ copy'[q] = copy[q]
        /\ dirty'[q] = dirty[q] /\ payment'[q] = payment[q]
        /\ target[q] \in Orders
    BY <1>1, <2>1 DEF TypeOK
  <2>5. Backed(q)'
    BY <2>3, <2>4 DEF Backed
  <2>6. BalancedHolder(q)'
    BY <1>2, <2>2, <2>3, <2>4 DEF BalancedHolder, Balanced
  <2>7. \A p \in Requests : Busy(p)' /\ target'[p] = target[q] =>
            Busy(p) /\ target[p] = target[q]
    BY <1>1 DEF Busy, TypeOK
  <2>8. LoneHolder(q)'
    BY <2>1, <2>2, <2>3, <2>4, <2>7 DEF LoneHolder, FlagIsRight
  <2> QED BY <2>5, <2>6, <2>8
<1> QED BY <1>4, <1>5 DEF IInv

(* save's UPDATE: the merged row still balances, because deposit and       *)
(* balance come both from the copy or both from the row; a lone request    *)
(* writes exactly its copy.                                                *)
LEMMA CommitIInv ==
    ASSUME IInv, NEW r \in Requests, Commit(r)
    PROVE  IInv'
<1> DEFINE o == target[r]
           new == Merged(Columns, row[o], copy[r], dirty[r])
<1>1. /\ pc[r] = "saving"
      /\ row' = [row EXCEPT ![o] = new]
      /\ committed' = [committed EXCEPT ![o] = @ + payment[r]]
      /\ pc' = [pc EXCEPT ![r] = "done"]
      /\ copy' = [copy EXCEPT ![r] = Blank]
      /\ dirty' = [dirty EXCEPT ![r] = {}]
      /\ crowded' = crowded \ {r}
      /\ UNCHANGED <<keys, target, payment, offered, overlapped, repriced>>
  BY DEF Commit
<1>2. TypeOK
  BY DEF IInv
<1>3. /\ o \in Orders /\ row[o] \in Row /\ copy[r] \in Row
      /\ row[o].depositPaid \in Int /\ row[o].totalAmount \in Int
      /\ copy[r].depositPaid \in Int
  BY <1>2 DEF TypeOK, Row
<1>4. new \in Row /\ \A c \in Columns :
                 new[c] = IF c \in dirty[r] THEN copy[r][c] ELSE row[o][c]
  BY <1>3, MergedColumns
<1> HIDE DEF new
<1>5. Busy(r) /\ Backed(r) /\ BalancedHolder(r) /\ LoneHolder(r)
  BY <1>1 DEF Busy, IInv, HoldersOK
<1>6. o \in keys /\ \A k \in keys : k \in Orders
  BY <1>2, <1>5 DEF Backed, TypeOK
<1>7. ~repriced[o] => Balanced(new) /\ new.totalAmount = row[o].totalAmount
  <2> SUFFICES ASSUME ~repriced[o]
               PROVE  Balanced(new) /\ new.totalAmount = row[o].totalAmount
    OBVIOUS
  <2>1. /\ "totalAmount" \notin dirty[r]
        /\ "depositPaid" \in dirty[r] <=> "balanceOwing" \in dirty[r]
        /\ Balanced(copy[r]) /\ copy[r].totalAmount = row[o].totalAmount
    BY <1>1, <1>5 DEF BalancedHolder
  <2>2. Balanced(row[o])
    BY <1>6 DEF IInv, BalanceTracksDeposit, Balanced
  <2>3. /\ "totalAmount" \in Columns /\ "depositPaid" \in Columns
        /\ "balanceOwing" \in Columns
    BY DEF Columns
  <2> QED BY <1>4, <2>1, <2>2, <2>3 DEF Balanced
<1>8. new.depositPaid <= offered[o]
  <2>1. copy[r].depositPaid <= offered[o] /\ row[o].depositPaid <= offered[o]
    BY <1>5, <1>6 DEF Backed, IInv, NoPaymentCountedTwice
  <2> QED BY <1>4, <2>1 DEF Columns
<1>9. ~overlapped[o] => /\ new.depositPaid = committed[o] + payment[r]
                        /\ FlagIsRight(new)
  <2> SUFFICES ASSUME ~overlapped[o]
               PROVE  new.depositPaid = committed[o] + payment[r] /\ FlagIsRight(new)
    OBVIOUS
  <2>1. \A c \in Columns : new[c] = copy[r][c]
    BY <1>1, <1>4, <1>5 DEF LoneHolder
  <2>2. /\ new.depositPaid = copy[r].depositPaid /\ new.isUrgent = copy[r].isUrgent
        /\ new.priority = copy[r].priority
    BY <2>1 DEF Columns
  <2> QED BY <1>5, <2>2 DEF LoneHolder, FlagIsRight
<1>10. /\ row' \in [Orders -> Row] /\ row'[o] = new
       /\ committed' \in [Orders -> Int] /\ committed'[o] = committed[o] + payment[r]
       /\ \A k \in Orders \ {o} : row'[k] = row[k] /\ committed'[k] = committed[k]
  BY <1>1, <1>2, <1>3, <1>4 DEF TypeOK
<1>11. TypeOK'
  <2>1. Blank \in Row
    BY DEF Blank, Row, Statuses, Priorities
  <2>2. copy' \in [Requests -> Row] /\ dirty' \in [Requests -> SUBSET Columns]
        /\ pc' \in [Requests -> Pcs]
    BY <1>1, <1>2, <2>1 DEF TypeOK, Pcs
  <2> QED BY <1>1, <1>2, <1>10, <2>2 DEF TypeOK
<1>12. ASSUME NEW k \in keys
       PROVE  /\ ~repriced[k] => Balanced(row'[k])
              /\ row'[k].depositPaid <= offered[k]
              /\ ~overlapped[k] =>
                     row'[k].depositPaid = committed'[k] /\ FlagIsRight(row'[k])
  <2>1. CASE k = o
    BY <1>7, <1>8, <1>9, <1>10, <2>1
  <2>2. CASE k # o
    BY <1>6, <1>10, <2>2 DEF IInv, BalanceTracksDeposit, Balanced,
       NoPaymentCountedTwice, LoneRequestsLoseNothing, FlagIsRight
  <2> QED BY <2>1, <2>2
<1>13. BalanceTracksDeposit' /\ NoPaymentCountedTwice' /\ LoneRequestsLoseNothing'
  BY <1>1, <1>12 DEF BalanceTracksDeposit, NoPaymentCountedTwice,
                     LoneRequestsLoseNothing, Balanced, FlagIsRight
<1>14. HoldersOK'
  <2> SUFFICES ASSUME NEW q \in Requests, Busy(q)'
               PROVE  Backed(q)' /\ BalancedHolder(q)' /\ LoneHolder(q)'
    BY DEF HoldersOK
  <2>1. q # r
    BY <1>1, <1>2 DEF Busy, TypeOK
  <2>2. /\ Busy(q) /\ pc'[q] = pc[q] /\ copy'[q] = copy[q] /\ dirty'[q] = dirty[q]
        /\ target[q] \in Orders
    BY <1>1, <1>2, <2>1 DEF Busy, TypeOK
  <2>3. Backed(q) /\ BalancedHolder(q) /\ LoneHolder(q)
    BY <2>2 DEF IInv, HoldersOK
  <2>4. Backed(q)'
    BY <1>1, <2>2, <2>3 DEF Backed
  <2>5. BalancedHolder(q)'
    BY <1>1, <1>7, <1>10, <2>2, <2>3 DEF BalancedHolder, Balanced
  <2>6. target[q] # o \/ overlapped[target[q]]
    BY <1>5, <2>1, <2>2 DEF LoneHolder
  <2>7. \A p \in Requests : Busy(p)' => Busy(p)
    BY <1>1, <1>2 DEF Busy, TypeOK
  <2>8. LoneHolder(q)'
    BY <1>1, <1>10, <2>2, <2>3, <2>6, <2>7 DEF LoneHolder, FlagIsRight
  <2> QED BY <2>4, <2>5, <2>8
<1> QED BY <1>11, <1>13, <1>14 DEF IInv

(* Every step keeps the invariant.                                         *)
THEOREM StepIInv == IInv /\ [Next]_vars => IInv'
<1> SUFFICES ASSUME IInv, [Next]_vars PROVE IInv'
  OBVIOUS
<1>0. TypeOK /\ Blank \in Row
  BY DEF IInv, Blank, Row, Statuses, Priorities
<1>1. ASSUME NEW o \in Orders, NEW dto \in CreateDtos, Create(o, dto) PROVE IInv'
  BY <1>1, CreateIInv
<1>2. ASSUME NEW r \in Requests, NEW o \in Orders, NEW dto \in UpdateDtos,
             StartUpdate(r, o, dto)
      PROVE  IInv'
  <2> DEFINE u == Updated(row[o], dto)
             pricing == dto.totalAmount # -1
  <2>1. row[o] \in Row /\ dto.additionalDeposit \in Nat
    BY <1>0, DtoAssumption DEF TypeOK
  <2>2. u \in Row /\ u.depositPaid = row[o].depositPaid + dto.additionalDeposit
    BY <2>1, UpdatedFields
  <2>3. FlagIsRight(row[o]) => FlagIsRight(u)
    <3>1. u.priority = IF dto.priority = Unset THEN row[o].priority ELSE dto.priority
      BY <2>1 DEF Updated, UpdatedTo, Row
    <3>2. u.isUrgent = IF dto.priority = Unset THEN row[o].isUrgent
                       ELSE IsUrgentPriority(dto.priority)
      BY <2>1 DEF Updated, UpdatedTo, Row
    <3> QED BY <3>1, <3>2 DEF FlagIsRight
  <2>4. ~pricing /\ Balanced(row[o]) =>
            Balanced(u) /\ u.totalAmount = row[o].totalAmount
    <3>1. row[o].depositPaid \in Int
      BY <2>1 DEF Row
    <3> QED BY <2>1, <3>1, UpdatedFields DEF Balanced
  <2>5. Load(r, o, "loaded", u, dto.additionalDeposit)
        /\ repriced' = [repriced EXCEPT ![o] = @ \/ pricing]
    BY <1>2 DEF StartUpdate
  <2> HIDE DEF u
  <2> QED BY <2>1, <2>2, <2>3, <2>4, <2>5, LoadIInv
<1>3. ASSUME NEW r \in Requests, NEW o \in Orders, NEW next \in {"loaded", "removing"},
             NEW entity \in Row, Load(r, o, next, entity, 0), UNCHANGED repriced,
             \A c \in Columns \ {"status"} : entity[c] = row[o][c]
      PROVE  IInv'
  <2>1. /\ entity.depositPaid = row[o].depositPaid + 0
        /\ FlagIsRight(row[o]) => FlagIsRight(entity)
        /\ Balanced(row[o]) =>
               Balanced(entity) /\ entity.totalAmount = row[o].totalAmount
    <3>1. row[o].depositPaid \in Int
      BY <1>0 DEF TypeOK, Row
    <3> QED BY <1>3, <3>1 DEF Columns, FlagIsRight, Balanced
  <2>2. repriced' = [repriced EXCEPT ![o] = @ \/ FALSE]
    BY <1>0, <1>3 DEF TypeOK
  <2> QED BY <1>3, <2>1, <2>2, LoadIInv
<1>4. ASSUME NEW r \in Requests, NEW o \in Orders, StartCancel(r, o) PROVE IInv'
  <2>1. row[o] \in Row
    BY <1>0 DEF TypeOK
  <2> QED BY <1>3, <1>4, <2>1, CancelledFields DEF StartCancel
<1>5. ASSUME NEW r \in Requests, NEW o \in Orders, StartRemove(r, o) PROVE IInv'
  <2>1. row[o] \in Row
    BY <1>0 DEF TypeOK
  <2> QED BY <1>3, <1>5, <2>1 DEF StartRemove
<1>6. ASSUME NEW r \in Requests, NEW o \in Orders, NotFound(r, o) PROVE IInv'
  <2>1. TypeOK'
    BY <1>0, <1>6 DEF TypeOK, NotFound, historyVars, Pcs
  <2>2. pc' = [pc EXCEPT ![r] = "failed"] /\ ~Busy(r)' /\ pc'[r] = "failed"
    BY <1>0, <1>6 DEF TypeOK, NotFound, Busy
  <2> QED BY <1>0, <1>6, <2>1, <2>2, ReleaseIInv DEF NotFound, TypeOK, historyVars
<1>7. ASSUME NEW r \in Requests, Compare(r) PROVE IInv'
  BY <1>7, CompareIInv
<1>8. ASSUME NEW r \in Requests, Commit(r) PROVE IInv'
  BY <1>8, CommitIInv
<1>9. ASSUME NEW r \in Requests, SoftDelete(r) PROVE IInv'
  <2>1. /\ pc[r] = "removing" /\ pc' = [pc EXCEPT ![r] = "done"]
        /\ row' = [row EXCEPT ![target[r]].deleted = TRUE]
        /\ copy' = [copy EXCEPT ![r] = Blank]
        /\ crowded' = crowded \ {r}
        /\ UNCHANGED <<keys, target, dirty, payment>>
        /\ UNCHANGED <<offered, committed, overlapped, repriced>>
    BY <1>9 DEF SoftDelete
  <2>2. target[r] \in Orders /\ row[target[r]] \in Row
    BY <1>0 DEF TypeOK
  <2>3. [row[target[r]] EXCEPT !.deleted = TRUE] \in Row
    BY <2>2 DEF Row
  <2>4. TypeOK'
    BY <1>0, <2>1, <2>3 DEF TypeOK, Pcs
  <2>5. pc'[r] = "done" /\ ~Busy(r)'
    BY <1>0, <2>1 DEF TypeOK, Busy
  <2>6. \A k \in Orders : \A c \in Columns \ {"deleted"} : row'[k][c] = row[k][c]
    BY <1>0, <2>1, <2>2 DEF TypeOK, Row, Columns
  <2>7. LoneHolder(r)
    BY <2>1 DEF Busy, IInv, HoldersOK
  <2>8. ASSUME NEW q \in Requests \ {r}, Busy(q), ~overlapped[target[q]]
        PROVE  row'[target[q]] = row[target[q]]
    <3>1. target[q] # target[r] /\ target[q] \in Orders
      BY <1>0, <2>7, <2>8 DEF LoneHolder, TypeOK
    <3> QED BY <1>0, <2>1, <3>1 DEF TypeOK
  <2> QED BY <1>0, <2>1, <2>4, <2>5, <2>6, <2>8, ReleaseIInv DEF TypeOK
<1>10. ASSUME NEW r \in Requests, Fail(r) PROVE IInv'
  <2>1. TypeOK'
    BY <1>0, <1>10 DEF TypeOK, Fail, Pcs
  <2>2. pc' = [pc EXCEPT ![r] = "failed"] /\ ~Busy(r)' /\ pc'[r] = "failed"
    BY <1>0, <1>10 DEF TypeOK, Fail, Busy
  <2> QED BY <1>0, <1>10, <2>1, <2>2, ReleaseIInv DEF Fail, TypeOK
<1>11. CASE UNCHANGED vars
  BY <1>11 DEF vars, requestVars, historyVars, IInv, TypeOK, BalanceTracksDeposit,
     NoPaymentCountedTwice, LoneRequestsLoseNothing, HoldersOK, Backed,
     BalancedHolder, LoneHolder, Balanced, FlagIsRight, Busy
<1> QED
  BY <1>1, <1>2, <1>4, <1>5, <1>6, <1>7, <1>8, <1>9, <1>10, <1>11 DEF Next

(* The invariant holds of the table under any number of requests.          *)
THEOREM Invariance == Spec => []IInv
BY InitIInv, StepIInv, PTL DEF Spec

(* Rows and copies keep their types.                                       *)
THEOREM TypeCorrect == Spec => []TypeOK
BY Invariance, PTL DEF IInv

(* Balances of orders nobody repriced are right in every interleaving.     *)
THEOREM BalancesAreRight == Spec => []BalanceTracksDeposit
BY Invariance, PTL DEF IInv

(* No interleaving makes a payment out of nothing.                         *)
THEOREM PaymentsAreNotInvented == Spec => []NoPaymentCountedTwice
BY Invariance, PTL DEF IInv

(* Requests that do not overlap lose nothing.                              *)
THEOREM LoneRequestsAreSafe == Spec => []LoneRequestsLoseNothing
BY Invariance, PTL DEF IInv

(* Deletion is final once the last request that read the row has ended.    *)
THEOREM DeletionIsFinal == Spec => DeletedIsGone
<1> DEFINE Gone == \A o \in keys :
                      row[o].deleted /\ Holders(o) = {} =>
                          row'[o] = row[o] /\ Holders(o)' = {}
<1>1. ASSUME TypeOK, Next PROVE Gone
  <2> SUFFICES ASSUME NEW o \in keys, row[o].deleted, Holders(o) = {}
               PROVE  row'[o] = row[o] /\ Holders(o)' = {}
    OBVIOUS
  <2>1. o \in Orders /\ ~Found(o)
    BY <1>1 DEF TypeOK, Found
  <2>2. \A r \in Requests : ~(Busy(r) /\ target[r] = o)
    BY DEF Holders
  <2>3. ASSUME NEW k \in Orders, NEW dto \in CreateDtos, Create(k, dto)
        PROVE  row'[o] = row[o] /\ Holders(o)' = {}
    <3>1. row'[o] = row[o]
      BY <1>1, <2>1, <2>3 DEF Create, TypeOK
    <3> QED BY <2>2, <2>3, <3>1 DEF Create, requestVars, Holders, Busy
  <2>4. ASSUME NEW r \in Requests, NEW k \in Orders, NEW next, NEW e, NEW d,
               Load(r, k, next, e, d)
        PROVE  row'[o] = row[o] /\ Holders(o)' = {}
    <3>1. k # o
      BY <2>1, <2>4 DEF Load
    <3>2. target' = [target EXCEPT ![r] = k] /\ pc' = [pc EXCEPT ![r] = next]
      BY <2>4 DEF Load
    <3>3. \A s \in Requests : ~(Busy(s)' /\ target'[s] = o)
      BY <1>1, <2>2, <3>1, <3>2 DEF TypeOK, Busy
    <3> QED BY <2>4, <3>3 DEF Load, Holders
  <2>5. ASSUME NEW r \in Requests, NEW k \in Orders, NotFound(r, k)
        PROVE  row'[o] = row[o] /\ Holders(o)' = {}
    <3>1. \A s \in Requests : ~(Busy(s)' /\ target'[s] = o)
      BY <1>1, <2>2, <2>5 DEF NotFound, TypeOK, Busy
    <3> QED BY <2>5, <3>1 DEF NotFound, Holders
  <2>6. ASSUME NEW r \in Requests, Commit(r) \/ SoftDelete(r)
        PROVE  row'[o] = row[o] /\ Holders(o)' = {}
    <3>1. target[r] # o
      BY <2>2, <2>6 DEF Commit, SoftDelete, Busy
    <3>2. row'[o] = row[o]
      BY <1>1, <2>1, <2>6, <3>1 DEF Commit, SoftDelete, TypeOK
    <3>3. \A s \in Requests : ~(Busy(s)' /\ target'[s] = o)
      BY <1>1, <2>2, <2>6, <3>1 DEF Commit, SoftDelete, TypeOK, Busy
    <3> QED BY <3>2, <3>3 DEF Holders
  <2>7. ASSUME NEW r \in Requests, Compare(r) \/ Fail(r)
        PROVE  row'[o] = row[o] /\ Holders(o)' = {}
    <3>1. \A s \in Requests : ~(Busy(s)' /\ target'[s] = o)
      BY <1>1, <2>2, <2>7 DEF Compare, Fail, TypeOK, Busy
    <3> QED BY <2>7, <3>1 DEF Compare, Fail, Holders
  <2> QED BY <1>1, <2>3, <2>4, <2>5, <2>6, <2>7
          DEF Next, StartUpdate, StartCancel, StartRemove
<1>2. IInv /\ [Next]_vars => [Gone]_vars
  BY <1>1 DEF IInv
<1> QED BY <1>2, Invariance, PTL DEF Spec, DeletedIsGone

-----------------------------------------------------------------------------
(* Atomicity.  A request that overlapped no other since it loaded holds    *)
(* its order alone, and the row has not moved under it: its copy is what   *)
(* its one statement makes of the row as it still is.                      *)

WholeEffect(q) ==
    LET old == row[target[q]] IN
    \/ copy[q] = Cancelled(old)
    \/ \E dto \in UpdateDtos : copy[q] = Updated(old, dto)

WholeHolder(q) ==
    LET o == target[q] IN
    /\ Found(o)
    /\ \A p \in Requests : Busy(p) /\ target[p] = o => p = q
    /\ pc[q] # "removing" => WholeEffect(q)
    /\ pc[q] = "saving" => dirty[q] = Differing(Columns, copy[q], row[o])

CrowdOK ==
    /\ \A q \in crowded : Busy(q)
    /\ \A q \in Requests : Busy(q) /\ q \notin crowded => WholeHolder(q)

(* A step that concerns neither the request nor its order leaves it so.    *)
LEMMA WholeHolderKept ==
    ASSUME NEW q \in Requests, WholeHolder(q),
           pc'[q] = pc[q], target'[q] = target[q], copy'[q] = copy[q],
           dirty'[q] = dirty[q],
           keys \subseteq keys', row'[target[q]] = row[target[q]],
           \A p \in Requests : Busy(p)' /\ target'[p] = target[q] =>
                                   Busy(p) /\ target[p] = target[q]
    PROVE  WholeHolder(q)'
<1>1. Found(target[q])'
  BY DEF WholeHolder, Found
<1>2. WholeEffect(q) => WholeEffect(q)'
  BY DEF WholeEffect
<1> QED BY <1>1, <1>2 DEF WholeHolder

(* A request gets hold of its order: it is whole unless it finds others    *)
(* there, and whoever is there is whole no longer.                         *)
LEMMA LoadCrowd ==
    ASSUME TypeOK, CrowdOK, NEW r \in Requests, NEW o \in Orders,
           NEW next \in {"loaded", "removing"}, NEW entity, NEW deposit,
           Load(r, o, next, entity, deposit),
           next = "loaded" =>
               \/ entity = Cancelled(row[o])
               \/ \E dto \in UpdateDtos : entity = Updated(row[o], dto)
    PROVE  CrowdOK'
<1>1. /\ pc[r] = "idle" /\ Found(o)
      /\ pc' = [pc EXCEPT ![r] = next]
      /\ target' = [target EXCEPT ![r] = o]
      /\ copy' = [copy EXCEPT ![r] = entity]
      /\ crowded' = IF Holders(o) = {} THEN crowded
                    ELSE crowded \cup Holders(o) \cup {r}
      /\ UNCHANGED <<keys, row, dirty>>
  BY DEF Load
<1>2. /\ pc'[r] = next /\ target'[r] = o /\ copy'[r] = entity /\ Busy(r)'
      /\ ~Busy(r) /\ r \notin crowded
      /\ \A q \in Requests \ {r} :
             /\ pc'[q] = pc[q] /\ target'[q] = target[q] /\ copy'[q] = copy[q]
             /\ Busy(q)' <=> Busy(q)
  BY <1>1 DEF TypeOK, Busy, CrowdOK
<1>3. \A q \in crowded' : Busy(q)'
  BY <1>1, <1>2 DEF TypeOK, CrowdOK, Holders
<1>4. ASSUME NEW q \in Requests, Busy(q)', q \notin crowded' PROVE WholeHolder(q)'
  <2>1. CASE q = r
    <3>1. Holders(o) = {}
      BY <1>1, <1>4, <2>1
    <3>2. \A p \in Requests : Busy(p)' /\ target'[p] = o => p = r
      BY <1>2, <3>1 DEF Holders
    <3>3. Found(o)' /\ (next = "loaded" => WholeEffect(q)')
      BY <1>1, <1>2, <2>1 DEF Found, WholeEffect
    <3> QED BY <1>2, <2>1, <3>2, <3>3 DEF WholeHolder
  <2>2. CASE q # r
    <3>1. Busy(q) /\ q \notin crowded /\ target[q] # o
      BY <1>1, <1>2, <1>4, <2>2 DEF Holders
    <3>2. WholeHolder(q)
      BY <3>1 DEF CrowdOK
    <3>3. \A p \in Requests : Busy(p)' /\ target'[p] = target[q] =>
                                  Busy(p) /\ target[p] = target[q]
      BY <1>2, <3>1
    <3> QED BY <1>1, <1>2, <2>2, <3>2, <3>3, WholeHolderKept
  <2> QED BY <2>1, <2>2
<1> QED BY <1>3, <1>4 DEF CrowdOK

(* A request ends, and no row but its order's is touched.                  *)
LEMMA EndCrowd ==
    ASSUME TypeOK, CrowdOK, NEW r \in Requests, ~Busy(r)',
           r \notin crowded', crowded' \subseteq crowded,
           crowded \ {r} \subseteq crowded', keys' = keys,
           \A k \in Orders : k # target[r] \/ ~Busy(r) => row'[k] = row[k],
           \A q \in Requests \ {r} : /\ pc'[q] = pc[q] /\ target'[q] = target[q]
                                   /\ copy'[q] = copy[q] /\ dirty'[q] = dirty[q]
    PROVE  CrowdOK'
<1>1. \A q \in Requests \ {r} : Busy(q)' <=> Busy(q)
  BY DEF Busy
<1>2. \A q \in crowded' : Busy(q)'
  BY <1>1 DEF TypeOK, CrowdOK
<1>3. ASSUME NEW q \in Requests, Busy(q)', q \notin crowded' PROVE WholeHolder(q)'
  <2>1. q # r /\ Busy(q) /\ WholeHolder(q) /\ target[q] \in Orders
    BY <1>1, <1>3 DEF CrowdOK, TypeOK
  <2>2. row'[target[q]] = row[target[q]]
    BY <2>1 DEF WholeHolder
  <2>3. \A p \in Requests : Busy(p)' /\ target'[p] = target[q] =>
                                Busy(p) /\ target[p] = target[q]
    BY <1>1
  <2> QED BY <2>1, <2>2, <2>3, WholeHolderKept
<1> QED BY <1>2, <1>3 DEF CrowdOK

(* Every step keeps the lone requests whole.                               *)
LEMMA StepCrowd == TypeOK /\ CrowdOK /\ [Next]_vars => CrowdOK'
<1> SUFFICES ASSUME TypeOK, CrowdOK, [Next]_vars PROVE CrowdOK'
  OBVIOUS
<1>1. ASSUME NEW o \in Orders, NEW dto \in CreateDtos, Create(o, dto)
      PROVE  CrowdOK'
  <2>1. /\ o \notin keys /\ keys' = keys \cup {o} /\ UNCHANGED <<requestVars, crowded>>
        /\ \A k \in Orders \ {o} : row'[k] = row[k]
    BY <1>1 DEF Create, TypeOK
  <2>2. \A q \in Requests : Busy(q)' <=> Busy(q)
    BY <2>1 DEF Busy, requestVars
  <2>3. ASSUME NEW q \in Requests, Busy(q), q \notin crowded PROVE WholeHolder(q)'
    <3>1. WholeHolder(q) /\ target[q] \in Orders \ {o}
      BY <2>1, <2>3 DEF CrowdOK, WholeHolder, Found, TypeOK
    <3> QED BY <2>1, <2>2, <3>1, WholeHolderKept DEF requestVars
  <2> QED BY <2>1, <2>2, <2>3 DEF CrowdOK, TypeOK
<1>2. ASSUME NEW r \in Requests, NEW o \in Orders, NEW dto \in UpdateDtos,
             StartUpdate(r, o, dto)
      PROVE  CrowdOK'
  BY <1>2, LoadCrowd DEF StartUpdate
<1>3. ASSUME NEW r \in Requests, NEW o \in Orders, StartCancel(r, o)
      PROVE  CrowdOK'
  BY <1>3, LoadCrowd DEF StartCancel
<1>4. ASSUME NEW r \in Requests, NEW o \in Orders, StartRemove(r, o)
      PROVE  CrowdOK'
  BY <1>4, LoadCrowd DEF StartRemove
<1>5. ASSUME NEW r \in Requests, NEW o \in Orders, NotFound(r, o)
      PROVE  CrowdOK'
  <2>1. ~Busy(r)' /\ r \notin crowded
    BY <1>5 DEF NotFound, TypeOK, CrowdOK, Busy
  <2> QED BY <1>5, <2>1, EndCrowd DEF NotFound, historyVars, TypeOK
<1>6. ASSUME NEW r \in Requests, Compare(r) PROVE CrowdOK'
  <2>1. /\ pc[r] = "loaded" /\ pc'[r] = "saving"
        /\ dirty'[r] = Differing(Columns, copy[r], row[target[r]])
        /\ \A q \in Requests \ {r} : pc'[q] = pc[q] /\ dirty'[q] = dirty[q]
        /\ UNCHANGED <<keys, row, target, copy, crowded>>
    BY <1>6 DEF Compare, TypeOK, historyVars
  <2>2. \A q \in Requests : Busy(q)' <=> Busy(q)
    BY <2>1 DEF Busy
  <2>3. ASSUME NEW q \in Requests, Busy(q), q \notin crowded PROVE WholeHolder(q)'
    <3>1. WholeHolder(q)
      BY <2>3 DEF CrowdOK
    <3>2. CASE q = r
      BY <2>1, <2>2, <3>1, <3>2 DEF WholeHolder, WholeEffect, Found
    <3>3. CASE q # r
      BY <2>1, <2>2, <3>1, <3>3, WholeHolderKept
    <3> QED BY <3>2, <3>3
  <2> QED BY <2>1, <2>2, <2>3 DEF CrowdOK, TypeOK
<1>7. ASSUME NEW r \in Requests, Commit(r) PROVE CrowdOK'
  BY <1>7, EndCrowd DEF Commit, TypeOK, Busy
<1>8. ASSUME NEW r \in Requests, SoftDelete(r) PROVE CrowdOK'
  BY <1>8, EndCrowd DEF SoftDelete, TypeOK, Busy
<1>9. ASSUME NEW r \in Requests, Fail(r) PROVE CrowdOK'
  BY <1>9, EndCrowd DEF Fail, TypeOK, Busy
<1>10. CASE UNCHANGED vars
  BY <1>10 DEF vars, requestVars, historyVars, CrowdOK, WholeHolder, WholeEffect,
     Busy, Found
<1> QED
  BY <1>1, <1>2, <1>3, <1>4, <1>5, <1>6, <1>7, <1>8, <1>9, <1>10 DEF Next

-----------------------------------------------------------------------------
(* The refinement.  Whether an order is contended depends on who holds it. *)

Crowding(q, o) == q \in crowded /\ Busy(q) /\ target[q] = o

LEMMA ContendedOrders ==
    /\ Contended = {o \in Orders : \E q \in Requests : Crowding(q, o)}
    /\ Contended' = {o \in Orders : \E q \in Requests : Crowding(q, o)'}
BY DEF Contended, Holders, Crowding

(* A step that moves no row and leaves everyone where they were is none of *)
(* the client's business.                                                  *)
LEMMA Unnoticed ==
    ASSUME TypeOK, TypeOK', keys' = keys, \A k \in keys : row'[k] = row[k],
           \A q \in Requests, k \in Orders : Crowding(q, k)' <=> Crowding(q, k)
    PROVE  UNCHANGED Atomic!avars
<1>1. Contended' = Contended
  BY ContendedOrders
<1> QED BY <1>1 DEF Atomic!avars

(* A step of a race: it may move its own row if that was contended, and    *)
(* only whether this order is contended may change.                        *)
LEMMA RaceStep ==
    ASSUME TypeOK, TypeOK', keys' = keys, NEW o \in keys,
           \A k \in keys \ {o} : row'[k] = row[k],
           o \in Contended \/ row'[o] = row[o],
           \A q \in Requests, k \in Orders \ {o} : Crowding(q, k)' <=> Crowding(q, k)
    PROVE  Atomic!Race(o)
<1>1. Contended' \in {Contended \cup {o}, Contended \ {o}}
  BY ContendedOrders
<1>2. Atomic!Only(o)
  BY DEF Atomic!Only
<1> QED BY <1>1, <1>2 DEF Atomic!Race

(* A request that ends without having overlapped: its order is contended   *)
(* neither before nor after.                                               *)
LEMMA LoneEnd ==
    ASSUME TypeOK, TypeOK', NEW r \in Requests, Busy(r), r \notin crowded,
           crowded' = crowded \ {r}, target' = target,
           \A q \in Requests \ {r} : pc'[q] = pc[q]
    PROVE  Contended' = Contended
<1>1. \A q \in Requests, k \in Orders : Crowding(q, k)' <=> Crowding(q, k)
  BY DEF Crowding, Busy
<1> QED BY <1>1, ContendedOrders

(* Getting hold of an order shows only in a race for it.                   *)
LEMMA LoadAtomic ==
    ASSUME TypeOK, TypeOK', CrowdOK, NEW r \in Requests, NEW o \in Orders,
           NEW next \in {"loaded", "removing"}, NEW entity, NEW deposit,
           Load(r, o, next, entity, deposit)
    PROVE  [Atomic!Next]_Atomic!avars
<1>1. /\ pc[r] = "idle" /\ o \in keys
      /\ pc' = [pc EXCEPT ![r] = next]
      /\ target' = [target EXCEPT ![r] = o]
      /\ crowded' = IF Holders(o) = {} THEN crowded
                    ELSE crowded \cup Holders(o) \cup {r}
      /\ UNCHANGED <<keys, row>>
  BY DEF Load, Found
<1>2. /\ target'[r] = o /\ ~Busy(r) /\ r \notin crowded
      /\ \A q \in Requests \ {r} : target'[q] = target[q] /\ (Busy(q)' <=> Busy(q))
  BY <1>1 DEF TypeOK, Busy, CrowdOK
<1>3. \A q \in Requests, k \in Orders \ {o} : Crowding(q, k)' <=> Crowding(q, k)
  BY <1>1, <1>2 DEF Crowding, Holders
<1>4. Atomic!Race(o)
  BY <1>1, <1>3, RaceStep
<1> QED BY <1>4 DEF Atomic!Next

(* A new row.                                                              *)
LEMMA CreateAtomic ==
    ASSUME TypeOK, TypeOK', NEW o \in Orders, NEW dto \in CreateDtos,
           Create(o, dto)
    PROVE  Atomic!Create(o, dto)
<1>1. /\ o \notin keys /\ keys' = keys \cup {o}
      /\ row'[o] = NewRow(dto) /\ \A k \in keys : row'[k] = row[k]
      /\ UNCHANGED <<requestVars, crowded>>
  BY DEF Create, TypeOK
<1>2. Contended' = Contended
  BY <1>1 DEF Contended, Holders, Busy, requestVars
<1>3. Atomic!Only(o)
  BY <1>1 DEF Atomic!Only
<1>4. NewRow(dto).isUrgent = IsUrgentPriority(NewRow(dto).priority)
  <2>1. dto.rushed \in BOOLEAN
    BY DtoAssumption
  <2> QED BY <2>1 DEF NewRow, IsUrgentPriority
<1>5. Atomic!IsUrgentPriority(NewRow(dto).priority) =
          IsUrgentPriority(NewRow(dto).priority)
  BY DEF Atomic!IsUrgentPriority, IsUrgentPriority
<1>6. /\ NewRow(dto).status = "pending" /\ ~NewRow(dto).deleted
      /\ NewRow(dto).isUrgent = dto.rushed
      /\ NewRow(dto).totalAmount = dto.priceSaddle
      /\ NewRow(dto).depositPaid = dto.priceDeposit
      /\ NewRow(dto).balanceOwing = dto.priceSaddle - dto.priceDeposit
  BY DEF NewRow
<1> QED BY <1>1, <1>2, <1>3, <1>4, <1>5, <1>6 DEF Atomic!Create

(* The row that save leaves of a lone request is its copy: what is not     *)
(* dirty is in the row already.                                            *)
LEMMA MergedWhole ==
    ASSUME NEW old \in Row, NEW entity \in Row
    PROVE  Merged(Columns, old, entity, Differing(Columns, entity, old)) = entity
<1>1. entity = [c \in Columns |-> entity[c]]
  BY DEF Row, Columns
<1>2. \A c \in Columns :
          (IF c \in Differing(Columns, entity, old) THEN entity[c] ELSE old[c])
              = entity[c]
  BY DEF Differing
<1> QED BY <1>1, <1>2 DEF Merged

(* What update makes of a row is what a body promises of it.               *)
LEMMA PatchOf ==
    ASSUME NEW o \in keys, NEW dto \in UpdateDtos, keys' = keys,
           row[o] \in Row, ~row[o].deleted, row'[o] = Updated(row[o], dto),
           \A k \in keys \ {o} : row'[k] = row[k], Contended' = Contended
    PROVE  Atomic!Patch(o, dto)
<1>1. Atomic!Live(o) /\ Atomic!Only(o)
  BY DEF Atomic!Live, Atomic!Only
<1>2. /\ dto.additionalDeposit \in Nat
      /\ row[o].depositPaid \in Int
  BY DtoAssumption DEF Row
<1> DEFINE old == row[o]
           new == row'[o]
<1>3. /\ new.status = IF dto.status = Unset THEN old.status ELSE dto.status
      /\ new.priority = IF dto.priority = Unset THEN old.priority ELSE dto.priority
      /\ new.isUrgent = IF dto.priority = Unset THEN old.isUrgent
                        ELSE IsUrgentPriority(dto.priority)
      /\ new.totalAmount = IF dto.totalAmount = -1 THEN old.totalAmount
                           ELSE dto.totalAmount
      /\ new.deleted = old.deleted
  BY DEF Updated, UpdatedTo, Row
<1>4. /\ new.depositPaid = old.depositPaid + dto.additionalDeposit
      /\ new.balanceOwing = IF dto.additionalDeposit > 0
                            THEN new.totalAmount - new.depositPaid
                            ELSE old.balanceOwing
  BY <1>2 DEF Updated, UpdatedTo, Row
<1>5. /\ IF dto.status = "unset" THEN Atomic!Keeps(o, {"status"})
         ELSE new.status = dto.status
      /\ IF dto.priority = "unset" THEN Atomic!Keeps(o, {"priority", "isUrgent"})
         ELSE /\ new.priority = dto.priority
              /\ new.isUrgent = IsUrgentPriority(dto.priority)
      /\ IF dto.totalAmount = -1 THEN Atomic!Keeps(o, {"totalAmount"})
         ELSE new.totalAmount = dto.totalAmount
      /\ Atomic!Keeps(o, {"deleted"})
  BY <1>3 DEF Atomic!Keeps, Unset
<1>6. Atomic!IsUrgentPriority(dto.priority) = IsUrgentPriority(dto.priority)
  BY DEF Atomic!IsUrgentPriority, IsUrgentPriority
<1>7. IF dto.additionalDeposit = 0
      THEN Atomic!Keeps(o, {"depositPaid", "balanceOwing"})
      ELSE /\ new.depositPaid = old.depositPaid + dto.additionalDeposit
           /\ new.balanceOwing = new.totalAmount - new.depositPaid
  BY <1>2, <1>4 DEF Atomic!Keeps
<1> QED BY <1>1, <1>5, <1>7, <1>6 DEF Atomic!Patch

(* save's UPDATE: the whole effect of a lone request, or a step of a race. *)
LEMMA CommitAtomic ==
    ASSUME TypeOK, TypeOK', CrowdOK, NEW r \in Requests, Commit(r),
           target[r] \in keys
    PROVE  [Atomic!Next]_Atomic!avars
<1>0. PICK o \in keys : o = target[r]
  OBVIOUS
<1>1. /\ pc[r] = "saving" /\ Busy(r)
      /\ row'[o] = Merged(Columns, row[o], copy[r], dirty[r])
      /\ \A k \in keys \ {o} : row'[k] = row[k]
      /\ pc' = [pc EXCEPT ![r] = "done"]
      /\ \A q \in Requests \ {r} : pc'[q] = pc[q]
      /\ crowded' = crowded \ {r} /\ target' = target /\ keys' = keys
  BY <1>0 DEF Commit, TypeOK, Busy
<1>2. o \in Orders /\ row[o] \in Row /\ copy[r] \in Row
  BY <1>0 DEF TypeOK
<1>3. CASE r \in crowded
  <2>1. o \in Contended
    BY <1>1, <1>2, <1>3, <1>0, ContendedOrders DEF Crowding
  <2>2. \A q \in Requests, k \in Orders \ {o} : Crowding(q, k)' <=> Crowding(q, k)
    BY <1>0, <1>1 DEF Crowding, Busy
  <2>3. Atomic!Race(o)
    BY <1>1, <2>1, <2>2, RaceStep
  <2> QED BY <1>2, <2>3 DEF Atomic!Next
<1>4. CASE r \notin crowded
  <2>1. /\ Found(o) /\ WholeEffect(r)
        /\ dirty[r] = Differing(Columns, copy[r], row[o])
    BY <1>0, <1>1, <1>4 DEF CrowdOK, WholeHolder
  <2>2. row'[o] = copy[r] /\ Contended' = Contended
    BY <1>1, <1>2, <1>4, <2>1, MergedWhole, LoneEnd
  <2>3. CASE copy[r] = Cancelled(row[o])
    <3>1. Atomic!Cancel(o)
      BY <1>1, <2>1, <2>2, <2>3
      DEF Found, Cancelled, Atomic!Cancel, Atomic!Live, Atomic!Only
    <3> QED BY <1>2, <3>1 DEF Atomic!Next
  <2>4. ASSUME NEW dto \in UpdateDtos, copy[r] = Updated(row[o], dto)
        PROVE  [Atomic!Next]_Atomic!avars
    <3>1. Atomic!Patch(o, dto)
      BY <1>1, <1>2, <2>1, <2>2, <2>4, PatchOf DEF Found
    <3> QED BY <1>2, <3>1 DEF Atomic!Next
  <2> QED BY <1>0, <2>1, <2>3, <2>4 DEF WholeEffect
<1> QED BY <1>3, <1>4

(* softDelete and a failure, in and out of races.                          *)
LEMMA EndAtomic ==
    ASSUME TypeOK, TypeOK', CrowdOK, NEW r \in Requests,
           SoftDelete(r) \/ Fail(r), target[r] \in keys
    PROVE  [Atomic!Next]_Atomic!avars
<1>0. PICK o \in keys : o = target[r]
  OBVIOUS
<1>1. /\ Busy(r) /\ \A k \in keys \ {o} : row'[k] = row[k]
      /\ \A q \in Requests \ {r} : pc'[q] = pc[q]
      /\ crowded' = crowded \ {r} /\ target' = target /\ keys' = keys
      /\ Fail(r) => row' = row
      /\ SoftDelete(r) => row'[o] = [row[o] EXCEPT !.deleted = TRUE]
  BY <1>0 DEF SoftDelete, Fail, TypeOK, Busy
<1>2. o \in Orders
  BY <1>0 DEF TypeOK
<1>3. CASE r \in crowded \/ Fail(r)
  <2>1. o \in Contended \/ row'[o] = row[o]
    BY <1>1, <1>2, <1>3, <1>0, ContendedOrders DEF Crowding
  <2>2. \A q \in Requests, k \in Orders \ {o} : Crowding(q, k)' <=> Crowding(q, k)
    BY <1>0, <1>1 DEF Crowding, Busy
  <2>3. Atomic!Race(o)
    BY <1>1, <2>1, <2>2, RaceStep
  <2> QED BY <1>2, <2>3 DEF Atomic!Next
<1>4. CASE r \notin crowded /\ SoftDelete(r)
  <2>1. Found(o) /\ Contended' = Contended
    BY <1>0, <1>1, <1>4, LoneEnd DEF CrowdOK, WholeHolder
  <2>2. Atomic!Remove(o)
    BY <1>1, <1>4, <2>1 DEF Found, Atomic!Remove, Atomic!Live, Atomic!Only
  <2> QED BY <1>2, <2>2 DEF Atomic!Next
<1> QED BY <1>3, <1>4

(* Every step is one the client may see, or none.                          *)
LEMMA StepAtomic ==
    ASSUME IInv, IInv', CrowdOK, [Next]_vars
    PROVE  [Atomic!Next]_Atomic!avars
<1>0. TypeOK /\ TypeOK' /\ \A r \in Requests : Busy(r) => target[r] \in keys
  BY DEF IInv, HoldersOK, Backed
<1>1. ASSUME NEW o \in Orders, NEW dto \in CreateDtos, Create(o, dto)
      PROVE  [Atomic!Next]_Atomic!avars
  BY <1>0, <1>1, CreateAtomic DEF Atomic!Next
<1>2. ASSUME NEW r \in Requests, NEW o \in Orders, NEW next \in {"loaded", "removing"},
             NEW entity, NEW deposit, Load(r, o, next, entity, deposit)
      PROVE  [Atomic!Next]_Atomic!avars
  BY <1>0, <1>2, LoadAtomic
<1>3. ASSUME NEW r \in Requests, NEW o \in Orders,
             \/ StartCancel(r, o) \/ StartRemove(r, o)
             \/ \E dto \in UpdateDtos : StartUpdate(r, o, dto)
      PROVE  [Atomic!Next]_Atomic!avars
  BY <1>2, <1>3 DEF StartUpdate, StartCancel, StartRemove
<1>4. ASSUME NEW r \in Requests, NEW o \in Orders, NotFound(r, o)
      PROVE  [Atomic!Next]_Atomic!avars
  <2>1. \A q \in Requests, k \in Orders : Crowding(q, k)' <=> Crowding(q, k)
    BY <1>0, <1>4 DEF NotFound, Crowding, Busy, TypeOK, historyVars
  <2> QED BY <1>0, <1>4, <2>1, Unnoticed DEF NotFound
<1>5. ASSUME NEW r \in Requests, Compare(r) PROVE [Atomic!Next]_Atomic!avars
  <2>1. \A q \in Requests, k \in Orders : Crowding(q, k)' <=> Crowding(q, k)
    BY <1>0, <1>5 DEF Compare, Crowding, Busy, TypeOK, historyVars
  <2> QED BY <1>0, <1>5, <2>1, Unnoticed DEF Compare
<1>6. ASSUME NEW r \in Requests, Commit(r) PROVE [Atomic!Next]_Atomic!avars
  <2>1. Busy(r)
    BY <1>6 DEF Commit, Busy
  <2> QED BY <1>0, <1>6, <2>1, CommitAtomic
<1>7. ASSUME NEW r \in Requests, SoftDelete(r) \/ Fail(r)
      PROVE  [Atomic!Next]_Atomic!avars
  <2>1. Busy(r)
    BY <1>7 DEF SoftDelete, Fail, Busy
  <2> QED BY <1>0, <1>7, <2>1, EndAtomic
<1>8. CASE UNCHANGED vars
  BY <1>0, <1>8, Unnoticed DEF vars, requestVars, historyVars, Crowding, Busy
<1> QED
  BY <1>1, <1>3, <1>4, <1>5, <1>6, <1>7, <1>8 DEF Next

(* A request that overlaps no other on its order is atomic: the order      *)
(* service implements AtomicOrders.                                        *)
THEOREM ImplementsAtomicOrders == Spec => LoneRequestsAreAtomic
<1>1. Init => CrowdOK
  BY DEF Init, CrowdOK, Busy
<1>2. Init => Atomic!Init
  BY DEF Init, Atomic!Init, Contended
<1>3. IInv /\ CrowdOK /\ [Next]_vars => CrowdOK'
  BY StepCrowd DEF IInv
<1>4. IInv /\ IInv' /\ CrowdOK /\ [Next]_vars => [Atomic!Next]_Atomic!avars
  BY StepAtomic
<1> QED
  BY <1>1, <1>2, <1>3, <1>4, Invariance, PTL
  DEF Spec, LoneRequestsAreAtomic, Atomic!Spec

=============================================================================
