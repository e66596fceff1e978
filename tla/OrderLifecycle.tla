---------------------------- MODULE OrderLifecycle ----------------------------
(***************************************************************************)
(* The order aggregate, backend/src/orders/domain/order.ts: one order from *)
(* Order.create on, and every method that changes it.  A method that       *)
(* throws leaves the order as it was, so a call whose guard fails is a     *)
(* call the model does not take.  Amounts are integers (cents), dates are  *)
(* readings of the clock, NoDate and NoId stand for null, and updatedAt,   *)
(* which no guard reads, is left out.                                      *)
(***************************************************************************)
EXTENDS Integers, OrderStatus

CONSTANTS
    Amounts,       \* amounts offered to create and recordDepositPayment
    Ids,           \* ids offered to the assignment methods, 0 and below too
    Measurements,  \* measurement sheets
    Names,         \* customer names
    NoValue,       \* null, for measurements and names
    Dates,         \* dates offered to create and updateEstimatedDeliveryDate
    Start,         \* the clock when the order is created
    MaxNow         \* bound on the clock

NoId   == 0
NoDate == -1

ASSUME AmountsAssumption == Amounts \subseteq Int
ASSUME IdsAssumption     == Ids \subseteq Int
ASSUME DatesAssumption   == Dates \subseteq Nat
ASSUME ClockAssumption   == Start \in Nat /\ MaxNow \in Nat

VARIABLES
    status, priority, isUrgent, fitterId, factoryId,
    totalAmount, depositPaid, balanceOwing,
    estimatedDeliveryDate, actualDeliveryDate,
    measurements, customerName, saddleId,
    now,           \* what new Date() returns
    inspected      \* history: passed quality control since last produced

payment == <<totalAmount, depositPaid, balanceOwing>>
staff   == <<fitterId, factoryId>>
urgency == <<priority, isUrgent>>
details == <<measurements, customerName, saddleId>>
dates   == <<estimatedDeliveryDate, actualDeliveryDate>>
history == <<inspected>>

vars == <<status, urgency, staff, payment, dates, details, now, history>>

-----------------------------------------------------------------------------

(* Order.create followed by validateBusinessRules: a total that is not     *)
(* positive makes no order.                                                *)
Init ==
    /\ status = "pending" /\ inspected = FALSE
    /\ priority = "normal" /\ isUrgent = FALSE
    /\ fitterId = NoId /\ factoryId = NoId
    /\ totalAmount \in {a \in Amounts : a > 0}
    /\ depositPaid = 0 /\ balanceOwing = totalAmount
    /\ estimatedDeliveryDate \in Dates \cup {NoDate}
    /\ actualDeliveryDate = NoDate
    /\ measurements = NoValue /\ customerName = NoValue /\ saddleId = NoId
    /\ now = Start

AssignFitter(id) ==
    /\ ~IsFinal(status)
    /\ id > 0
    /\ fitterId' = id
    /\ UNCHANGED <<status, urgency, factoryId, payment, dates, details, now,
                   history>>

AssignFactory(id) ==
    /\ ~IsFinal(status)
    /\ id > 0
    /\ factoryId' = id
    /\ UNCHANGED <<status, urgency, fitterId, payment, dates, details, now,
                   history>>

(* The history of inspections: quality control passes the saddle, going    *)
(* back to production voids the pass.                                      *)
InspectionAfter(newStatus) ==
    IF newStatus = "quality_control" THEN TRUE
    ELSE IF newStatus = "in_production" THEN FALSE
    ELSE inspected

(* Mutant: the delivery date is left to the caller.                        *)
ChangeStatusUndated(newStatus) ==
    /\ CanTransitionTo(status, newStatus)
    /\ status' = newStatus
    /\ inspected' = InspectionAfter(newStatus)
    /\ UNCHANGED <<urgency, staff, payment, dates, details, now>>

ChangeStatus(newStatus) ==
    /\ CanTransitionTo(status, newStatus)
    /\ status' = newStatus
    /\ actualDeliveryDate' =
           IF newStatus = "delivered" /\ actualDeliveryDate = NoDate
           THEN now ELSE actualDeliveryDate
    /\ inspected' = InspectionAfter(newStatus)
    /\ UNCHANGED <<urgency, staff, payment, estimatedDeliveryDate, details,
                   now>>

(* Mutant: priority may be changed on a finished order.                    *)
UpdatePriorityAnytime(newPriority) ==
    /\ priority' = newPriority
    /\ isUrgent' = IsUrgentPriority(newPriority)
    /\ UNCHANGED <<status, staff, payment, dates, details, now, history>>

UpdatePriority(newPriority) ==
    /\ ~IsFinal(status)
    /\ priority' = newPriority
    /\ isUrgent' = IsUrgentPriority(newPriority)
    /\ UNCHANGED <<status, staff, payment, dates, details, now, history>>

(* Mutant: the cap compares the payment alone with the total.              *)
RecordDepositPaymentUncapped(amount) ==
    /\ amount > 0
    /\ amount <= totalAmount
    /\ depositPaid' = depositPaid + amount
    /\ balanceOwing' = totalAmount - depositPaid'
    /\ UNCHANGED <<status, urgency, staff, totalAmount, dates, details, now,
                   history>>

(* The status is not looked at: a finished order still takes payments.     *)
RecordDepositPayment(amount) ==
    /\ amount > 0
    /\ depositPaid + amount <= totalAmount
    /\ depositPaid' = depositPaid + amount
    /\ balanceOwing' = totalAmount - depositPaid'
    /\ UNCHANGED <<status, urgency, staff, totalAmount, dates, details, now,
                   history>>

UpdateMeasurements(m) ==
    /\ ~IsFinal(status)
    /\ measurements' = m
    /\ UNCHANGED <<status, urgency, staff, payment, dates, customerName,
                   saddleId, now, history>>

(* Mutant: a date already past is accepted.                                *)
UpdateEstimatedDeliveryDateUnchecked(date) ==
    /\ ~IsFinal(status)
    /\ estimatedDeliveryDate' = date
    /\ UNCHANGED <<status, urgency, staff, payment, actualDeliveryDate,
                   details, now, history>>

UpdateEstimatedDeliveryDate(date) ==
    /\ ~IsFinal(status)
    /\ date > now
    /\ estimatedDeliveryDate' = date
    /\ UNCHANGED <<status, urgency, staff, payment, actualDeliveryDate,
                   details, now, history>>

(* A blank reason makes cancel throw; otherwise the reason is not kept.    *)
Cancel(reasonIsBlank) ==
    /\ CanBeCancelled(status)
    /\ ~reasonIsBlank
    /\ status' = "cancelled"
    /\ UNCHANGED <<urgency, staff, payment, dates, details, now, history>>

UpdateCustomerName(name) ==
    /\ customerName' = name
    /\ UNCHANGED <<status, urgency, staff, payment, dates, measurements,
                   saddleId, now, history>>

UpdateSaddleId(id) ==
    /\ saddleId' = id
    /\ UNCHANGED <<status, urgency, staff, payment, dates, measurements,
                   customerName, now, history>>

(* Time passes between calls.                                              *)
Tick ==
    /\ now < MaxNow
    /\ now' = now + 1
    /\ UNCHANGED <<status, urgency, staff, payment, dates, details, history>>

Next ==
    \/ \E id \in Ids : AssignFitter(id)
    \/ \E id \in Ids : AssignFactory(id)
    \/ \E s \in Statuses : ChangeStatus(s)
    \/ \E p \in Priorities : UpdatePriority(p)
    \/ \E a \in Amounts : RecordDepositPayment(a)
    \/ \E m \in Measurements : UpdateMeasurements(m)
    \/ \E d \in Dates : UpdateEstimatedDeliveryDate(d)
    \/ \E blank \in BOOLEAN : Cancel(blank)
    \/ \E n \in Names : UpdateCustomerName(n)
    \/ \E id \in Ids : UpdateSaddleId(id)
    \/ Tick

Spec == Init /\ [][Next]_vars

-----------------------------------------------------------------------------
(* What holds of an order.                                                 *)

IsOverdue ==
    /\ estimatedDeliveryDate # NoDate
    /\ ~IsFinal(status)
    /\ now > estimatedDeliveryDate

(* Every field holds a value of its column; amounts never go negative.     *)
TypeOK ==
    /\ status \in Statuses /\ inspected \in BOOLEAN
    /\ priority \in Priorities /\ isUrgent \in BOOLEAN
    /\ fitterId \in Nat /\ factoryId \in Nat
    /\ totalAmount \in Nat \ {0} /\ depositPaid \in Nat /\ balanceOwing \in Nat
    /\ estimatedDeliveryDate \in Nat \cup {NoDate}
    /\ actualDeliveryDate \in Nat \cup {NoDate}
    /\ measurements \in Measurements \cup {NoValue}
    /\ customerName \in Names \cup {NoValue}
    /\ saddleId \in Int
    /\ now \in Nat

(* The books balance after any sequence of payments, on an order in any    *)
(* status: what is paid and what is owed add up to the total, and neither  *)
(* exceeds it (recordDepositPayment's cap).                                *)
PaymentBalances ==
    /\ depositPaid + balanceOwing = totalAmount
    /\ depositPaid \in 0 .. totalAmount

(* Nothing is made ready, shipped or delivered unless it passed quality    *)
(* control after the last time it was in production, however often it went *)
(* back and forth between the two (STATUS_TRANSITIONS).                    *)
NeverShipsUninspected ==
    status \in {"ready_for_shipping", "shipped", "shipped_to_customer",
               "delivered", "returned"} => inspected

(* An order carries an actual delivery date exactly when it was delivered, *)
(* and never one from the future; only a return can follow                 *)
(* (changeStatus).                                                         *)
DeliveryIsDated ==
    /\ status = "delivered" => actualDeliveryDate # NoDate
    /\ actualDeliveryDate # NoDate =>
           status \in {"delivered", "returned"} /\ actualDeliveryDate <= now

(* No call makes an order overdue: it becomes so only because time passes. *)
(* A new estimate lies ahead, and a finished order is never reopened.      *)
OverdueOnlyByTime == [][~IsOverdue /\ IsOverdue' => now' > now]_vars

(* A finished order is frozen: staff, urgency, measurements and dates stay *)
(* as they are and the order never becomes unfinished again, whatever is   *)
(* called; only payments and the search fields may still change.           *)
FinishedIsFrozen ==
    [][IsFinal(status) =>
         IsFinal(status') /\ UNCHANGED <<urgency, staff, dates, measurements>>]_vars

(* The stage an outsider sees.                                             *)
Stage ==
    IF status \in {"shipped", "shipped_to_customer"} THEN "transit"
    ELSE IF IsFinal(status) THEN status
    ELSE "workshop"

Contract == INSTANCE OrderContract WITH stage <- Stage, owing <- balanceOwing

(* The aggregate implements the contract: stages move forward only, a      *)
(* cancelled or returned order stays so, the amount owing only goes down.  *)
HonoursContract == Contract!Spec

=============================================================================
