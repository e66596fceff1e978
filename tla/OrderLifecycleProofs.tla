------------------------ MODULE OrderLifecycleProofs ------------------------
(***************************************************************************)
(* The invariants of the order aggregate, for every set of amounts, ids,   *)
(* dates, sheets and names, and that the aggregate implements its          *)
(* contract.                                                               *)
(***************************************************************************)
EXTENDS OrderLifecycle, TLAPS

(* The transition table alone does not say that an order in quality        *)
(* control counts as inspected; the induction needs it said.               *)
InspectedInQC == status = "quality_control" => inspected

IInv ==
    /\ TypeOK
    /\ PaymentBalances
    /\ NeverShipsUninspected
    /\ InspectedInQC
    /\ DeliveryIsDated

(* The transition table, spelled out: where a status can be entered from.  *)
LEMMA EnteringStatuses ==
    ASSUME NEW s \in Statuses, NEW t \in Statuses, CanTransitionTo(s, t)
    PROVE  /\ t = "ready_for_shipping" => s = "quality_control"
           /\ t = "shipped" => s = "ready_for_shipping"
           /\ t = "shipped_to_customer" => s = "shipped"
           /\ t = "delivered" => s \in {"shipped", "shipped_to_customer"}
           /\ t = "returned" =>
                  s \in {"shipped", "shipped_to_customer", "delivered"}
           /\ s = "delivered" => t = "returned"
           /\ s \notin {"cancelled", "returned"}
           /\ s \in {"shipped", "shipped_to_customer"} =>
                  t \in {"shipped_to_customer", "delivered", "returned"}
           /\ t # "pending"
BY DEF Statuses, CanTransitionTo, StatusTransitions

(* An order just created satisfies the invariant.                          *)
THEOREM InitIInv == Init => IInv
<1> SUFFICES ASSUME Init PROVE IInv
  OBVIOUS
<1>1. status = "pending" /\ inspected = FALSE /\ actualDeliveryDate = -1
  BY DEF Init, NoDate
<1>2. TypeOK
  <2>1. status \in Statuses /\ priority \in Priorities
    BY DEF Init, Statuses, Priorities
  <2>2. inspected \in BOOLEAN /\ isUrgent \in BOOLEAN
    BY DEF Init
  <2>3. totalAmount \in Nat \ {0} /\ depositPaid \in Nat /\ balanceOwing \in Nat
    BY AmountsAssumption DEF Init
  <2>4. /\ fitterId \in Nat /\ factoryId \in Nat /\ saddleId \in Int
        /\ estimatedDeliveryDate \in Nat \cup {NoDate}
        /\ actualDeliveryDate \in Nat \cup {NoDate} /\ now \in Nat
    BY DatesAssumption, ClockAssumption DEF Init, NoId
  <2>5. measurements \in Measurements \cup {NoValue} /\ customerName \in Names \cup {NoValue}
    BY DEF Init
  <2> QED BY <2>1, <2>2, <2>3, <2>4, <2>5 DEF TypeOK
<1>3. PaymentBalances
  BY AmountsAssumption DEF Init, PaymentBalances
<1>4. NeverShipsUninspected /\ InspectedInQC /\ DeliveryIsDated
  BY <1>1 DEF NeverShipsUninspected, InspectedInQC, DeliveryIsDated, NoDate
<1> QED BY <1>2, <1>3, <1>4 DEF IInv

(* Steps that touch neither the status, nor the money, nor the delivery    *)
(* date, nor the inspection record keep everything the invariant says of   *)
(* them; such a step has only its own fields' types to answer for.         *)
LEMMA UndisturbedIInv ==
    ASSUME IInv, TypeOK',
           UNCHANGED <<status, inspected, payment, actualDeliveryDate, now>>
    PROVE  IInv'
<1>1. PaymentBalances'
  BY DEF IInv, PaymentBalances, payment
<1>2. NeverShipsUninspected' /\ InspectedInQC' /\ DeliveryIsDated'
  BY DEF IInv, NeverShipsUninspected, InspectedInQC, DeliveryIsDated
<1> QED BY <1>1, <1>2 DEF IInv

(* Changing the status: the conjuncts about inspection and delivery are    *)
(* those at stake, and the transition table is what saves them.            *)
LEMMA ChangeStatusIInv ==
    ASSUME IInv, NEW s \in Statuses, ChangeStatus(s)
    PROVE  IInv'
<1> USE DEF IInv
<1>1. TypeOK
  OBVIOUS
<1>2. CanTransitionTo(status, s) /\ status' = s /\ inspected' = InspectionAfter(s)
  BY DEF ChangeStatus
<1>3. status \in Statuses /\ inspected \in BOOLEAN /\ now \in Nat
      /\ actualDeliveryDate \in Nat \cup {NoDate}
  BY DEF TypeOK
<1>4. now' = now /\ actualDeliveryDate' =
          IF s = "delivered" /\ actualDeliveryDate = NoDate
          THEN now ELSE actualDeliveryDate
  BY DEF ChangeStatus
<1>5. TypeOK'
  <2>1. inspected' \in BOOLEAN
    BY <1>2, <1>3 DEF InspectionAfter
  <2>2. actualDeliveryDate' \in Nat \cup {NoDate}
    BY <1>3, <1>4
  <2> QED BY <1>1, <1>2, <2>1, <2>2
    DEF TypeOK, ChangeStatus, urgency, staff, payment, details
<1>6. PaymentBalances'
  BY DEF ChangeStatus, PaymentBalances, payment
<1>7. InspectedInQC'
  BY <1>2 DEF InspectedInQC, InspectionAfter
<1>8. NeverShipsUninspected'
  <2> SUFFICES ASSUME s \in {"ready_for_shipping", "shipped",
                             "shipped_to_customer", "delivered", "returned"}
               PROVE  inspected'
    BY <1>2 DEF NeverShipsUninspected
  <2>1. inspected
    BY <1>2, <1>3, EnteringStatuses DEF NeverShipsUninspected, InspectedInQC
  <2> QED BY <1>2, <2>1 DEF InspectionAfter
<1>9. DeliveryIsDated'
  <2>1. now # NoDate
    BY <1>3 DEF NoDate
  <2>2. CASE s = "delivered"
    <3>1. actualDeliveryDate = NoDate
      BY <1>2, <1>3, <2>2, EnteringStatuses DEF DeliveryIsDated
    <3> QED BY <1>2, <1>3, <1>4, <2>1, <2>2, <3>1 DEF DeliveryIsDated
  <2>3. CASE s # "delivered"
    <3>1. actualDeliveryDate' = actualDeliveryDate
      BY <1>4, <2>3
    <3>2. actualDeliveryDate # NoDate => s = "returned" /\ actualDeliveryDate <= now
      BY <1>2, <1>3, EnteringStatuses DEF DeliveryIsDated
    <3> QED BY <1>2, <1>4, <2>3, <3>1, <3>2 DEF DeliveryIsDated
  <2> QED BY <2>2, <2>3
<1> QED BY <1>5, <1>6, <1>7, <1>8, <1>9

(* A payment: the cap of recordDepositPayment keeps the books balanced.    *)
LEMMA RecordDepositPaymentIInv ==
    ASSUME IInv, NEW a \in Amounts, RecordDepositPayment(a)
    PROVE  IInv'
<1> USE DEF IInv
<1>1. /\ a \in Int /\ a > 0 /\ depositPaid + a <= totalAmount
      /\ depositPaid' = depositPaid + a
      /\ balanceOwing' = totalAmount - depositPaid'
      /\ totalAmount' = totalAmount
  BY AmountsAssumption DEF RecordDepositPayment
<1>2. totalAmount \in Nat \ {0} /\ depositPaid \in Nat
  BY DEF TypeOK
<1>3. PaymentBalances'
  BY <1>1, <1>2 DEF PaymentBalances
<1>4. TypeOK'
  <2>1. depositPaid' \in Nat /\ balanceOwing' \in Nat /\ totalAmount' \in Nat \ {0}
    BY <1>1, <1>2
  <2> QED BY <2>1
    DEF TypeOK, RecordDepositPayment, urgency, staff, dates, details, history
<1>5. NeverShipsUninspected' /\ InspectedInQC' /\ DeliveryIsDated'
  BY DEF RecordDepositPayment, NeverShipsUninspected, InspectedInQC,
         DeliveryIsDated, dates, history
<1> QED BY <1>3, <1>4, <1>5

(* A cancellation asks for no inspection, and finds no delivery date.      *)
LEMMA CancelIInv ==
    ASSUME IInv, NEW blank, Cancel(blank)
    PROVE  IInv'
<1> USE DEF IInv
<1>1. /\ CanBeCancelled(status) /\ status' = "cancelled"
      /\ inspected' = inspected /\ actualDeliveryDate' = actualDeliveryDate
  BY DEF Cancel, history, dates
<1>2. TypeOK'
  BY DEF TypeOK, Cancel, urgency, staff, payment, dates, details, history, Statuses
<1>3. PaymentBalances'
  BY DEF Cancel, PaymentBalances, payment
<1>4. NeverShipsUninspected' /\ InspectedInQC'
  BY <1>1 DEF NeverShipsUninspected, InspectedInQC
<1>5. actualDeliveryDate = NoDate
  BY <1>1 DEF DeliveryIsDated, CanBeCancelled, IsFinal
<1>6. DeliveryIsDated'
  BY <1>1, <1>5 DEF DeliveryIsDated
<1> QED BY <1>2, <1>3, <1>4, <1>6

(* Time only makes the delivery date older.                                *)
LEMMA TickIInv ==
    ASSUME IInv, Tick
    PROVE  IInv'
<1> USE DEF IInv
<1>1. now \in Nat /\ now' = now + 1 /\ actualDeliveryDate \in Nat \cup {NoDate}
      /\ actualDeliveryDate' = actualDeliveryDate /\ status' = status
  BY DEF Tick, TypeOK, dates
<1>2. TypeOK'
  BY <1>1 DEF TypeOK, Tick, urgency, staff, payment, dates, details, history
<1>3. PaymentBalances'
  BY DEF Tick, PaymentBalances, payment
<1>4. NeverShipsUninspected' /\ InspectedInQC'
  BY DEF Tick, NeverShipsUninspected, InspectedInQC, history
<1>5. actualDeliveryDate # NoDate => actualDeliveryDate <= now + 1
  BY <1>1 DEF DeliveryIsDated, NoDate
<1>6. DeliveryIsDated'
  BY <1>1, <1>5 DEF DeliveryIsDated
<1> QED BY <1>2, <1>3, <1>4, <1>6

(* Every step of the aggregate keeps the invariant.                        *)
THEOREM StepIInv == IInv /\ [Next]_vars => IInv'
<1> SUFFICES ASSUME IInv, [Next]_vars PROVE IInv'
  OBVIOUS
<1>0. TypeOK
  BY DEF IInv
<1> USE DEF urgency, staff, payment, dates, details, history
<1>1. ASSUME NEW id \in Ids, AssignFitter(id) PROVE IInv'
  <2>1. id \in Nat
    BY <1>1, IdsAssumption DEF AssignFitter
  <2>2. TypeOK'
    BY <1>0, <1>1, <2>1 DEF TypeOK, AssignFitter
  <2> QED BY <1>1, <2>2, UndisturbedIInv DEF AssignFitter
<1>2. ASSUME NEW id \in Ids, AssignFactory(id) PROVE IInv'
  <2>1. id \in Nat
    BY <1>2, IdsAssumption DEF AssignFactory
  <2>2. TypeOK'
    BY <1>0, <1>2, <2>1 DEF TypeOK, AssignFactory
  <2> QED BY <1>2, <2>2, UndisturbedIInv DEF AssignFactory
<1>3. ASSUME NEW s \in Statuses, ChangeStatus(s) PROVE IInv'
  BY <1>3, ChangeStatusIInv
<1>4. ASSUME NEW p \in Priorities, UpdatePriority(p) PROVE IInv'
  <2>1. isUrgent' \in BOOLEAN
    BY <1>4 DEF UpdatePriority, IsUrgentPriority
  <2>2. TypeOK'
    BY <1>0, <1>4, <2>1 DEF TypeOK, UpdatePriority
  <2> QED BY <1>4, <2>2, UndisturbedIInv DEF UpdatePriority
<1>5. ASSUME NEW a \in Amounts, RecordDepositPayment(a) PROVE IInv'
  BY <1>5, RecordDepositPaymentIInv
<1>6. ASSUME NEW m \in Measurements, UpdateMeasurements(m) PROVE IInv'
  <2>1. TypeOK'
    BY <1>0, <1>6 DEF TypeOK, UpdateMeasurements
  <2> QED BY <1>6, <2>1, UndisturbedIInv DEF UpdateMeasurements
<1>7. ASSUME NEW d \in Dates, UpdateEstimatedDeliveryDate(d) PROVE IInv'
  <2>1. d \in Nat
    BY DatesAssumption
  <2>2. TypeOK'
    BY <1>0, <1>7, <2>1 DEF TypeOK, UpdateEstimatedDeliveryDate
  <2> QED BY <1>7, <2>2, UndisturbedIInv DEF UpdateEstimatedDeliveryDate
<1>8. ASSUME NEW blank \in BOOLEAN, Cancel(blank) PROVE IInv'
  BY <1>8, CancelIInv
<1>9. ASSUME NEW n \in Names, UpdateCustomerName(n) PROVE IInv'
  <2>1. TypeOK'
    BY <1>0, <1>9 DEF TypeOK, UpdateCustomerName
  <2> QED BY <1>9, <2>1, UndisturbedIInv DEF UpdateCustomerName
<1>10. ASSUME NEW id \in Ids, UpdateSaddleId(id) PROVE IInv'
  <2>1. id \in Int
    BY IdsAssumption
  <2>2. TypeOK'
    BY <1>0, <1>10, <2>1 DEF TypeOK, UpdateSaddleId
  <2> QED BY <1>10, <2>2, UndisturbedIInv DEF UpdateSaddleId
<1>11. CASE Tick
  BY <1>11, TickIInv
<1>12. CASE UNCHANGED vars
  <2>1. TypeOK'
    BY <1>0, <1>12 DEF TypeOK, vars
  <2> QED BY <1>12, <2>1, UndisturbedIInv DEF vars
<1> QED
  BY <1>1, <1>2, <1>3, <1>4, <1>5, <1>6, <1>7, <1>8, <1>9, <1>10, <1>11, <1>12
  DEF Next

(* The inductive invariant, and with it the safety invariants the runs     *)
(* check, hold of every order.                                             *)
THEOREM Invariance == Spec => []IInv
BY InitIInv, StepIInv, PTL DEF Spec

(* Every field of an order keeps its type, amounts never go negative.      *)
THEOREM TypeCorrect == Spec => []TypeOK
BY Invariance, PTL DEF IInv

(* Deposit and balance always add up to the total, whatever the payments.  *)
THEOREM PaymentsAlwaysBalance == Spec => []PaymentBalances
BY Invariance, PTL DEF IInv

(* No order leaves the workshop without the inspection its last production *)
(* called for.                                                             *)
THEOREM UninspectedNeverShips == Spec => []NeverShipsUninspected
BY Invariance, PTL DEF IInv

(* Delivery dates are set exactly on delivery.                             *)
THEOREM DeliveriesAreDated == Spec => []DeliveryIsDated
BY Invariance, PTL DEF IInv

-----------------------------------------------------------------------------

(* A step that changes the status starts from an unfinished order, or is   *)
(* the return of a delivered one.                                          *)
LEMMA StatusSteps ==
    ASSUME TypeOK, [Next]_vars, status' # status
    PROVE  \/ \E s \in Statuses : ChangeStatus(s)
           \/ \E blank \in BOOLEAN : Cancel(blank)
BY DEF Next, vars, AssignFitter, AssignFactory, UpdatePriority,
       RecordDepositPayment, UpdateMeasurements, UpdateEstimatedDeliveryDate,
       UpdateCustomerName, UpdateSaddleId, Tick

(* One step from a finished order leaves it finished and frozen.           *)
LEMMA FrozenStep ==
    ASSUME IInv, [Next]_vars, IsFinal(status)
    PROVE  /\ IsFinal(status')
           /\ UNCHANGED <<urgency, staff, dates, measurements>>
<1> USE DEF urgency, staff, dates, details, payment, history
<1>1. ASSUME NEW s \in Statuses, ChangeStatus(s)
      PROVE  /\ IsFinal(status')
             /\ UNCHANGED <<urgency, staff, dates, measurements>>
  <2>1. status \in Statuses /\ CanTransitionTo(status, s) /\ status' = s
    BY <1>1 DEF IInv, TypeOK, ChangeStatus
  <2>2. s = "returned"
    BY <2>1, EnteringStatuses DEF IsFinal
  <2> QED BY <1>1, <2>1, <2>2 DEF ChangeStatus, IsFinal
<1>2. ASSUME NEW blank \in BOOLEAN, Cancel(blank) PROVE FALSE
  BY <1>2 DEF Cancel, CanBeCancelled
<1>3. CASE status' = status /\ ~ \E s \in Statuses : ChangeStatus(s)
  <2>1. UNCHANGED <<urgency, staff, dates, measurements>>
    BY <1>2, <1>3 DEF Next, vars, AssignFitter, AssignFactory, UpdatePriority,
       RecordDepositPayment, UpdateMeasurements, UpdateEstimatedDeliveryDate,
       UpdateCustomerName, UpdateSaddleId, Tick
  <2> QED BY <1>3, <2>1
<1>4. TypeOK
  BY DEF IInv
<1> QED BY <1>1, <1>2, <1>3, <1>4, StatusSteps

(* A finished order is frozen for good.                                    *)
THEOREM FinishedStaysFrozen == Spec => FinishedIsFrozen
<1>1. IInv /\ [Next]_vars =>
        [IsFinal(status) => IsFinal(status')
             /\ UNCHANGED <<urgency, staff, dates, measurements>>]_vars
  BY FrozenStep
<1> QED BY <1>1, Invariance, PTL DEF Spec, FinishedIsFrozen

(* Only the clock makes an order overdue.                                  *)
THEOREM OnlyTimeMakesOverdue == Spec => OverdueOnlyByTime
<1>1. ASSUME IInv, [Next]_vars, ~IsOverdue, IsOverdue'
      PROVE  now' > now
  <2>1. now \in Nat /\ status \in Statuses
    BY <1>1 DEF IInv, TypeOK
  <2>2. ~IsFinal(status)
    BY <1>1, FrozenStep DEF IsOverdue
  <2>3. estimatedDeliveryDate' # estimatedDeliveryDate \/ now' # now
    BY <1>1, <2>2 DEF IsOverdue
  <2>4. ASSUME NEW d \in Dates, UpdateEstimatedDeliveryDate(d) PROVE FALSE
    <3>1. d \in Nat /\ d > now /\ estimatedDeliveryDate' = d /\ now' = now
      BY <2>4, DatesAssumption DEF UpdateEstimatedDeliveryDate
    <3> QED BY <1>1, <2>1, <3>1 DEF IsOverdue
  <2>5. CASE Tick
    BY <2>1, <2>5 DEF Tick
  <2> QED
    BY <1>1, <2>3, <2>4, <2>5 DEF Next, vars, dates, AssignFitter,
       AssignFactory, ChangeStatus, UpdatePriority, RecordDepositPayment,
       UpdateMeasurements, Cancel, UpdateCustomerName, UpdateSaddleId
<1>2. IInv /\ [Next]_vars => [~IsOverdue /\ IsOverdue' => now' > now]_vars
  BY <1>1
<1> QED BY <1>2, Invariance, PTL DEF Spec, OverdueOnlyByTime

-----------------------------------------------------------------------------

(* A created order starts in the contract's workshop, with all of its      *)
(* total owing.                                                            *)
LEMMA ContractInit == Init => Contract!Init
BY AmountsAssumption DEF Init, Contract!Init, Stage, IsFinal

(* Every step of the aggregate is a step of the contract or a stutter.     *)
LEMMA ContractStep == IInv /\ [Next]_vars => [Contract!Next]_Contract!cvars
<1> SUFFICES ASSUME IInv, [Next]_vars PROVE [Contract!Next]_Contract!cvars
  OBVIOUS
<1>0. TypeOK /\ status \in Statuses
  BY DEF IInv, TypeOK
<1> USE DEF Contract!cvars
<1>1. ASSUME NEW s \in Statuses, ChangeStatus(s)
      PROVE  [Contract!Next]_Contract!cvars
  <2>1. CanTransitionTo(status, s) /\ status' = s /\ balanceOwing' = balanceOwing
    BY <1>1 DEF ChangeStatus, payment
  <2>2. CASE s = "shipped"
    <3>1. Stage = "workshop" /\ Stage' = "transit"
      BY <1>0, <2>1, <2>2, EnteringStatuses DEF Stage, IsFinal
    <3> QED BY <2>1, <3>1 DEF Contract!Next, Contract!Ship, Contract!Move
  <2>3. CASE s = "shipped_to_customer"
    <3>1. Stage = "transit" /\ Stage' = "transit"
      BY <1>0, <2>1, <2>3, EnteringStatuses DEF Stage, IsFinal
    <3> QED BY <2>1, <3>1
  <2>4. CASE s = "delivered"
    <3>1. Stage = "transit" /\ Stage' = "delivered"
      BY <1>0, <2>1, <2>4, EnteringStatuses DEF Stage, IsFinal
    <3> QED BY <2>1, <3>1 DEF Contract!Next, Contract!Deliver, Contract!Move
  <2>5. CASE s = "returned"
    <3>1. Stage \in {"transit", "delivered"} /\ Stage' = "returned"
      BY <1>0, <2>1, <2>5, EnteringStatuses DEF Stage, IsFinal
    <3> QED BY <2>1, <3>1 DEF Contract!Next, Contract!Return, Contract!Move
  <2>6. CASE s \notin {"shipped", "shipped_to_customer", "delivered", "returned"}
    <3>1. Stage = "workshop"
      BY <1>0, <2>1, <2>6, EnteringStatuses DEF Stage, IsFinal
    <3>2. Stage' = IF s = "cancelled" THEN "cancelled" ELSE "workshop"
      BY <2>1, <2>6 DEF Stage, IsFinal
    <3> QED BY <2>1, <3>1, <3>2 DEF Contract!Next, Contract!Cancel, Contract!Move
  <2> QED BY <2>2, <2>3, <2>4, <2>5, <2>6
<1>2. ASSUME NEW blank \in BOOLEAN, Cancel(blank)
      PROVE  [Contract!Next]_Contract!cvars
  <2>1. CanBeCancelled(status) /\ status' = "cancelled" /\ balanceOwing' = balanceOwing
    BY <1>2 DEF Cancel, payment
  <2>2. Stage \in {"workshop", "transit"} /\ Stage' = "cancelled"
    BY <2>1 DEF Stage, CanBeCancelled, IsFinal
  <2> QED BY <2>1, <2>2 DEF Contract!Next, Contract!Cancel, Contract!Move
<1>3. ASSUME NEW a \in Amounts, RecordDepositPayment(a)
      PROVE  [Contract!Next]_Contract!cvars
  <2>1. /\ a \in Int /\ a > 0 /\ depositPaid + a <= totalAmount
        /\ balanceOwing' = totalAmount - (depositPaid + a) /\ status' = status
    BY <1>3, AmountsAssumption DEF RecordDepositPayment
  <2>2. depositPaid \in Nat /\ totalAmount \in Nat /\ balanceOwing \in Nat
        /\ depositPaid + balanceOwing = totalAmount
    BY DEF IInv, TypeOK, PaymentBalances
  <2>3. balanceOwing' \in 0 .. balanceOwing - 1
    BY <2>1, <2>2
  <2>4. Stage' = Stage
    BY <2>1 DEF Stage
  <2> QED BY <2>3, <2>4 DEF Contract!Next, Contract!Pay
<1>4. CASE status' = status /\ balanceOwing' = balanceOwing
  BY <1>4 DEF Stage
<1> QED
  BY <1>1, <1>2, <1>3, <1>4 DEF Next, vars, payment, AssignFitter,
     AssignFactory, UpdatePriority, UpdateMeasurements,
     UpdateEstimatedDeliveryDate, UpdateCustomerName, UpdateSaddleId, Tick

(* The order aggregate implements its contract.                            *)
THEOREM ImplementsContract == Spec => HonoursContract
<1>1. Init => Contract!Init
  BY ContractInit
<1>2. IInv /\ [Next]_vars => [Contract!Next]_Contract!cvars
  BY ContractStep
<1> QED BY <1>1, <1>2, Invariance, PTL DEF Spec, HonoursContract, Contract!Spec

=============================================================================
