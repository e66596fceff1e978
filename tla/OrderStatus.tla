----------------------------- MODULE OrderStatus -----------------------------
(***************************************************************************)
(* The value objects OrderStatus and OrderPriority of the order domain     *)
(* model (backend/src/orders/domain/value-objects): the statuses an order  *)
(* goes through, the transition table, and the predicates the aggregate    *)
(* and the repositories ask of a status or a priority.                     *)
(***************************************************************************)

Statuses ==
    {"pending", "confirmed", "in_production", "quality_control",
     "ready_for_shipping", "shipped", "shipped_to_customer",
     "delivered", "cancelled", "returned"}

(* STATUS_TRANSITIONS: from each status, the statuses it may change to.    *)
StatusTransitions ==
    [pending             |-> {"confirmed", "cancelled"},
     confirmed           |-> {"in_production", "cancelled"},
     in_production       |-> {"quality_control", "cancelled"},
     quality_control     |-> {"ready_for_shipping", "in_production",
                              "cancelled"},
     ready_for_shipping  |-> {"shipped", "cancelled"},
     shipped             |-> {"shipped_to_customer", "delivered", "returned"},
     shipped_to_customer |-> {"delivered", "returned"},
     delivered           |-> {"returned"},
     cancelled           |-> {},
     returned            |-> {}]

(* Mutant: production may hand an order to shipping without inspection.    *)
CanSkipInspection(s, t) ==
    t \in StatusTransitions[s] \cup
          (IF s = "in_production" THEN {"ready_for_shipping"} ELSE {})

CanTransitionTo(s, t) == t \in StatusTransitions[s]

IsFinal(s) == s \in {"delivered", "cancelled", "returned"}

(* Mutant: only the shipped status itself blocks a cancellation.           *)
CanBeCancelledUnlessShipped(s) == s # "shipped"

(* What cancel() asks; it does not consult the transition table.           *)
CanBeCancelled(s) == ~IsFinal(s) /\ s # "shipped"

-----------------------------------------------------------------------------

Priorities == {"low", "normal", "high", "urgent", "critical"}

IsUrgentPriority(p) == p \in {"urgent", "critical"}

=============================================================================
