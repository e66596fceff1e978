------------------------------ MODULE StatusTrail ------------------------------
(***************************************************************************)
(* Who knows what status an order had, and when.  A row of the orders      *)
(* table has two statuses that nothing keeps in agreement: the text column *)
(* status, which PATCH /orders/:id and its cancel set through              *)
(* OrderService, and the number order_status, which                        *)
(* PATCH /enriched_orders/update-status/:id sets with statements of its    *)
(* own.  The second writes the table log itself; for both, the             *)
(* AuditLogInterceptor writes an entry of audit_logs once the handler has  *)
(* answered, without anybody waiting for it.                               *)
(*                                                                         *)
(* Nothing spans two statements: between any two of a request, the others  *)
(* run.  Creation, deletion and the remaining columns are OrderService's.  *)
(***************************************************************************)
EXTENDS Integers, Sequences, FiniteSets, TypeOrmSave

CONSTANTS
    Ids,        \* the ids requests name
    Orders,     \* those with a row in the orders table
    Deleted,    \* those of them with a deleted_at
    Requests,   \* requests, each served once
    Texts,      \* the values of status
    Names,      \* the names given to update-status
    StatusId,   \* the table statuses: the number of each name it has
    Faulty      \* whether statements may fail and processes die

None == "none"

ASSUME OrdersAssumption  == Orders \subseteq Ids /\ Deleted \subseteq Orders
ASSUME TextsAssumption   == "cancelled" \in Texts /\ None \notin Texts
ASSUME StatusAssumption  ==
    /\ DOMAIN StatusId \subseteq Names
    /\ \A n \in DOMAIN StatusId : StatusId[n] \in Nat
ASSUME FaultyAssumption  == Faulty \in BOOLEAN

VARIABLES
    row,        \* the two columns, per id
    log,        \* the entries of the table log, per order
    audit,      \* the entries of the table audit_logs
    pc,         \* where each request is
    target,     \* the order each request is about
    wanted,     \* the text a PATCH asks for
    previous,   \* req.__auditContext.previousStatus
    copy,       \* the entity a PATCH or cancel holds
    dirty,      \* the columns its save found different
    old,        \* the number update-status has read
    new,        \* the number it is to write
    \* history
    overlapped, \* whether two requests for an order ever were under way at once
    skipped,    \* whether a number was written and no entry made of it
    replaced    \* the text that stood in the row a PATCH committed to

storeVars   == <<row, log, audit>>
patchVars   == <<wanted, previous, copy, dirty>>
statusVars  == <<old, new>>
historyVars == <<overlapped, skipped, replaced>>
vars == <<storeVars, pc, target, patchVars, statusVars, historyVars>>

-----------------------------------------------------------------------------

Columns == {"status", "orderStatus"}

Pcs == {"idle", "peeked", "loaded", "saving", "read", "updated", "answered",
        "done", "failed"}

Busy(r) == pc[r] \in {"peeked", "loaded", "saving", "read", "updated"}

Holders(o) == {r \in Requests : Busy(r) /\ target[r] = o}

(* The defaults of the two columns.                                        *)
NewRow == [status |-> "pending", orderStatus |-> 0]

Init ==
    /\ row = [o \in Ids |-> NewRow]
    /\ log = [o \in Ids |-> <<>>]
    /\ audit = {}
    /\ pc = [r \in Requests |-> "idle"]
    /\ target \in [Requests -> Ids]
    /\ wanted = [r \in Requests |-> None]
    /\ previous = [r \in Requests |-> None]
    /\ copy = [r \in Requests |-> NewRow]
    /\ dirty = [r \in Requests |-> {}]
    /\ old = [r \in Requests |-> 0]
    /\ new = [r \in Requests |-> 0]
    /\ overlapped = [o \in Ids |-> FALSE]
    /\ skipped = [o \in Ids |-> FALSE]
    /\ replaced = [r \in Requests |-> None]

Found(o) == o \in Orders \ Deleted

(* A request gets to its first await, with the pc it goes on from.         *)
Enter(r, o, next) ==
    /\ pc[r] = "idle"
    /\ pc' = [pc EXCEPT ![r] = next]
    /\ target' = [target EXCEPT ![r] = o]
    /\ overlapped' = [overlapped EXCEPT ![o] = @ \/ Holders(o) # {}]

-----------------------------------------------------------------------------
(* PATCH /orders/:id and PATCH /orders/:id/cancel.                         *)

(* Mutant: the context lives in the controller and not in the request.     *)
RememberedInController(r, s) == [x \in Requests |-> s]

(* req.__auditContext = { previousStatus }.                                *)
Remembered(r, s) == [previous EXCEPT ![r] = s]

(* The controller's own findOne, for a body with a status.  An order that  *)
(* is not found, or a statement that fails, leaves no context.             *)
Peek(r, o, s) ==
    /\ Enter(r, o, "peeked")
    /\ wanted' = [wanted EXCEPT ![r] = s]
    /\ \/ Found(o) /\ previous' = Remembered(r, row[o].status)
       \/ (~Found(o) \/ Faulty) /\ UNCHANGED previous
    /\ UNCHANGED <<storeVars, copy, dirty, statusVars, skipped, replaced>>

(* Mutant: the status is copied from the body whether it is there or not.  *)
PatchedAnyway(e, s) == [e EXCEPT !.status = s]

(* if (dto.status !== undefined) order.status = dto.status.                *)
Patched(e, s) == [e EXCEPT !.status = IF s = None THEN @ ELSE s]

(* The service's findOne and the changes to the entity.                    *)
PatchStatus(r) ==
    LET o == target[r] IN
    /\ pc[r] = "peeked"
    /\ Found(o)
    /\ pc' = [pc EXCEPT ![r] = "loaded"]
    /\ copy' = [copy EXCEPT ![r] = Patched(row[o], wanted[r])]
    /\ UNCHANGED <<storeVars, target, wanted, previous, dirty, statusVars,
                   historyVars>>

(* A body without a status changes neither column.                         *)
PatchOther(r, o) ==
    /\ Found(o)
    /\ Enter(r, o, "loaded")
    /\ copy' = [copy EXCEPT ![r] = Patched(row[o], None)]
    /\ UNCHANGED <<storeVars, wanted, previous, dirty, statusVars, skipped,
                   replaced>>

Cancel(r, o) ==
    /\ Found(o)
    /\ Enter(r, o, "loaded")
    /\ copy' = [copy EXCEPT ![r] = [row[o] EXCEPT !.status = "cancelled"]]
    /\ UNCHANGED <<storeVars, wanted, previous, dirty, statusVars, skipped,
                   replaced>>

(* "Order not found", of a PATCH with a status and of one without.         *)
NotFound(r) ==
    /\ pc[r] = "peeked"
    /\ ~Found(target[r])
    /\ pc' = [pc EXCEPT ![r] = "failed"]
    /\ UNCHANGED <<storeVars, target, patchVars, statusVars, historyVars>>

NotFoundAtOnce(r, o) ==
    /\ ~Found(o)
    /\ Enter(r, o, "failed")
    /\ UNCHANGED <<storeVars, patchVars, statusVars, skipped, replaced>>

(* save's SELECT.                                                          *)
Compare(r) ==
    /\ pc[r] = "loaded"
    /\ pc' = [pc EXCEPT ![r] = "saving"]
    /\ dirty' = [dirty EXCEPT ![r] = Differing(Columns, copy[r], row[target[r]])]
    /\ UNCHANGED <<storeVars, target, wanted, previous, copy, statusVars,
                   historyVars>>

(* save's UPDATE.                                                          *)
Commit(r) ==
    LET o == target[r] IN
    /\ pc[r] = "saving"
    /\ pc' = [pc EXCEPT ![r] = "answered"]
    /\ row' = [row EXCEPT ![o] = Merged(Columns, @, copy[r], dirty[r])]
    /\ replaced' = [replaced EXCEPT ![r] = row[o].status]
    /\ UNCHANGED <<log, audit, target, patchVars, statusVars, overlapped, skipped>>

-----------------------------------------------------------------------------
(* PATCH /enriched_orders/update-status/:id.                               *)

(* The status by its name and the row by its id, deleted or not.  The      *)
(* table statuses does not change, so the two SELECTs are one step.        *)
ReadStatus(r, o, n) ==
    /\ n \in DOMAIN StatusId
    /\ o \in Orders
    /\ Enter(r, o, "read")
    /\ old' = [old EXCEPT ![r] = row[o].orderStatus]
    /\ new' = [new EXCEPT ![r] = StatusId[n]]
    /\ UNCHANGED <<storeVars, patchVars, skipped, replaced>>

(* "Unknown status", "Order not found".                                    *)
RefuseStatus(r, o, n) ==
    /\ n \notin DOMAIN StatusId \/ o \notin Orders
    /\ Enter(r, o, "failed")
    /\ UNCHANGED <<storeVars, patchVars, statusVars, skipped, replaced>>

UpdateStatus(r) ==
    /\ pc[r] = "read"
    /\ pc' = [pc EXCEPT ![r] = "updated"]
    /\ row' = [row EXCEPT ![target[r]].orderStatus = new[r]]
    /\ UNCHANGED <<log, audit, target, patchVars, statusVars, historyVars>>

(* Mutant: the two numbers change places.                                  *)
EntrySwapped(r) == [from |-> new[r], to |-> old[r]]

(* Mutant: the old status is taken to be the first one.                    *)
EntryFromStart(r) == [from |-> 0, to |-> new[r]]

Entry(r) == [from |-> old[r], to |-> new[r]]

(* The entry is made, or its failure is only warned of.                    *)
LogStatus(r) ==
    LET o == target[r] IN
    /\ pc[r] = "updated"
    /\ pc' = [pc EXCEPT ![r] = "answered"]
    /\ log' = [log EXCEPT ![o] = Append(@, Entry(r))]
    /\ UNCHANGED <<row, audit, target, patchVars, statusVars, historyVars>>

LogFails(r) ==
    /\ Faulty
    /\ pc[r] = "updated"
    /\ pc' = [pc EXCEPT ![r] = "answered"]
    /\ skipped' = [skipped EXCEPT ![target[r]] = TRUE]
    /\ UNCHANGED <<storeVars, target, patchVars, statusVars, overlapped, replaced>>

-----------------------------------------------------------------------------
(* The interceptor, after the answer.                                      *)

(* logAuditEntry: statuses only with a context.  (The order and the user   *)
(* an entry names make no difference here.)                                *)
AuditEntry(r) ==
    [request |-> r, from |-> previous[r],
     to |-> IF previous[r] = None THEN None ELSE wanted[r]]

(* order_status_from and order_status_to are integer columns: PostgreSQL   *)
(* takes no text for them.                                                 *)
Accepts(e) == e.from = None /\ e.to = None

Audit(r) ==
    /\ pc[r] = "answered"
    /\ pc' = [pc EXCEPT ![r] = "done"]
    /\ audit' = IF Accepts(AuditEntry(r)) THEN audit \cup {AuditEntry(r)}
                ELSE audit
    /\ UNCHANGED <<row, log, target, patchVars, statusVars, historyVars>>

(* The INSERT fails, or the process dies before it.                        *)
AuditFails(r) ==
    /\ Faulty
    /\ pc[r] = "answered"
    /\ pc' = [pc EXCEPT ![r] = "done"]
    /\ UNCHANGED <<storeVars, target, patchVars, statusVars, historyVars>>

(* A statement fails and the handler throws, or the process dies.          *)
Fail(r) ==
    /\ Faulty
    /\ Busy(r)
    /\ pc' = [pc EXCEPT ![r] = "failed"]
    /\ skipped' = [skipped EXCEPT ![target[r]] = @ \/ pc[r] = "updated"]
    /\ UNCHANGED <<storeVars, target, patchVars, statusVars, overlapped, replaced>>

-----------------------------------------------------------------------------

Arrive(r, o) ==
    \/ \E s \in Texts : Peek(r, o, s)
    \/ PatchOther(r, o)
    \/ Cancel(r, o)
    \/ NotFoundAtOnce(r, o)
    \/ \E n \in Names : ReadStatus(r, o, n)
    \/ \E n \in Names : RefuseStatus(r, o, n)

Proceed(r) ==
    \/ PatchStatus(r)
    \/ NotFound(r)
    \/ Compare(r)
    \/ Commit(r)
    \/ UpdateStatus(r)
    \/ LogStatus(r)
    \/ LogFails(r)
    \/ Audit(r)
    \/ AuditFails(r)
    \/ Fail(r)

Next == \E r \in Requests : Proceed(r) \/ \E o \in Ids : Arrive(r, o)

Spec == Init /\ [][Next]_vars

-----------------------------------------------------------------------------

Row == [status : Texts \cup {"pending"}, orderStatus : Nat]

TypeOK ==
    /\ row \in [Ids -> Row]
    /\ log \in [Ids -> Seq([from : Nat, to : Nat])]
    /\ audit \subseteq [request : Requests, from : {None}, to : {None}]
    /\ pc \in [Requests -> Pcs]
    /\ target \in [Requests -> Ids]
    /\ wanted \in [Requests -> Texts \cup {None}]
    /\ previous \in [Requests -> Texts \cup {"pending", None}]
    /\ copy \in [Requests -> Row]
    /\ dirty \in [Requests -> SUBSET Columns]
    /\ old \in [Requests -> Nat] /\ new \in [Requests -> Nat]
    /\ overlapped \in [Ids -> BOOLEAN] /\ skipped \in [Ids -> BOOLEAN]
    /\ replaced \in [Requests -> Texts \cup {"pending", None}]

(* The number the first i entries of an order's log lead to.               *)
Reached(o, i) == IF i = 0 THEN 0 ELSE log[o][i].to

(* Each entry starts where the one before ended.                           *)
Unbroken(o) == \A i \in 1 .. Len(log[o]) : log[o][i].from = Reached(o, i - 1)

Unlogged(o) == {r \in Holders(o) : pc[r] = "updated"}

(* An order whose requests never overlap, and none of whose entries was    *)
(* lost, has a log that accounts for its number: the entries lead from the *)
(* first status to the present one, each starting where the one before     *)
(* ended, whatever PATCHes and cancels save in between.                    *)
LoneRequestsLeaveATrail ==
    \A o \in Ids : ~overlapped[o] /\ ~skipped[o] =>
        /\ Unbroken(o)
        /\ Unlogged(o) = {} => row[o].orderStatus = Reached(o, Len(log[o]))

(* Overlapping requests break the trail, and the save of a PATCH can bring *)
(* an older number back without an entry; but unless an entry was lost,    *)
(* the number in the row is one that the log names or that a request about *)
(* to write its entry has put there.                                       *)
StatusIsAccountedFor ==
    \A o \in Ids : ~skipped[o] =>
        \/ \E i \in 0 .. Len(log[o]) : row[o].orderStatus = Reached(o, i)
        \/ \E r \in Unlogged(o) : row[o].orderStatus = new[r]

(* The context a PATCH hands to the interceptor is the text its own save   *)
(* replaced, however late the entry is written and whoever has come since, *)
(* provided the order's requests did not overlap.                          *)
LoneContextIsWhatWasReplaced ==
    \A r \in Requests :
        pc[r] \in {"answered", "done"} /\ ~overlapped[target[r]]
            => previous[r] \in {None, replaced[r]}

(* "Critical for tracking order progression and compliance", says          *)
(* AuditLoggingService of the history of status changes: every PATCH that  *)
(* set a status and whose entry has been dealt with is in it.  (Stated for *)
(* instances that are not Faulty.)                                         *)
StatusChangesAreAudited ==
    \A r \in Requests : pc[r] = "done" /\ wanted[r] # None =>
        \E e \in audit : e.request = r

=============================================================================
