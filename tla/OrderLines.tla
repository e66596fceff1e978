------------------------------ MODULE OrderLines ------------------------------
(***************************************************************************)
(* The lines of an order: OrderLineService                                 *)
(* (backend/src/order-lines/order-line.service.ts) serving concurrent      *)
(* requests on the order_line table.  resequence reads all the lines of an *)
(* order and then saves them one by one in the requested order, with no    *)
(* transaction around the loop: other requests run, and the loop may stop, *)
(* between any two of its statements.                                      *)
(*                                                                         *)
(* Product, quantity, unit price and notes are left out: nothing relates   *)
(* them to another column.                                                 *)
(***************************************************************************)
EXTENDS Integers, Sequences, FiniteSets, FiniteSetsExt, TypeOrmSave

CONSTANTS
    Orders,      \* order ids
    Lines,       \* primary keys of order lines
    Requests,    \* requests, each served once
    Lists,       \* the lineIds a request to resequence may carry
    CreateDtos,  \* bodies of POST /order-lines
    UpdateDtos   \* bodies of PATCH /order-lines/:id

(* There is an order to stand where a request has none yet.                *)
ASSUME OrdersAssumption == Orders # {}

Columns == {"sequence", "totalPrice", "deleted"}

(* The DTOs as validation lets them through; -1 is an absent field.        *)
ASSUME DtoAssumption ==
    /\ \A d \in CreateDtos :
           d.orderId \in Orders /\ d.sequence \in Nat /\ d.totalPrice \in Nat
    /\ \A d \in UpdateDtos :
           d.sequence \in Nat \cup {-1} /\ d.totalPrice \in Nat \cup {-1}
    /\ \A list \in Lists : list \in Seq(Lines)

VARIABLES
    keys,        \* the primary keys in the table
    orderOf,     \* their order_id, which no handler changes after the INSERT
    row,         \* their other columns
    pc,          \* where each request is
    kind,        \* which handler serves it
    order,       \* the order it is about
    ids,         \* the lines it saves, in turn
    held,        \* the entities it found, by primary key
    at,          \* the place in ids it has reached
    dirty,       \* the columns its save found different
    newPrice,    \* the total price it sets, -1 if none
    \* history
    overlapped,  \* per order, whether two requests ever were under way at once
    crowded,     \* per request, the lines that another held with it
    asked        \* per line, price and deletion last asked for by a request
                 \* that completed

tableVars == <<keys, orderOf, row>>
requestVars == <<pc, kind, order, ids, held, at, dirty, newPrice>>
vars == <<tableVars, requestVars, overlapped, crowded, asked>>

Pcs == {"idle", "loaded", "saving", "removing", "reading", "done", "failed"}
Kinds == {"update", "remove", "resequence"}

Busy(r) == pc[r] \in {"loaded", "saving", "removing", "reading"}
Holders(o) == {r \in Requests : Busy(r) /\ order[r] = o}

(* The requests that hold a line and may still save it.                    *)
LineHolders(l) == {r \in Requests : l \in DOMAIN held[r]}

(* What stands where there is no row, no order and no entities.            *)
Blank == [sequence |-> 0, totalPrice |-> 0, deleted |-> FALSE]
NoLines == [l \in {} |-> Blank]
AnyOrder == CHOOSE o \in Orders : TRUE

Init ==
    /\ keys = {}
    /\ orderOf = [l \in Lines |-> AnyOrder]
    /\ row = [l \in Lines |-> Blank]
    /\ pc = [r \in Requests |-> "idle"]
    /\ kind = [r \in Requests |-> "update"]
    /\ order = [r \in Requests |-> AnyOrder]
    /\ ids = [r \in Requests |-> <<>>]
    /\ held = [r \in Requests |-> NoLines]
    /\ at = [r \in Requests |-> 1]
    /\ dirty = [r \in Requests |-> {}]
    /\ newPrice = [r \in Requests |-> -1]
    /\ overlapped = [o \in Orders |-> FALSE]
    /\ crowded = [r \in Requests |-> {}]
    /\ asked = [l \in Lines |-> Blank]

-----------------------------------------------------------------------------
(* Inserting.                                                              *)

(* create, a single INSERT, and bulkCreate, one transaction of INSERTs: of *)
(* keys the sequence has not given out yet, each for the order its DTO     *)
(* names.                                                                  *)
Insert(new, dtos) ==
    /\ new # {} /\ new \cap keys = {}
    /\ orderOf' = [l \in Lines |-> IF l \in new THEN dtos[l].orderId
                                   ELSE orderOf[l]]
    /\ keys' = keys \cup new
    /\ row' = [l \in Lines |->
                  IF l \in new
                  THEN [Blank EXCEPT !.sequence = dtos[l].sequence,
                                     !.totalPrice = dtos[l].totalPrice]
                  ELSE row[l]]
    /\ asked' = [l \in Lines |-> IF l \in new THEN row'[l] ELSE asked[l]]
    /\ overlapped' = [o \in Orders |->
                         \/ overlapped[o]
                         \/ Holders(o) # {} /\ \E l \in new : orderOf'[l] = o]
    /\ UNCHANGED <<requestVars, crowded>>

-----------------------------------------------------------------------------
(* Finding.                                                                *)

(* Mutant: a deleted line is found as well.                                *)
FoundDeletedToo(l) == l \in keys

(* findOne({ id }) and find leave soft-deleted rows out.                   *)
Found(l) == l \in keys /\ ~row[l].deleted

(* Mutant: the order is forgotten in the query.                            *)
LinesOfAnyOrder(o) == {l \in Lines : Found(l)}

(* find({ orderId }).                                                      *)
LinesOf(o) == {l \in Lines : Found(l) /\ orderOf[l] = o}

(* Mutant: absent fields are copied from the DTO.                          *)
UpdatedToUndefined(e, dto) ==
    [e EXCEPT !.sequence = dto.sequence, !.totalPrice = dto.totalPrice]

(* Mutant: an absent field counts as zero.                                 *)
UpdatedToZero(e, dto) ==
    [e EXCEPT !.sequence = IF dto.sequence = -1 THEN 0 ELSE dto.sequence,
              !.totalPrice = IF dto.totalPrice = -1 THEN 0 ELSE dto.totalPrice]

(* update's changes to the entity.                                         *)
Updated(e, dto) ==
    [e EXCEPT !.sequence = IF dto.sequence = -1 THEN @ ELSE dto.sequence,
              !.totalPrice = IF dto.totalPrice = -1 THEN @ ELSE dto.totalPrice]

(* The first place from i on whose id is among the lines found: the loop   *)
(* passes over the others.                                                 *)
NextPlace(list, lines, i) ==
    Min({j \in i..Len(list) : list[j] \in lines} \cup {Len(list) + 1})

(* A request has found its lines and goes on to its second statement.      *)
Load(r, k, next, o, list, entities, price) ==
    /\ pc[r] = "idle"
    /\ pc' = [pc EXCEPT ![r] = next]
    /\ kind' = [kind EXCEPT ![r] = k]
    /\ order' = [order EXCEPT ![r] = o]
    /\ ids' = [ids EXCEPT ![r] = list]
    /\ held' = [held EXCEPT ![r] = entities]
    /\ at' = [at EXCEPT ![r] = NextPlace(list, DOMAIN entities, 1)]
    /\ newPrice' = [newPrice EXCEPT ![r] = price]
    /\ overlapped' = [overlapped EXCEPT ![o] = @ \/ Holders(o) # {}]
    /\ crowded' = [q \in Requests |->
                      crowded[q] \cup
                          {l \in DOMAIN entities :
                               LineHolders(l) # {} /\ q \in LineHolders(l) \cup {r}}]
    /\ UNCHANGED <<tableVars, dirty, asked>>

StartUpdate(r, l, dto) ==
    /\ Found(l)
    /\ Load(r, "update", "loaded", orderOf[l], <<l>>,
            [k \in {l} |-> Updated(row[l], dto)], dto.totalPrice)

StartRemove(r, l) ==
    /\ Found(l)
    /\ Load(r, "remove", "removing", orderOf[l], <<l>>,
            [k \in {l} |-> row[l]], -1)

(* resequence compares the number of ids with the number of lines, and     *)
(* nothing else about them.                                                *)
StartResequence(r, o, list) ==
    LET lines == LinesOf(o) IN
    /\ Cardinality(lines) = Len(list)
    /\ Load(r, "resequence",
            IF NextPlace(list, lines, 1) > Len(list) THEN "reading" ELSE "loaded",
            o, list, [l \in lines |-> row[l]], -1)

Reject(r) ==
    /\ pc[r] = "idle"
    /\ pc' = [pc EXCEPT ![r] = "failed"]
    /\ UNCHANGED <<tableVars, kind, order, ids, held, at, dirty, newPrice,
                   overlapped, crowded, asked>>

(* "Order line not found".                                                 *)
NotFound(r, l) == ~Found(l) /\ Reject(r)

(* "Line IDs do not match existing order lines".                           *)
Mismatch(r, o, list) == Cardinality(LinesOf(o)) # Len(list) /\ Reject(r)

-----------------------------------------------------------------------------
(* Saving.                                                                 *)

(* Mutant: the place is assigned after the save.                           *)
EntityNotMoved(r) == held[r][ids[r][at[r]]]

(* The entity to save next: one of resequence's gets its place just before *)
(* its save.                                                               *)
Entity(r) ==
    LET e == held[r][ids[r][at[r]]] IN
    IF kind[r] = "resequence" THEN [e EXCEPT !.sequence = at[r] - 1] ELSE e

(* A request ends, and its entities with it.                               *)
Leave(r, end) ==
    /\ pc' = [pc EXCEPT ![r] = end]
    /\ ids' = [ids EXCEPT ![r] = <<>>]
    /\ held' = [held EXCEPT ![r] = NoLines]
    /\ at' = [at EXCEPT ![r] = 1]
    /\ dirty' = [dirty EXCEPT ![r] = {}]
    /\ newPrice' = [newPrice EXCEPT ![r] = -1]
    /\ crowded' = [crowded EXCEPT ![r] = {}]
    /\ UNCHANGED <<kind, order>>

(* save's SELECT.                                                          *)
Compare(r) ==
    /\ pc[r] = "loaded"
    /\ dirty' = [dirty EXCEPT ![r] =
                    Differing(Columns, Entity(r), row[ids[r][at[r]]])]
    /\ pc' = [pc EXCEPT ![r] = "saving"]
    /\ UNCHANGED <<tableVars, kind, order, ids, held, at, newPrice, overlapped,
                   crowded, asked>>

(* save's UPDATE; resequence goes on to its next line, and when there is   *)
(* none left reads the lines once more for its answer.                     *)
Commit(r) ==
    LET l    == ids[r][at[r]]
        next == NextPlace(ids[r], DOMAIN held[r], at[r] + 1)
    IN
    /\ pc[r] = "saving"
    /\ row' = [row EXCEPT ![l] = Merged(Columns, @, Entity(r), dirty[r])]
    /\ asked' = [asked EXCEPT ![l].totalPrice =
                    IF newPrice[r] = -1 THEN @ ELSE newPrice[r]]
    /\ \/ /\ next > Len(ids[r]) /\ kind[r] = "update"
          /\ Leave(r, "done")
       \/ /\ next <= Len(ids[r]) \/ kind[r] = "resequence"
          /\ pc' = [pc EXCEPT ![r] = IF next <= Len(ids[r]) THEN "loaded"
                                     ELSE "reading"]
          /\ at' = [at EXCEPT ![r] = next]
          /\ dirty' = [dirty EXCEPT ![r] = {}]
          /\ UNCHANGED <<kind, order, ids, held, newPrice, crowded>>
    /\ UNCHANGED <<keys, orderOf, overlapped>>

SoftDelete(r) ==
    /\ pc[r] = "removing"
    /\ row' = [row EXCEPT ![ids[r][1]].deleted = TRUE]
    /\ asked' = [asked EXCEPT ![ids[r][1]].deleted = TRUE]
    /\ Leave(r, "done")
    /\ UNCHANGED <<keys, orderOf, overlapped>>

(* findByOrderId, resequence's last statement.                             *)
Answer(r) ==
    /\ pc[r] = "reading"
    /\ Leave(r, "done")
    /\ UNCHANGED <<tableVars, overlapped, asked>>

(* A statement fails, or the process dies: the lines resequence has saved  *)
(* stay where they are.                                                    *)
Fail(r) ==
    /\ Busy(r)
    /\ Leave(r, "failed")
    /\ UNCHANGED <<tableVars, overlapped, asked>>

Next ==
    \/ \E new \in SUBSET Lines : \E dtos \in [new -> CreateDtos] : Insert(new, dtos)
    \/ \E r \in Requests, l \in Lines :
           \/ \E dto \in UpdateDtos : StartUpdate(r, l, dto)
           \/ StartRemove(r, l)
           \/ NotFound(r, l)
    \/ \E r \in Requests, o \in Orders, list \in Lists :
           StartResequence(r, o, list) \/ Mismatch(r, o, list)
    \/ \E r \in Requests :
           Compare(r) \/ Commit(r) \/ SoftDelete(r) \/ Answer(r) \/ Fail(r)

Spec == Init /\ [][Next]_vars

-----------------------------------------------------------------------------
(* What holds of the lines, whatever the interleaving.                     *)

Row == [sequence : Nat, totalPrice : Nat, deleted : BOOLEAN]

TypeOK ==
    /\ keys \subseteq Lines /\ orderOf \in [Lines -> Orders]
    /\ row \in [Lines -> Row]
    /\ pc \in [Requests -> Pcs] /\ kind \in [Requests -> Kinds]
    /\ order \in [Requests -> Orders]
    /\ ids \in [Requests -> Seq(Lines)] /\ at \in [Requests -> Nat \ {0}]
    /\ dirty \in [Requests -> SUBSET Columns]
    /\ newPrice \in [Requests -> Nat \cup {-1}]
    /\ DOMAIN held = Requests
    /\ \A r \in Requests :
           /\ at[r] <= Len(ids[r]) + 1
           /\ held[r] \in [DOMAIN held[r] -> Row] /\ DOMAIN held[r] \subseteq Lines
    /\ overlapped \in [Orders -> BOOLEAN]
    /\ crowded \in [Requests -> SUBSET Lines]
    /\ asked \in [Lines -> Row]

(* Mutant: the sum takes the deleted lines in.                             *)
OrderTotalWithDeleted(o) ==
    SumFunction([l \in {l \in keys : orderOf[l] = o} |-> row[l].totalPrice])

(* calculateOrderTotal.                                                    *)
OrderTotal(o) == SumFunction([l \in LinesOf(o) |-> row[l].totalPrice])

(* What remains of an order by what was last asked for.                    *)
AskedLines(o) == {l \in keys : orderOf[l] = o /\ ~asked[l].deleted}

(* As long as an order's requests do not overlap, its total is what was    *)
(* last asked for its remaining lines: reordering, also when it stops half *)
(* way, neither brings an old price nor a deleted line back.               *)
LoneRequestsKeepTheTotal ==
    \A o \in Orders : ~overlapped[o] =>
        OrderTotal(o) = SumFunction([l \in AskedLines(o) |-> asked[l].totalPrice])

(* The places before at[r] whose line the list does not name again.        *)
Placed(r) ==
    {j \in 1..(at[r] - 1) :
        /\ ids[r][j] \in DOMAIN held[r]
        /\ \A k \in (j + 1)..(at[r] - 1) : ids[r][k] # ids[r][j]}

(* As long as no other request on the order is under way with it,          *)
(* resequence has put every line it has passed where the list has it last, *)
(* and so, at the end, all of them.                                        *)
LoneResequencePlaces ==
    \A r \in Requests :
        Busy(r) /\ kind[r] = "resequence" /\ ~overlapped[order[r]] =>
            \A j \in Placed(r) : row[ids[r][j]].sequence = j - 1

(* A request changes lines of its own order only, the ids of other orders' *)
(* lines in a list notwithstanding.                                        *)
OtherOrdersUntouched ==
    [][\A l \in keys : row'[l] # row[l] =>
          \E r \in Requests : order[r] = orderOf[l] /\ pc'[r] # pc[r]]_vars

(* Deletion is final once the last request that read the line before it    *)
(* has ended: nothing changes the row any more, and no request gets hold   *)
(* of it again.  (One that read it before may still write its copy back.)  *)
DeletedIsGone ==
    [][\A l \in keys :
          row[l].deleted /\ LineHolders(l) = {} =>
              row'[l] = row[l] /\ LineHolders(l)' = {}]_vars

(* A request that shares a line with no other takes effect on it whole and *)
(* at once, on the row of that moment, and leaves every line it does not   *)
(* hold alone, whatever races for the order's other lines or raced for     *)
(* this one before: what AtomicLines promises.                             *)
Contended == UNION {crowded[r] : r \in Requests}

Line(l) ==
    [orderId |-> orderOf[l], sequence |-> row[l].sequence,
     totalPrice |-> row[l].totalPrice, deleted |-> row[l].deleted]

Atomic == INSTANCE AtomicLines
    WITH rows <- [l \in keys |-> Line(l)], contended <- Contended

LoneChangesAreAtomic == Atomic!Spec

(* "Line IDs do not match existing order lines": a list that resequence    *)
(* accepts names every line of the order.                                  *)
AcceptedListsMatch ==
    \A r \in Requests :
        Busy(r) /\ kind[r] = "resequence" =>
            {ids[r][j] : j \in DOMAIN ids[r]} = DOMAIN held[r]

=============================================================================
