-------------------------- MODULE StatusTrailProofs --------------------------
(***************************************************************************)
(* An order whose requests do not overlap has a log that accounts for its  *)
(* number, and the context handed to the interceptor is what was replaced, *)
(* for all sets of orders, requests, texts and statuses.                   *)
(***************************************************************************)
EXTENDS StatusTrail, TLAPS

(* TypeOK in two parts: what is stored, and what the requests have.        *)
StoreOK ==
    /\ row \in [Ids -> Row]
    /\ log \in [Ids -> Seq([from : Nat, to : Nat])]
    /\ audit \subseteq [request : Requests, from : {None}, to : {None}]
    /\ overlapped \in [Ids -> BOOLEAN] /\ skipped \in [Ids -> BOOLEAN]

RequestsOK ==
    /\ pc \in [Requests -> Pcs]
    /\ target \in [Requests -> Ids]
    /\ wanted \in [Requests -> Texts \cup {None}]
    /\ previous \in [Requests -> Texts \cup {"pending", None}]
    /\ copy \in [Requests -> Row]
    /\ dirty \in [Requests -> SUBSET Columns]
    /\ old \in [Requests -> Nat] /\ new \in [Requests -> Nat]
    /\ replaced \in [Requests -> Texts \cup {"pending", None}]

LEMMA TypeParts ==
    (TypeOK <=> StoreOK /\ RequestsOK) /\ (TypeOK' <=> StoreOK' /\ RequestsOK')
BY Zenon DEF TypeOK, StoreOK, RequestsOK

LEMMA NewRowTyped == NewRow \in Row
BY DEF NewRow, Row

(* An UPDATE of some columns leaves a row, which has the entity's value in *)
(* those columns and its old value in the others.                          *)
LEMMA MergedColumns ==
    ASSUME NEW before \in Row, NEW entity \in Row, NEW columns,
           NEW after, after = Merged(Columns, before, entity, columns)
    PROVE  /\ after \in Row
           /\ \A c \in Columns :
                  after[c] = IF c \in columns THEN entity[c] ELSE before[c]
<1>1. after = [c \in Columns |-> IF c \in columns THEN entity[c] ELSE before[c]]
  BY DEF Merged
<1>2. after = [status |-> after.status, orderStatus |-> after.orderStatus]
  BY <1>1 DEF Columns
<1>3. after.status \in Texts \cup {"pending"} /\ after.orderStatus \in Nat
  BY <1>1 DEF Columns, Row
<1> QED BY <1>1, <1>2, <1>3 DEF Row

LEMMA PatchedTyped ==
    ASSUME NEW e \in Row, NEW s \in Texts \cup {None}
    PROVE  Patched(e, s) \in Row /\ Patched(e, s).orderStatus = e.orderStatus
BY DEF Patched, Row

LEMMA InitTypeOK == Init => TypeOK
<1> SUFFICES ASSUME Init PROVE TypeOK
  OBVIOUS
<1>1. StoreOK
  BY NewRowTyped DEF Init, StoreOK
<1>2. RequestsOK
  BY NewRowTyped DEF Init, RequestsOK, Pcs
<1> QED BY <1>1, <1>2, TypeParts

LEMMA EnterTyped ==
    ASSUME RequestsOK, NEW r \in Requests, NEW o \in Ids,
           NEW next \in Pcs, Enter(r, o, next)
    PROVE  pc' \in [Requests -> Pcs] /\ target' \in [Requests -> Ids]
BY DEF Enter, RequestsOK

LEMMA ArriveTypeOK ==
    ASSUME TypeOK, NEW r \in Requests, NEW o \in Ids, Arrive(r, o)
    PROVE  TypeOK'
<1>1. StoreOK /\ RequestsOK
  BY TypeParts
<1>2. StoreOK'
  BY <1>1 DEF Arrive, Peek, PatchOther, Cancel, NotFoundAtOnce, ReadStatus,
              RefuseStatus, Enter, StoreOK, storeVars
<1> SUFFICES RequestsOK'
  BY <1>2, TypeParts
<1>3. /\ row[o] \in Row /\ row[o].status \in Texts \cup {"pending"}
      /\ row[o].orderStatus \in Nat
  BY <1>1 DEF StoreOK, Row
<1>4. {"peeked", "loaded", "read", "failed"} \subseteq Pcs
  BY DEF Pcs
<1>5. ASSUME NEW s \in Texts, Peek(r, o, s) PROVE RequestsOK'
  <2>1. pc' \in [Requests -> Pcs] /\ target' \in [Requests -> Ids]
    BY <1>1, <1>4, <1>5, EnterTyped DEF Peek
  <2>2. previous' \in [Requests -> Texts \cup {"pending", None}]
    BY <1>1, <1>3, <1>5 DEF Peek, Remembered, RequestsOK
  <2> QED BY <1>1, <1>5, <2>1, <2>2 DEF Peek, RequestsOK, statusVars
<1>6. CASE PatchOther(r, o) \/ Cancel(r, o)
  <2>1. pc' \in [Requests -> Pcs] /\ target' \in [Requests -> Ids]
    BY <1>1, <1>4, <1>6, EnterTyped DEF PatchOther, Cancel
  <2>2. [row[o] EXCEPT !.status = "cancelled"] \in Row
    BY <1>3, TextsAssumption DEF Row
  <2>3. Patched(row[o], None) \in Row
    BY <1>3, PatchedTyped
  <2>4. copy' \in [Requests -> Row]
    BY <1>1, <1>6, <2>2, <2>3 DEF PatchOther, Cancel, RequestsOK
  <2> QED BY <1>1, <1>6, <2>1, <2>4 DEF PatchOther, Cancel, RequestsOK, statusVars
<1>7. CASE NotFoundAtOnce(r, o)
  <2>1. pc' \in [Requests -> Pcs] /\ target' \in [Requests -> Ids]
    BY <1>1, <1>4, <1>7, EnterTyped DEF NotFoundAtOnce
  <2> QED BY <1>1, <1>7, <2>1 DEF NotFoundAtOnce, RequestsOK, patchVars, statusVars
<1>8. ASSUME NEW n \in Names, ReadStatus(r, o, n) PROVE RequestsOK'
  <2>1. pc' \in [Requests -> Pcs] /\ target' \in [Requests -> Ids]
    BY <1>1, <1>4, <1>8, EnterTyped DEF ReadStatus
  <2>2. old' \in [Requests -> Nat] /\ new' \in [Requests -> Nat]
    BY <1>1, <1>3, <1>8, StatusAssumption DEF ReadStatus, RequestsOK
  <2> QED BY <1>1, <1>8, <2>1, <2>2 DEF ReadStatus, RequestsOK, patchVars
<1>9. ASSUME NEW n \in Names, RefuseStatus(r, o, n) PROVE RequestsOK'
  <2>1. pc' \in [Requests -> Pcs] /\ target' \in [Requests -> Ids]
    BY <1>1, <1>4, <1>9, EnterTyped DEF RefuseStatus
  <2> QED BY <1>1, <1>9, <2>1 DEF RefuseStatus, RequestsOK, patchVars, statusVars
<1> QED BY <1>5, <1>6, <1>7, <1>8, <1>9 DEF Arrive

LEMMA ProceedTypeOK ==
    ASSUME TypeOK, NEW r \in Requests, Proceed(r)
    PROVE  TypeOK'
<1>1. StoreOK /\ RequestsOK /\ target[r] \in Ids
  BY TypeParts DEF RequestsOK
<1>2. CASE PatchStatus(r)
  <2>1. Patched(row[target[r]], wanted[r]) \in Row
    BY <1>1, PatchedTyped DEF StoreOK, RequestsOK
  <2>2. RequestsOK'
    BY <1>1, <1>2, <2>1
       DEF PatchStatus, RequestsOK, Pcs, statusVars, historyVars
  <2>3. StoreOK'
    BY <1>1, <1>2 DEF PatchStatus, StoreOK, storeVars, historyVars
  <2> QED BY <2>2, <2>3, TypeParts
<1>3. CASE NotFound(r) \/ Compare(r) \/ AuditFails(r)
  <2>1. StoreOK'
    BY <1>1, <1>3
       DEF NotFound, Compare, AuditFails, StoreOK, storeVars, historyVars
  <2>2. RequestsOK'
    BY <1>1, <1>3 DEF NotFound, Compare, AuditFails, RequestsOK, Differing,
                      Pcs, patchVars, statusVars, historyVars
  <2> QED BY <2>1, <2>2, TypeParts
<1>4. CASE Commit(r)
  <2> DEFINE after == Merged(Columns, row[target[r]], copy[r], dirty[r])
  <2>1. after \in Row
    BY <1>1, MergedColumns DEF StoreOK, RequestsOK
  <2> HIDE DEF after
  <2>2. row' = [row EXCEPT ![target[r]] = after]
    BY <1>4 DEF Commit, after
  <2>3. StoreOK'
    BY <1>1, <1>4, <2>1, <2>2 DEF Commit, StoreOK
  <2>4. RequestsOK'
    <3>1. row[target[r]].status \in Texts \cup {"pending"}
      BY <1>1 DEF StoreOK, Row
    <3> QED BY <1>1, <1>4, <3>1 DEF Commit, RequestsOK, Pcs, patchVars, statusVars
  <2> QED BY <2>3, <2>4, TypeParts
<1>5. CASE UpdateStatus(r)
  <2>1. [row[target[r]] EXCEPT !.orderStatus = new[r]] \in Row
    <3>1. row[target[r]] \in Row /\ new[r] \in Nat
      BY <1>1 DEF StoreOK, RequestsOK
    <3> QED BY <3>1 DEF Row
  <2>2. StoreOK'
    BY <1>1, <1>5, <2>1 DEF UpdateStatus, StoreOK, historyVars
  <2>3. RequestsOK'
    BY <1>1, <1>5 DEF UpdateStatus, RequestsOK, Pcs, patchVars, statusVars, historyVars
  <2> QED BY <2>2, <2>3, TypeParts
<1>6. CASE LogStatus(r)
  <2>1. Entry(r) \in [from : Nat, to : Nat]
    BY <1>1 DEF Entry, RequestsOK
  <2>2. StoreOK'
    BY <1>1, <1>6, <2>1 DEF LogStatus, StoreOK, historyVars
  <2>3. RequestsOK'
    BY <1>1, <1>6 DEF LogStatus, RequestsOK, Pcs, patchVars, statusVars, historyVars
  <2> QED BY <2>2, <2>3, TypeParts
<1>7. CASE LogFails(r) \/ Fail(r)
  <2>1. StoreOK'
    BY <1>1, <1>7 DEF LogFails, Fail, StoreOK, storeVars
  <2>2. RequestsOK'
    BY <1>1, <1>7 DEF LogFails, Fail, RequestsOK, Pcs, patchVars, statusVars
  <2> QED BY <2>1, <2>2, TypeParts
<1>8. CASE Audit(r)
  <2>1. Accepts(AuditEntry(r)) =>
            AuditEntry(r) \in [request : Requests, from : {None}, to : {None}]
    BY DEF Accepts, AuditEntry
  <2>2. audit' \subseteq [request : Requests, from : {None}, to : {None}]
    BY <1>1, <1>8, <2>1 DEF Audit, StoreOK
  <2>3. StoreOK'
    BY <1>1, <1>8, <2>2 DEF Audit, StoreOK, historyVars
  <2>4. RequestsOK'
    BY <1>1, <1>8 DEF Audit, RequestsOK, Pcs, patchVars, statusVars, historyVars
  <2> QED BY <2>3, <2>4, TypeParts
<1> QED BY <1>2, <1>3, <1>4, <1>5, <1>6, <1>7, <1>8 DEF Proceed

LEMMA NextTypeOK == TypeOK /\ [Next]_vars => TypeOK'
<1> SUFFICES ASSUME TypeOK, [Next]_vars PROVE TypeOK'
  OBVIOUS
<1>1. CASE Next
  BY <1>1, ArriveTypeOK, ProceedTypeOK DEF Next
<1>2. CASE UNCHANGED vars
  BY <1>2, TypeParts DEF TypeOK, vars, storeVars, patchVars, statusVars, historyVars
<1> QED BY <1>1, <1>2

(* Each variable keeps its type: statuses stay known texts, numbers stay   *)
(* numbers, and audit_logs only ever takes entries without statuses.       *)
THEOREM TypeCorrect == Spec => []TypeOK
BY InitTypeOK, NextTypeOK, PTL DEF Spec

-----------------------------------------------------------------------------
(* The inductive invariant.                                                *)

(* An order none of whose requests overlapped has one at most.             *)
Lone(o) == ~overlapped[o] => \A r, s \in Holders(o) : r = s

Loners == \A o \in Ids : Lone(o)

(* The context of a PATCH under way is the text that its save will find.   *)
ContextOK(r) ==
    /\ pc[r] \in {"idle", "read", "updated"} => previous[r] = None
    /\ pc[r] \in {"peeked", "loaded", "saving"} /\ ~overlapped[target[r]] =>
           previous[r] \in {None, row[target[r]].status}

Contexts == (\A r \in Requests : ContextOK(r)) /\ LoneContextIsWhatWasReplaced

(* What a request alone with its order has read of it is still so.         *)
OnTrail(r) ==
    LET o == target[r] IN
    ~overlapped[o] /\ ~skipped[o] =>
        /\ pc[r] = "read" => old[r] = row[o].orderStatus
        /\ pc[r] = "updated" => /\ old[r] = Reached(o, Len(log[o]))
                               /\ new[r] = row[o].orderStatus
        /\ pc[r] \in {"loaded", "saving"} =>
               copy[r].orderStatus = row[o].orderStatus

Trails == (\A r \in Requests : OnTrail(r)) /\ LoneRequestsLeaveATrail

(* A number the log names, or that waits to be put there.                  *)
Known(o, x) ==
    \/ \E i \in 0 .. Len(log[o]) : x = Reached(o, i)
    \/ \E r \in Unlogged(o) : x = new[r]

CopyKnown(r) ==
    pc[r] \in {"loaded", "saving"} /\ ~skipped[target[r]] =>
        Known(target[r], copy[r].orderStatus)

Accounts == (\A r \in Requests : CopyKnown(r)) /\ StatusIsAccountedFor

IInv == TypeOK /\ Loners /\ Contexts /\ Trails /\ Accounts

-----------------------------------------------------------------------------
(* What a step of one request leaves alone.                                *)

Step(r) == Proceed(r) \/ \E o \in Ids : Arrive(r, o)

Apart(r) ==
    /\ \A s \in Requests \ {r} :
           /\ pc'[s] = pc[s] /\ target'[s] = target[s]
           /\ previous'[s] = previous[s] /\ replaced'[s] = replaced[s]
           /\ copy'[s] = copy[s] /\ dirty'[s] = dirty[s]
           /\ old'[s] = old[s] /\ new'[s] = new[s]
    /\ \A p \in Ids \ {target'[r]} :
           /\ row'[p] = row[p] /\ log'[p] = log[p]
           /\ overlapped'[p] = overlapped[p] /\ skipped'[p] = skipped[p]
    /\ overlapped[target'[r]] => overlapped'[target'[r]]
    /\ skipped[target'[r]] => skipped'[target'[r]]

LEMMA ArriveApart ==
    ASSUME TypeOK, NEW r \in Requests, NEW o \in Ids, Arrive(r, o)
    PROVE  /\ Apart(r)
           /\ pc[r] = "idle" /\ target'[r] = o
           /\ row' = row /\ log' = log /\ skipped' = skipped
           /\ overlapped' = [overlapped EXCEPT ![o] = @ \/ Holders(o) # {}]
<1>1. StoreOK /\ RequestsOK
  BY TypeParts
<1>2. PICK next : Enter(r, o, next)
  BY DEF Arrive, Peek, PatchOther, Cancel, NotFoundAtOnce, ReadStatus, RefuseStatus
<1>3. /\ row' = row /\ log' = log /\ skipped' = skipped
      /\ replaced' = replaced /\ dirty' = dirty
  BY DEF Arrive, Peek, PatchOther, Cancel, NotFoundAtOnce, ReadStatus,
         RefuseStatus, storeVars, patchVars
<1>4. \A s \in Requests \ {r} : previous'[s] = previous[s] /\ copy'[s] = copy[s]
  BY <1>1 DEF Arrive, Peek, PatchOther, Cancel, NotFoundAtOnce, ReadStatus,
              RefuseStatus, patchVars, Remembered, RequestsOK
<1>5. \A s \in Requests \ {r} : old'[s] = old[s] /\ new'[s] = new[s]
  BY <1>1 DEF Arrive, Peek, PatchOther, Cancel, NotFoundAtOnce, ReadStatus,
              RefuseStatus, statusVars, RequestsOK
<1>6. /\ pc[r] = "idle" /\ target'[r] = o
      /\ overlapped' = [overlapped EXCEPT ![o] = @ \/ Holders(o) # {}]
      /\ \A s \in Requests \ {r} : pc'[s] = pc[s] /\ target'[s] = target[s]
  BY <1>1, <1>2 DEF Enter, RequestsOK
<1>7. /\ \A p \in Ids \ {o} : overlapped'[p] = overlapped[p]
      /\ overlapped[o] => overlapped'[o]
  BY <1>1, <1>6 DEF StoreOK
<1> QED BY <1>3, <1>4, <1>5, <1>6, <1>7 DEF Apart

LEMMA ProceedApart ==
    ASSUME TypeOK, NEW r \in Requests, Proceed(r)
    PROVE  Apart(r) /\ target' = target /\ overlapped' = overlapped
<1>1. StoreOK /\ RequestsOK
  BY TypeParts
<1>2. target' = target /\ overlapped' = overlapped /\ previous' = previous
  BY DEF Proceed, PatchStatus, NotFound, Compare, Commit, UpdateStatus, LogStatus,
         LogFails, Audit, AuditFails, Fail, patchVars, historyVars
<1>3. \A s \in Requests \ {r} :
          /\ pc'[s] = pc[s] /\ replaced'[s] = replaced[s]
          /\ copy'[s] = copy[s] /\ dirty'[s] = dirty[s]
          /\ old'[s] = old[s] /\ new'[s] = new[s]
  BY <1>1 DEF Proceed, PatchStatus, NotFound, Compare, Commit, UpdateStatus,
              LogStatus, LogFails, Audit, AuditFails, Fail, patchVars, statusVars,
              historyVars, RequestsOK
<1>4. \A p \in Ids \ {target[r]} :
          row'[p] = row[p] /\ log'[p] = log[p] /\ skipped'[p] = skipped[p]
  BY <1>1 DEF Proceed, PatchStatus, NotFound, Compare, Commit, UpdateStatus,
              LogStatus, LogFails, Audit, AuditFails, Fail, storeVars, historyVars,
              RequestsOK, StoreOK
<1>5. skipped[target[r]] => skipped'[target[r]]
  BY <1>1 DEF Proceed, PatchStatus, NotFound, Compare, Commit, UpdateStatus,
              LogStatus, LogFails, Audit, AuditFails, Fail, historyVars,
              RequestsOK, StoreOK
<1> QED BY <1>2, <1>3, <1>4, <1>5 DEF Apart

(* A request that proceeds without being busy writes an audit entry only.  *)
LEMMA ProceedStore ==
    ASSUME TypeOK, NEW r \in Requests, Proceed(r)
    PROVE  ~Busy(r) =>
               /\ row' = row /\ log' = log /\ skipped' = skipped
               /\ pc[r] = "answered" /\ pc'[r] = "done"
               /\ previous' = previous /\ replaced' = replaced
<1>1. CASE Audit(r) \/ AuditFails(r)
  BY <1>1, TypeParts
     DEF Audit, AuditFails, storeVars, historyVars, patchVars, RequestsOK
<1>2. CASE PatchStatus(r) \/ NotFound(r) \/ Compare(r) \/ Commit(r)
  <2>1. pc[r] \in {"peeked", "loaded", "saving"}
    BY <1>2 DEF PatchStatus, NotFound, Compare, Commit
  <2> QED BY <2>1 DEF Busy
<1>3. CASE UpdateStatus(r) \/ LogStatus(r) \/ LogFails(r) \/ Fail(r)
  <2>1. pc[r] \in {"read", "updated"} \/ Busy(r)
    BY <1>3 DEF UpdateStatus, LogStatus, LogFails, Fail
  <2> QED BY <2>1 DEF Busy
<1> QED BY <1>1, <1>2, <1>3 DEF Proceed

(* Until requests overlap, the one that steps is alone with its order,     *)
(* unless it does no more than to write its audit entry.                   *)
Alone(r, o) == \A s \in Requests \ {r} : ~(Busy(s) /\ target[s] = o)

LEMMA StepAlone ==
    ASSUME TypeOK, Loners, NEW r \in Requests, Step(r), ~overlapped'[target'[r]],
           row' # row \/ log' # log \/ pc[r] # "answered"
    PROVE  Alone(r, target'[r])
<1>1. CASE Proceed(r)
  <2>1. target'[r] = target[r] /\ ~overlapped[target[r]] /\ target[r] \in Ids
    BY <1>1, ProceedApart DEF TypeOK
  <2>2. Busy(r)
    BY <1>1, ProceedStore
  <2> QED BY <2>1, <2>2 DEF Loners, Lone, Alone, Holders
<1>2. ASSUME NEW o \in Ids, Arrive(r, o) PROVE Alone(r, target'[r])
  <2>1. target'[r] = o /\ overlapped' = [overlapped EXCEPT ![o] = @ \/ Holders(o) # {}]
    BY <1>2, ArriveApart
  <2>2. Holders(o) = {}
    BY <2>1 DEF TypeOK
  <2> QED BY <2>1, <2>2 DEF Alone, Holders
<1> QED BY <1>1, <1>2 DEF Step

LEMMA StepLone ==
    ASSUME TypeOK, Loners, NEW r \in Requests, Step(r)
    PROVE  Loners'
<1> SUFFICES ASSUME NEW o \in Ids, ~overlapped'[o],
                    NEW s \in Requests, NEW u \in Requests,
                    Busy(s)', Busy(u)', target'[s] = o, target'[u] = o
             PROVE  s = u
  BY DEF Loners, Lone, Holders
<1>1. Apart(r)
  BY ArriveApart, ProceedApart DEF Step
<1>2. ~overlapped[o]
  BY <1>1 DEF Apart
<1>3. \A x \in Requests \ {r} : Busy(x)' => Busy(x) /\ target[x] = target'[x]
  BY <1>1 DEF Apart, Busy
<1>4. CASE s # r /\ u # r
  BY <1>2, <1>3, <1>4 DEF Loners, Lone, Holders
<1>5. CASE target'[r] = o /\ Busy(r)'
  <2>1. pc[r] # "answered"
    <3>1. pc[r] = "answered" => pc'[r] = "done"
      BY ArriveApart, ProceedStore DEF Step, Busy
    <3> QED BY <1>5, <3>1 DEF Busy
  <2>2. Alone(r, o)
    BY <1>5, <2>1, StepAlone
  <2> QED BY <1>3, <2>2 DEF Alone
<1> QED BY <1>4, <1>5

-----------------------------------------------------------------------------
(* The contexts.                                                           *)

ContextsBut(r) ==
    \A s \in Requests \ {r} :
        /\ ContextOK(s)'
        /\ pc'[s] \in {"answered", "done"} /\ ~overlapped'[target'[s]]
               => previous'[s] \in {None, replaced'[s]}

LEMMA OtherContexts ==
    ASSUME TypeOK, Loners, Contexts, NEW r \in Requests, Step(r)
    PROVE  ContextsBut(r)
<1> SUFFICES ASSUME NEW s \in Requests \ {r}
             PROVE  /\ ContextOK(s)'
                    /\ pc'[s] \in {"answered", "done"} /\ ~overlapped'[target'[s]]
                           => previous'[s] \in {None, replaced'[s]}
  BY DEF ContextsBut
<1>1. Apart(r)
  BY ArriveApart, ProceedApart DEF Step
<1>2. /\ pc'[s] = pc[s] /\ target'[s] = target[s] /\ target[s] \in Ids
      /\ previous'[s] = previous[s] /\ replaced'[s] = replaced[s]
      /\ overlapped[target[s]] => overlapped'[target[s]]
  BY <1>1 DEF Apart, TypeOK
<1>3. /\ ContextOK(s)
      /\ pc[s] \in {"answered", "done"} /\ ~overlapped[target[s]]
             => previous[s] \in {None, replaced[s]}
  BY DEF Contexts, LoneContextIsWhatWasReplaced
<1>4. Busy(s) /\ ~overlapped'[target[s]] => row'[target[s]] = row[target[s]]
  <2> SUFFICES ASSUME Busy(s), ~overlapped'[target[s]],
                      row'[target[s]] # row[target[s]]
               PROVE  FALSE
    OBVIOUS
  <2>1. target'[r] = target[s] /\ row' # row
    BY <1>1, <1>2 DEF Apart
  <2>2. Alone(r, target[s])
    BY <2>1, StepAlone
  <2> QED BY <2>2 DEF Alone
<1>5. ContextOK(s)'
  BY <1>2, <1>3, <1>4 DEF ContextOK, Busy
<1> QED BY <1>2, <1>3, <1>5

LEMMA StepContexts ==
    ASSUME TypeOK, Loners, Contexts, NEW r \in Requests, Step(r)
    PROVE  Contexts'
<1>1. ContextsBut(r)
  BY OtherContexts
<1> SUFFICES /\ ContextOK(r)'
             /\ pc'[r] \in {"answered", "done"} /\ ~overlapped'[target'[r]]
                    => previous'[r] \in {None, replaced'[r]}
  BY <1>1 DEF Contexts, ContextsBut, LoneContextIsWhatWasReplaced
<1>2. StoreOK /\ RequestsOK /\ target[r] \in Ids
  BY TypeParts DEF RequestsOK
<1>3. ContextOK(r)
  BY DEF Contexts
<1>4. ASSUME NEW o \in Ids, Arrive(r, o)
      PROVE  /\ ContextOK(r)'
             /\ pc'[r] \notin {"answered", "done"}
  <2>1. pc[r] = "idle" /\ target'[r] = o /\ row' = row /\ previous[r] = None
    BY <1>3, <1>4, ArriveApart DEF ContextOK
  <2>2. ASSUME NEW t \in Texts, Peek(r, o, t)
        PROVE  pc'[r] = "peeked" /\ previous'[r] \in {None, row[o].status}
    BY <1>2, <2>1, <2>2 DEF Peek, Enter, Remembered, RequestsOK
  <2>3. CASE PatchOther(r, o) \/ Cancel(r, o) \/ NotFoundAtOnce(r, o)
    <3>1. previous' = previous /\ pc'[r] \in {"loaded", "failed"}
      BY <1>2, <2>3
         DEF PatchOther, Cancel, NotFoundAtOnce, Enter, patchVars, RequestsOK
    <3> QED BY <2>1, <3>1 DEF ContextOK
  <2>4. ASSUME NEW n \in Names, ReadStatus(r, o, n) \/ RefuseStatus(r, o, n)
        PROVE  previous' = previous /\ pc'[r] \in {"read", "failed"}
    BY <1>2, <2>4 DEF ReadStatus, RefuseStatus, Enter, patchVars, RequestsOK
  <2>5. ASSUME NEW t \in Texts, Peek(r, o, t)
        PROVE  ContextOK(r)' /\ pc'[r] \notin {"answered", "done"}
    BY <2>1, <2>2, <2>5 DEF ContextOK
  <2>6. ASSUME NEW n \in Names, ReadStatus(r, o, n) \/ RefuseStatus(r, o, n)
        PROVE  ContextOK(r)' /\ pc'[r] \notin {"answered", "done"}
    BY <2>1, <2>4, <2>6 DEF ContextOK
  <2> QED BY <1>4, <2>3, <2>5, <2>6 DEF Arrive
<1>5. CASE Proceed(r)
  <2>1. /\ target'[r] = target[r] /\ overlapped' = overlapped
        /\ previous' = previous
    BY <1>5, ProceedApart DEF Proceed, PatchStatus, NotFound, Compare, Commit,
           UpdateStatus, LogStatus, LogFails, Audit, AuditFails, Fail, patchVars
  <2>2. CASE PatchStatus(r) \/ NotFound(r) \/ Compare(r) \/ LogFails(r) \/ Fail(r)
    <3>1. row' = row /\ pc'[r] \in {"loaded", "failed", "saving", "answered"}
      BY <1>2, <2>2 DEF PatchStatus, NotFound, Compare, LogFails, Fail, storeVars,
                        RequestsOK
    <3>2. pc'[r] = "answered" => pc[r] = "updated"
      BY <1>2, <2>2 DEF PatchStatus, NotFound, Compare, LogFails, Fail, RequestsOK
    <3>3. pc'[r] \in {"loaded", "saving"} => pc[r] \in {"peeked", "loaded"}
      BY <1>2, <2>2 DEF PatchStatus, NotFound, Compare, LogFails, Fail, RequestsOK
    <3> QED BY <1>3, <2>1, <3>1, <3>2, <3>3 DEF ContextOK
  <2>3. CASE Commit(r)
    <3>1. /\ pc[r] = "saving" /\ pc'[r] = "answered"
          /\ replaced'[r] = row[target[r]].status
      BY <1>2, <2>3 DEF Commit, RequestsOK
    <3> QED BY <1>3, <2>1, <3>1 DEF ContextOK
  <2>4. CASE UpdateStatus(r) \/ LogStatus(r)
    <3>1. pc[r] \in {"read", "updated"} /\ pc'[r] \in {"updated", "answered"}
      BY <1>2, <2>4 DEF UpdateStatus, LogStatus, RequestsOK
    <3> QED BY <1>3, <2>1, <3>1 DEF ContextOK
  <2>5. CASE Audit(r) \/ AuditFails(r)
    <3>1. pc[r] = "answered" /\ pc'[r] = "done" /\ replaced' = replaced
      BY <1>2, <2>5 DEF Audit, AuditFails, historyVars, RequestsOK
    <3> QED BY <2>1, <3>1 DEF ContextOK, Contexts, LoneContextIsWhatWasReplaced
  <2> QED BY <1>5, <2>2, <2>3, <2>4, <2>5 DEF Proceed
<1> QED BY <1>4, <1>5 DEF Step

-----------------------------------------------------------------------------
(* The trails.                                                             *)

LEMMA StepElsewhere ==
    ASSUME TypeOK, NEW r \in Requests, Step(r), NEW p \in Ids \ {target'[r]}
    PROVE  Unlogged(p)' = Unlogged(p) /\ r \notin Unlogged(p)
<1>1. Apart(r)
  BY ArriveApart, ProceedApart DEF Step
<1>2. Busy(r) => target'[r] = target[r]
  BY ArriveApart, ProceedApart DEF Step, Busy
<1>3. r \notin Unlogged(p) /\ r \notin Unlogged(p)'
  BY <1>2 DEF Unlogged, Holders
<1>4. \A s \in Requests \ {r} : s \in Unlogged(p)' <=> s \in Unlogged(p)
  BY <1>1 DEF Apart, Unlogged, Holders, Busy
<1>5. Unlogged(p) \subseteq Requests /\ Unlogged(p)' \subseteq Requests
  BY DEF Unlogged, Holders
<1> QED BY <1>3, <1>4, <1>5

(* The part of the trails that is about one order.                         *)
TrailOf(o) ==
    ~overlapped[o] /\ ~skipped[o] =>
        /\ Unbroken(o)
        /\ Unlogged(o) = {} => row[o].orderStatus = Reached(o, Len(log[o]))

LEMMA TrailsByOrder ==
    (LoneRequestsLeaveATrail <=> \A o \in Ids : TrailOf(o))
BY Zenon DEF LoneRequestsLeaveATrail, TrailOf

LEMMA OtherTrails ==
    ASSUME TypeOK, Loners, Trails, NEW r \in Requests, Step(r)
    PROVE  /\ \A s \in Requests \ {r} : OnTrail(s)'
           /\ \A p \in Ids \ {target'[r]} : TrailOf(p)'
<1>1. Apart(r)
  BY ArriveApart, ProceedApart DEF Step
<1>2. ASSUME NEW s \in Requests \ {r} PROVE OnTrail(s)'
  <2>1. /\ pc'[s] = pc[s] /\ target'[s] = target[s] /\ target[s] \in Ids
        /\ copy'[s] = copy[s] /\ old'[s] = old[s] /\ new'[s] = new[s]
        /\ ~overlapped'[target[s]] => ~overlapped[target[s]]
        /\ ~skipped'[target[s]] => ~skipped[target[s]]
    BY <1>1 DEF Apart, TypeOK
  <2>2. OnTrail(s)
    BY DEF Trails
  <2>3. Busy(s) /\ ~overlapped'[target[s]] =>
            row'[target[s]] = row[target[s]] /\ log'[target[s]] = log[target[s]]
    <3> SUFFICES ASSUME Busy(s), ~overlapped'[target[s]],
                        row'[target[s]] # row[target[s]] \/ log'[target[s]] # log[target[s]]
                 PROVE  FALSE
      OBVIOUS
    <3>1. target'[r] = target[s] /\ (row' # row \/ log' # log)
      BY <1>1, <2>1 DEF Apart
    <3>2. Alone(r, target[s])
      BY <3>1, StepAlone
    <3> QED BY <3>2 DEF Alone
  <2> QED BY <2>1, <2>2, <2>3 DEF OnTrail, Busy, Reached
<1>3. ASSUME NEW p \in Ids \ {target'[r]} PROVE TrailOf(p)'
  <2>1. /\ row'[p] = row[p] /\ log'[p] = log[p]
        /\ overlapped'[p] = overlapped[p] /\ skipped'[p] = skipped[p]
    BY <1>1 DEF Apart
  <2>2. Unlogged(p)' = Unlogged(p)
    BY StepElsewhere
  <2>3. TrailOf(p)
    BY TrailsByOrder DEF Trails
  <2> QED BY <2>1, <2>2, <2>3 DEF TrailOf, Unbroken, Reached
<1> QED BY <1>2, <1>3

(* An entry is added to a log: it continues the trail.                     *)
LEMMA EntryAdded ==
    ASSUME NEW o \in Ids, log[o] \in Seq([from : Nat, to : Nat]),
           NEW n \in Nat, n = Len(log[o]),
           NEW e \in [from : Nat, to : Nat], log'[o] = Append(log[o], e)
    PROVE  /\ \A i \in 0 .. n : Reached(o, i)' = Reached(o, i)
           /\ Len(log'[o]) = n + 1
           /\ Reached(o, n + 1)' = e.to
           /\ Unbroken(o) /\ e.from = Reached(o, n) => Unbroken(o)'
<1>1. /\ Len(log'[o]) = n + 1
      /\ log'[o][n + 1] = e
      /\ \A i \in 1 .. n : log'[o][i] = log[o][i]
  OBVIOUS
<1>2. \A i \in 0 .. n : Reached(o, i)' = Reached(o, i)
  BY <1>1 DEF Reached
<1>3. Reached(o, n + 1)' = e.to
  BY <1>1 DEF Reached
<1>4. ASSUME Unbroken(o), e.from = Reached(o, n) PROVE Unbroken(o)'
  <2> SUFFICES ASSUME NEW i \in 1 .. n + 1
               PROVE  log'[o][i].from = Reached(o, i - 1)'
    BY <1>1 DEF Unbroken, Reached
  <2>1. i - 1 \in 0 .. n
    BY <1>1
  <2>2. Reached(o, i - 1)' = Reached(o, i - 1)
    BY <1>2, <2>1
  <2>3. CASE i \in 1 .. n
    BY <1>1, <1>4, <2>2, <2>3 DEF Unbroken
  <2>4. CASE i = n + 1
    BY <1>1, <1>4, <2>2, <2>4
  <2> QED BY <1>1, <2>3, <2>4
<1> QED BY <1>1, <1>2, <1>3, <1>4

LEMMA ArriveTrails ==
    ASSUME TypeOK, Loners, Trails, NEW r \in Requests, NEW o \in Ids, Arrive(r, o)
    PROVE  OnTrail(r)' /\ TrailOf(o)'
<1>1. StoreOK /\ RequestsOK /\ row[o] \in Row
  BY TypeParts DEF StoreOK
<1>2. /\ pc[r] = "idle" /\ target'[r] = o /\ Apart(r)
      /\ row' = row /\ log' = log /\ skipped' = skipped
  BY ArriveApart
<1>3. TrailOf(o)'
  <2>1. TrailOf(o)
    BY TrailsByOrder DEF Trails
  <2>2. overlapped[o] => overlapped'[o]
    BY <1>2 DEF Apart
  <2>3. Unlogged(o) \subseteq Unlogged(o)'
    BY <1>2 DEF Apart, Unlogged, Holders, Busy
  <2> QED BY <1>2, <2>1, <2>2, <2>3 DEF TrailOf, Unbroken, Reached
<1> SUFFICES OnTrail(r)'
  BY <1>3
<1>4. ASSUME NEW t \in Texts, Peek(r, o, t) PROVE OnTrail(r)'
  <2>1. pc'[r] = "peeked"
    BY <1>1, <1>4 DEF Peek, Enter, RequestsOK
  <2> QED BY <2>1 DEF OnTrail
<1>5. CASE PatchOther(r, o) \/ Cancel(r, o)
  <2>1. pc'[r] = "loaded" /\ copy'[r].orderStatus = row[o].orderStatus
    <3>1. [row[o] EXCEPT !.status = "cancelled"].orderStatus = row[o].orderStatus
      BY <1>1 DEF Row
    <3>2. Patched(row[o], None).orderStatus = row[o].orderStatus
      BY <1>1, PatchedTyped
    <3>3. pc'[r] = "loaded"
      BY <1>1, <1>5 DEF PatchOther, Cancel, Enter, RequestsOK
    <3>4. copy'[r] \in {[row[o] EXCEPT !.status = "cancelled"], Patched(row[o], None)}
      BY <1>1, <1>5 DEF PatchOther, Cancel, RequestsOK
    <3> QED BY <3>1, <3>2, <3>3, <3>4
  <2> QED BY <1>2, <2>1 DEF OnTrail
<1>6. CASE NotFoundAtOnce(r, o)
  <2>1. pc'[r] = "failed"
    BY <1>1, <1>6 DEF NotFoundAtOnce, Enter, RequestsOK
  <2> QED BY <2>1 DEF OnTrail
<1>7. ASSUME NEW n \in Names, ReadStatus(r, o, n) PROVE OnTrail(r)'
  <2>1. pc'[r] = "read" /\ old'[r] = row[o].orderStatus
    BY <1>1, <1>7 DEF ReadStatus, Enter, RequestsOK
  <2> QED BY <1>2, <2>1 DEF OnTrail
<1>8. ASSUME NEW n \in Names, RefuseStatus(r, o, n) PROVE OnTrail(r)'
  <2>1. pc'[r] = "failed"
    BY <1>1, <1>8 DEF RefuseStatus, Enter, RequestsOK
  <2> QED BY <2>1 DEF OnTrail
<1> QED BY <1>4, <1>5, <1>6, <1>7, <1>8 DEF Arrive

(* A request under way whose order's requests never overlapped is the only *)
(* one that may have an entry to write.                                    *)
LEMMA LoneUnlogged ==
    ASSUME TypeOK, Loners, NEW r \in Requests, Busy(r), ~overlapped[target[r]]
    PROVE  Unlogged(target[r]) = IF pc[r] = "updated" THEN {r} ELSE {}
<1>1. target[r] \in Ids
  BY DEF TypeOK
<1>2. \A s \in Holders(target[r]) : s = r
  BY <1>1 DEF Loners, Lone, Holders
<1> QED BY <1>2 DEF Unlogged, Holders

LEMMA ProceedTrails ==
    ASSUME TypeOK, Loners, Trails, NEW r \in Requests, Proceed(r),
           NEW o \in Ids, o = target[r]
    PROVE  OnTrail(r)' /\ TrailOf(o)'
<1>o. o = target[r]
  OBVIOUS
<1>1. StoreOK /\ RequestsOK /\ o \in Ids /\ row[o] \in Row /\ copy[r] \in Row
  BY <1>o, TypeParts DEF StoreOK, RequestsOK
<1>2. /\ target'[r] = o /\ overlapped' = overlapped /\ Apart(r)
      /\ skipped[o] => skipped'[o]
  BY <1>o, <1>1, ProceedApart DEF Apart
<1>3. OnTrail(r) /\ TrailOf(o)
  BY <1>1, TrailsByOrder DEF Trails
<1>4. CASE PatchStatus(r) \/ NotFound(r) \/ Compare(r) \/ Audit(r) \/ AuditFails(r)
  <2>1. /\ row' = row /\ log' = log /\ skipped' = skipped
        /\ pc[r] # "updated" /\ pc'[r] \in {"loaded", "saving", "failed", "done"}
    BY <1>1, <1>4 DEF PatchStatus, NotFound, Compare, Audit, AuditFails, storeVars,
                      historyVars, RequestsOK
  <2>2. pc'[r] \in {"loaded", "saving"} =>
            copy'[r].orderStatus = row[o].orderStatus \/
            (pc[r] = "loaded" /\ copy'[r] = copy[r])
    <3>1. Patched(row[o], wanted[r]).orderStatus = row[o].orderStatus
      BY <1>1, PatchedTyped DEF RequestsOK
    <3> QED BY <1>o, <1>1, <1>4, <3>1
            DEF PatchStatus, NotFound, Compare, Audit, AuditFails, RequestsOK
  <2>3. OnTrail(r)'
    BY <1>o, <1>2, <1>3, <2>1, <2>2 DEF OnTrail
  <2>4. Unlogged(o)' = Unlogged(o)
    <3>1. \A s \in Requests : s \in Unlogged(o)' <=> s \in Unlogged(o)
      BY <1>2, <2>1 DEF Apart, Unlogged, Holders, Busy
    <3> QED BY <3>1 DEF Unlogged, Holders
  <2>5. TrailOf(o)'
    BY <1>2, <1>3, <2>1, <2>4 DEF TrailOf, Unbroken, Reached
  <2> QED BY <1>o, <2>3, <2>5
<1>5. CASE LogFails(r) \/ Fail(r)
  <2>1. CASE pc[r] = "updated"
    <3>1. skipped'[o] = TRUE
      BY <1>o, <1>1, <1>5, <2>1 DEF LogFails, Fail, StoreOK
    <3> QED BY <1>o, <1>2, <3>1 DEF OnTrail, TrailOf
  <2>2. CASE pc[r] # "updated"
    <3>1. /\ row' = row /\ log' = log /\ pc'[r] = "failed"
          /\ skipped'[o] = skipped[o]
      BY <1>o, <1>1, <1>5, <2>2 DEF LogFails, Fail, storeVars, RequestsOK, StoreOK
    <3>2. OnTrail(r)'
      BY <3>1 DEF OnTrail
    <3>3. Unlogged(o) \subseteq Unlogged(o)'
      BY <1>2, <2>2 DEF Apart, Unlogged, Holders, Busy
    <3>4. TrailOf(o)'
      BY <1>2, <1>3, <3>1, <3>3 DEF TrailOf, Unbroken, Reached
    <3> QED BY <1>o, <3>2, <3>4
  <2> QED BY <2>1, <2>2
<1>6. CASE Commit(r)
  <2> DEFINE after == Merged(Columns, row[o], copy[r], dirty[r])
  <2>1. /\ pc[r] = "saving" /\ pc'[r] = "answered"
        /\ row'[o] = after /\ log' = log /\ skipped' = skipped
    BY <1>o, <1>1, <1>6 DEF Commit, RequestsOK, StoreOK
  <2>2. after.orderStatus \in {copy[r].orderStatus, row[o].orderStatus}
    <3>1. "orderStatus" \in Columns
      BY DEF Columns
    <3> QED BY <1>1, <3>1, MergedColumns
  <2> HIDE DEF after
  <2>3. OnTrail(r)'
    BY <2>1 DEF OnTrail
  <2>4. Unlogged(o) \subseteq Unlogged(o)'
    BY <1>2, <2>1 DEF Apart, Unlogged, Holders, Busy
  <2>5. ~overlapped[o] /\ ~skipped[o] => row'[o].orderStatus = row[o].orderStatus
    BY <1>o, <1>3, <2>1, <2>2 DEF OnTrail
  <2>6. TrailOf(o)'
    BY <1>2, <1>3, <2>1, <2>4, <2>5 DEF TrailOf, Unbroken, Reached
  <2> QED BY <1>o, <2>3, <2>6
<1>7. CASE UpdateStatus(r)
  <2>1. /\ pc[r] = "read" /\ pc'[r] = "updated" /\ log' = log /\ skipped' = skipped
        /\ row' = [row EXCEPT ![o].orderStatus = new[r]]
        /\ old' = old /\ new' = new
    BY <1>o, <1>1, <1>7 DEF UpdateStatus, RequestsOK, statusVars, historyVars
  <2>2. row'[o].orderStatus = new[r]
    BY <1>1, <2>1 DEF StoreOK, Row
  <2>3. ~overlapped[o] => Unlogged(o) = {}
    BY <1>o, <2>1, LoneUnlogged DEF Busy
  <2>4. OnTrail(r)'
    BY <1>o, <1>2, <1>3, <2>1, <2>2, <2>3 DEF OnTrail, TrailOf, Reached
  <2>5. r \in Unlogged(o)'
    BY <1>2, <2>1 DEF Unlogged, Holders, Busy
  <2>6. TrailOf(o)'
    BY <1>2, <1>3, <2>1, <2>5 DEF TrailOf, Unbroken, Reached
  <2> QED BY <1>o, <2>4, <2>6
<1>8. CASE LogStatus(r)
  <2>1. /\ pc[r] = "updated" /\ pc'[r] = "answered" /\ row' = row
        /\ log'[o] = Append(log[o], Entry(r)) /\ skipped' = skipped
    <3>1. log' = [log EXCEPT ![o] = Append(log[o], Entry(r))]
      BY <1>o, <1>8 DEF LogStatus
    <3>2. log'[o] = Append(log[o], Entry(r))
      BY <1>1, <3>1 DEF StoreOK
    <3> QED BY <1>1, <1>8, <3>2 DEF LogStatus, RequestsOK, historyVars
  <2>2. OnTrail(r)'
    BY <2>1 DEF OnTrail
  <2>3. /\ Entry(r) \in [from : Nat, to : Nat]
        /\ Entry(r).from = old[r] /\ Entry(r).to = new[r]
    BY <1>1 DEF Entry, RequestsOK
  <2>4. log[o] \in Seq([from : Nat, to : Nat])
    BY <1>1 DEF StoreOK
  <2>n. PICK n \in Nat : n = Len(log[o])
    BY <2>4
  <2>e. PICK e \in [from : Nat, to : Nat] : /\ log'[o] = Append(log[o], e)
                                            /\ e.from = old[r] /\ e.to = new[r]
    BY <2>1, <2>3
  <2>5. /\ Len(log'[o]) = n + 1
        /\ Reached(o, n + 1)' = new[r]
        /\ Unbroken(o) /\ old[r] = Reached(o, n) => Unbroken(o)'
    <3>1. /\ Len(log'[o]) = n + 1
          /\ Reached(o, n + 1)' = e.to
          /\ Unbroken(o) /\ e.from = Reached(o, n) => Unbroken(o)'
      BY <2>e, <2>n, <2>4, EntryAdded
    <3> QED BY <2>e, <3>1
  <2>6. ~overlapped[o] /\ ~skipped[o] =>
            old[r] = Reached(o, n) /\ new[r] = row[o].orderStatus
    BY <1>o, <2>n, <1>3, <2>1 DEF OnTrail
  <2>7. ~overlapped[o] /\ ~skipped[o] =>
            Unbroken(o)' /\ row'[o].orderStatus = Reached(o, n + 1)'
    BY <1>3, <2>1, <2>5, <2>6 DEF TrailOf
  <2>8. TrailOf(o)'
    BY <1>2, <2>1, <2>5, <2>7 DEF TrailOf, Reached
  <2> QED BY <1>o, <2>2, <2>8
<1> QED BY <1>o, <1>4, <1>5, <1>6, <1>7, <1>8 DEF Proceed

LEMMA StepTrails ==
    ASSUME TypeOK, Loners, Trails, NEW r \in Requests, Step(r)
    PROVE  Trails'
<1>1. /\ \A s \in Requests \ {r} : OnTrail(s)'
      /\ \A p \in Ids \ {target'[r]} : TrailOf(p)'
  BY OtherTrails
<1>2. PICK o \in Ids : o = target'[r] /\ OnTrail(r)' /\ TrailOf(o)'
  <2>1. CASE Proceed(r)
    <3>1. target'[r] = target[r] /\ target[r] \in Ids
      BY <2>1, ProceedApart DEF TypeOK
    <3> QED BY <2>1, <3>1, ProceedTrails
  <2>2. ASSUME NEW o \in Ids, Arrive(r, o)
        PROVE  o = target'[r] /\ OnTrail(r)' /\ TrailOf(o)'
    BY <2>2, ArriveTrails, ArriveApart
  <2> QED BY <2>1, <2>2 DEF Step
<1>3. \A p \in Ids : TrailOf(p)'
  BY <1>1, <1>2
<1>4. LoneRequestsLeaveATrail'
  BY <1>3 DEF LoneRequestsLeaveATrail, TrailOf
<1> QED BY <1>1, <1>2, <1>4 DEF Trails

-----------------------------------------------------------------------------
(* The accounts.                                                           *)

(* What the log names or waits to name stays so, unless an entry is lost.  *)
LEMMA StepKnown ==
    ASSUME TypeOK, NEW r \in Requests, Step(r), NEW o \in Ids, ~skipped'[o],
           NEW x, Known(o, x)
    PROVE  Known(o, x)'
<1>1. Apart(r) /\ StoreOK /\ RequestsOK
  BY ArriveApart, ProceedApart, TypeParts DEF Step
<1>2. PICK n \in Nat : n = Len(log[o])
  BY <1>1 DEF StoreOK
<1>3. \A s \in Requests \ {r} : s \in Unlogged(o) => s \in Unlogged(o)' /\ new'[s] = new[s]
  BY <1>1 DEF Apart, Unlogged, Holders, Busy
<1>4. CASE pc[r] = "updated" /\ o = target[r]
  <2>1. CASE LogStatus(r)
    <3>1. log' = [log EXCEPT ![o] = Append(log[o], Entry(r))]
      BY <1>4, <2>1 DEF LogStatus
    <3>2. log'[o] = Append(log[o], Entry(r)) /\ log[o] \in Seq([from : Nat, to : Nat])
      BY <1>1, <3>1 DEF StoreOK
    <3>3. Entry(r) \in [from : Nat, to : Nat] /\ Entry(r).to = new[r]
      BY <1>1 DEF Entry, RequestsOK
    <3>4. /\ \A i \in 0 .. n : Reached(o, i)' = Reached(o, i)
          /\ Len(log'[o]) = n + 1 /\ Reached(o, n + 1)' = new[r]
      BY <1>2, <3>2, <3>3, EntryAdded
    <3>5. CASE \E i \in 0 .. n : x = Reached(o, i)
      <4>1. PICK i \in 0 .. n : x = Reached(o, i)'
        BY <3>4, <3>5
      <4> QED BY <3>4, <4>1 DEF Known
    <3>6. CASE \E s \in Unlogged(o) : x = new[s]
      <4>1. PICK s \in Unlogged(o) : x = new[s]
        BY <3>6
      <4>2. CASE s = r
        <5>1. n + 1 \in 0 .. n + 1
          OBVIOUS
        <5> QED BY <3>4, <4>1, <4>2, <5>1 DEF Known
      <4>3. CASE s # r
        BY <1>3, <4>1, <4>3 DEF Known, Unlogged, Holders
      <4> QED BY <4>2, <4>3
    <3> QED BY <1>2, <3>5, <3>6 DEF Known
  <2>2. CASE LogFails(r) \/ Fail(r)
    BY <1>1, <1>4, <2>2 DEF LogFails, Fail, StoreOK
  <2> QED BY <1>4, <2>1, <2>2, ArriveApart
          DEF Step, Proceed, PatchStatus, NotFound, Compare, Commit, UpdateStatus,
              Audit, AuditFails
<1>5. CASE ~(pc[r] = "updated" /\ o = target[r])
  <2>1. log'[o] = log[o]
    <3>1. CASE o = target'[r]
      <4>1. pc[r] # "updated" => log' = log
        BY ArriveApart
           DEF Step, Proceed, PatchStatus, NotFound, Compare, Commit, UpdateStatus,
               LogStatus, LogFails, Audit, AuditFails, Fail, storeVars
      <4>2. pc[r] = "updated" => target'[r] = target[r]
        BY ArriveApart, ProceedApart DEF Step
      <4> QED BY <1>5, <3>1, <4>1, <4>2
    <3> QED BY <1>1, <3>1 DEF Apart
  <2>2. r \notin Unlogged(o)
    BY <1>5 DEF Unlogged, Holders
  <2>3. CASE \E i \in 0 .. n : x = Reached(o, i)
    BY <1>2, <2>1, <2>3 DEF Known, Reached
  <2>4. CASE \E s \in Unlogged(o) : x = new[s]
    BY <1>3, <2>2, <2>4 DEF Known, Unlogged, Holders
  <2> QED BY <1>2, <2>3, <2>4 DEF Known
<1> QED BY <1>4, <1>5

LEMMA AccountsKnown ==
    StatusIsAccountedFor <=> \A o \in Ids : ~skipped[o] => Known(o, row[o].orderStatus)
BY Zenon DEF StatusIsAccountedFor, Known

(* Where the numbers of the rows come from.                                *)
LEMMA RowNumbers ==
    ASSUME TypeOK, NEW r \in Requests, Step(r), NEW o \in Ids,
           row'[o].orderStatus # row[o].orderStatus
    PROVE  \/ /\ pc[r] = "saving" /\ o = target[r]
              /\ row'[o].orderStatus = copy[r].orderStatus
           \/ r \in Unlogged(o)' /\ row'[o].orderStatus = new'[r]
<1>1. StoreOK /\ RequestsOK /\ row[o] \in Row /\ copy[r] \in Row
  BY TypeParts DEF StoreOK, RequestsOK
<1>2. CASE Commit(r)
  <2> DEFINE after == Merged(Columns, row[o], copy[r], dirty[r])
  <2>1. after.orderStatus \in {copy[r].orderStatus, row[o].orderStatus}
    <3>1. "orderStatus" \in Columns
      BY DEF Columns
    <3> QED BY <1>1, <3>1, MergedColumns
  <2>2. pc[r] = "saving" /\ o = target[r] /\ row'[o] = after
    BY <1>1, <1>2 DEF Commit, StoreOK
  <2> HIDE DEF after
  <2> QED BY <2>1, <2>2
<1>3. CASE UpdateStatus(r)
  <2>1. /\ pc'[r] = "updated" /\ target' = target /\ new' = new
        /\ row' = [row EXCEPT ![target[r]].orderStatus = new[r]]
    BY <1>1, <1>3 DEF UpdateStatus, RequestsOK, statusVars
  <2>2. o = target[r]
    BY <1>1, <2>1 DEF StoreOK
  <2>3. row'[o].orderStatus = new[r]
    BY <1>1, <2>1, <2>2 DEF StoreOK, Row
  <2> QED BY <2>1, <2>2, <2>3 DEF Unlogged, Holders, Busy
<1>4. CASE ~Commit(r) /\ ~UpdateStatus(r)
  <2>1. row' = row
    BY <1>4, ArriveApart
       DEF Step, Proceed, PatchStatus, NotFound, Compare, LogStatus, LogFails,
           Audit, AuditFails, Fail, storeVars
  <2> QED BY <2>1
<1> QED BY <1>2, <1>3, <1>4

(* Where those of the entities under way come from.                        *)
LEMMA CopyNumbers ==
    ASSUME TypeOK, NEW r \in Requests, Step(r), NEW s \in Requests,
           pc'[s] \in {"loaded", "saving"}
    PROVE  \/ /\ pc[s] \in {"loaded", "saving"} /\ target'[s] = target[s]
              /\ copy'[s] = copy[s]
           \/ copy'[s].orderStatus = row[target'[s]].orderStatus
<1>1. Apart(r) /\ StoreOK /\ RequestsOK
  BY ArriveApart, ProceedApart, TypeParts DEF Step
<1>2. CASE s # r
  BY <1>1, <1>2 DEF Apart
<1>3. CASE s = r /\ Proceed(r)
  <2>1. target'[r] = target[r] /\ target[r] \in Ids /\ row[target[r]] \in Row
    BY <1>1, <1>3, ProceedApart DEF StoreOK, RequestsOK
  <2>2. Patched(row[target[r]], wanted[r]).orderStatus = row[target[r]].orderStatus
    BY <1>1, <2>1, PatchedTyped DEF RequestsOK
  <2>3. CASE PatchStatus(r)
    BY <1>1, <1>3, <2>1, <2>2, <2>3 DEF PatchStatus, RequestsOK
  <2>4. CASE Compare(r)
    BY <1>3, <2>1, <2>4 DEF Compare
  <2>5. CASE ~PatchStatus(r) /\ ~Compare(r)
    <3>1. pc'[r] \in {"failed", "answered", "updated", "done"}
      BY <1>1, <1>3, <2>5
         DEF Proceed, NotFound, Commit, UpdateStatus, LogStatus, LogFails, Audit,
             AuditFails, Fail, RequestsOK
    <3> QED BY <1>3, <3>1
  <2> QED BY <2>3, <2>4, <2>5
<1>4. ASSUME s = r, NEW o \in Ids, Arrive(r, o)
      PROVE  copy'[s].orderStatus = row[target'[s]].orderStatus
  <2>1. target'[r] = o /\ row[o] \in Row
    BY <1>1, <1>4, ArriveApart DEF StoreOK
  <2>2. /\ [row[o] EXCEPT !.status = "cancelled"].orderStatus = row[o].orderStatus
        /\ Patched(row[o], None).orderStatus = row[o].orderStatus
    BY <2>1, PatchedTyped DEF Row
  <2>3. CASE PatchOther(r, o) \/ Cancel(r, o)
    <3>1. copy'[r] \in {[row[o] EXCEPT !.status = "cancelled"], Patched(row[o], None)}
      BY <1>1, <2>3 DEF PatchOther, Cancel, RequestsOK
    <3> QED BY <1>4, <2>1, <2>2, <3>1
  <2>4. CASE ~PatchOther(r, o) /\ ~Cancel(r, o)
    <3>1. pc'[r] \in {"peeked", "failed", "read"}
      BY <1>1, <1>4, <2>4 DEF Arrive, Peek, NotFoundAtOnce, ReadStatus, RefuseStatus,
                              Enter, RequestsOK
    <3> QED BY <1>4, <3>1
  <2> QED BY <2>3, <2>4
<1> QED BY <1>2, <1>3, <1>4 DEF Step

LEMMA StepAccounts ==
    ASSUME TypeOK, Accounts, NEW r \in Requests, Step(r)
    PROVE  Accounts'
<1>1. /\ Apart(r)
      /\ \A o \in Ids : ~skipped'[o] => ~skipped[o]
      /\ target \in [Requests -> Ids]
  BY ArriveApart, ProceedApart DEF Step, Apart, TypeOK
<1>2. \A o \in Ids : ~skipped[o] => Known(o, row[o].orderStatus)
  BY AccountsKnown DEF Accounts
<1>3. ASSUME NEW o \in Ids, ~skipped'[o], NEW x, x = row'[o].orderStatus
      PROVE  Known(o, x)'
  <2>1. CASE x = row[o].orderStatus
    BY <1>1, <1>2, <1>3, <2>1, StepKnown
  <2>2. CASE pc[r] = "saving" /\ o = target[r] /\ x = copy[r].orderStatus
    BY <1>1, <1>3, <2>2, StepKnown DEF Accounts, CopyKnown
  <2>3. CASE r \in Unlogged(o)' /\ x = new'[r]
    BY <2>3 DEF Known
  <2> QED BY <1>3, <2>1, <2>2, <2>3, RowNumbers
<1>4. StatusIsAccountedFor'
  BY <1>3 DEF StatusIsAccountedFor, Known, Unlogged, Holders, Busy, Reached
<1>5. ASSUME NEW s \in Requests, NEW o \in Ids, o = target'[s], ~skipped'[o],
             pc'[s] \in {"loaded", "saving"}, NEW x, x = copy'[s].orderStatus
      PROVE  Known(o, x)'
  <2>1. CASE pc[s] \in {"loaded", "saving"} /\ target'[s] = target[s] /\ copy'[s] = copy[s]
    BY <1>1, <1>5, <2>1, StepKnown DEF Accounts, CopyKnown
  <2>2. CASE x = row[o].orderStatus
    BY <1>1, <1>2, <1>5, <2>2, StepKnown
  <2> QED BY <1>5, <2>1, <2>2, CopyNumbers
<1>6. ASSUME NEW s \in Requests PROVE CopyKnown(s)'
  <2>1. target'[s] \in Ids
    BY NextTypeOK DEF Next, Step, TypeOK
  <2> QED BY <1>5, <2>1 DEF CopyKnown, Known, Unlogged, Holders, Busy, Reached
<1> QED BY <1>4, <1>6 DEF Accounts

-----------------------------------------------------------------------------

THEOREM InitIInv == Init => IInv
<1> SUFFICES ASSUME Init PROVE IInv
  OBVIOUS
<1>1. TypeOK
  BY InitTypeOK
<1>2. \A r \in Requests : pc[r] = "idle" /\ previous[r] = None
  BY DEF Init
<1>3. \A o \in Ids : /\ Holders(o) = {} /\ Unlogged(o) = {}
                     /\ log[o] = <<>> /\ row[o].orderStatus = 0
  BY <1>2 DEF Init, Holders, Unlogged, Busy, NewRow
<1>4. Loners
  BY <1>3 DEF Loners, Lone
<1>5. Contexts
  BY <1>2 DEF Contexts, ContextOK, LoneContextIsWhatWasReplaced
<1>6. Trails
  BY <1>2, <1>3 DEF Trails, OnTrail, LoneRequestsLeaveATrail, Unbroken, Reached
<1>7. Accounts
  BY <1>2, <1>3 DEF Accounts, CopyKnown, StatusIsAccountedFor, Reached
<1> QED BY <1>1, <1>4, <1>5, <1>6, <1>7 DEF IInv

THEOREM NextIInv == IInv /\ [Next]_vars => IInv'
<1> SUFFICES ASSUME IInv, [Next]_vars PROVE IInv'
  OBVIOUS
<1>1. TypeOK'
  BY NextTypeOK DEF IInv
<1>2. CASE Next
  <2>1. PICK r \in Requests : Step(r)
    BY <1>2 DEF Next, Step
  <2> QED BY <1>1, <2>1, StepLone, StepContexts, StepTrails, StepAccounts DEF IInv
<1>3. CASE UNCHANGED vars
  <2>1. Loners' /\ Contexts'
    BY <1>3 DEF IInv, vars, storeVars, patchVars, statusVars, historyVars, Loners,
                Lone, Holders, Busy, Contexts, ContextOK, LoneContextIsWhatWasReplaced
  <2>2. Trails'
    BY <1>3 DEF IInv, vars, storeVars, patchVars, statusVars, historyVars, Trails,
                OnTrail, LoneRequestsLeaveATrail, Unbroken, Reached, Unlogged,
                Holders, Busy
  <2>3. Accounts'
    BY <1>3 DEF IInv, vars, storeVars, patchVars, statusVars, historyVars, Accounts,
                CopyKnown, StatusIsAccountedFor, Known, Reached, Unlogged, Holders,
                Busy
  <2> QED BY <1>1, <2>1, <2>2, <2>3 DEF IInv
<1> QED BY <1>2, <1>3

(* An order whose requests never overlap has a log that accounts for its   *)
(* number, entry by entry, whatever the PATCHes save in between.           *)
THEOREM TrailsLead == Spec => []LoneRequestsLeaveATrail
<1>1. IInv => LoneRequestsLeaveATrail
  BY DEF IInv, Trails
<1> QED BY <1>1, InitIInv, NextIInv, PTL DEF Spec

(* Even overlapping requests only ever leave a number that the log names   *)
(* or that waits for its entry, unless an entry was lost.                  *)
THEOREM NumbersAreAccountedFor == Spec => []StatusIsAccountedFor
<1>1. IInv => StatusIsAccountedFor
  BY DEF IInv, Accounts
<1> QED BY <1>1, InitIInv, NextIInv, PTL DEF Spec

(* The context an interceptor finds is the text its own PATCH replaced,    *)
(* unless requests for the order overlapped.                               *)
THEOREM ContextsAreReplaced == Spec => []LoneContextIsWhatWasReplaced
<1>1. IInv => LoneContextIsWhatWasReplaced
  BY DEF IInv, Contexts
<1> QED BY <1>1, InitIInv, NextIInv, PTL DEF Spec

=============================================================================
