--------------------------- MODULE OrderLinesProofs ---------------------------
(***************************************************************************)
(* What the lines of an order keep under any number of concurrent          *)
(* requests, for every set of orders, lines, requests, lists and bodies.   *)
(***************************************************************************)
EXTENDS OrderLines, TLAPS, WellFoundedInduction

(* What a request holds are rows of its own order.                         *)
Owns(q) ==
    /\ DOMAIN held[q] \subseteq keys
    /\ \A l \in DOMAIN held[q] : orderOf[l] = order[q]

(* A request about to write has come to a line it holds; only resequence   *)
(* has more than one to go through.                                        *)
InList(q) ==
    /\ pc[q] # "reading" =>
           at[q] \in DOMAIN ids[q] /\ ids[q][at[q]] \in DOMAIN held[q]
    /\ kind[q] # "resequence" => Len(ids[q]) = 1
    /\ pc[q] = "removing" <=> kind[q] = "remove"
    /\ pc[q] = "reading" => kind[q] = "resequence"

(* What the request is going to have asked for: its own price where it     *)
(* sets one, what the rows hold otherwise.                                 *)
Fresh(q) ==
    \A l \in DOMAIN held[q] :
        /\ held[q][l].deleted = row[l].deleted
        /\ held[q][l].totalPrice =
               IF newPrice[q] = -1 THEN row[l].totalPrice ELSE newPrice[q]

Places(q) == \A j \in Placed(q) : row[ids[q][j]].sequence = j - 1

(* Unless its requests overlapped, nobody else holds the order, the copies *)
(* are fresh, the lines passed are in their places, and what is not dirty  *)
(* equals the row.                                                         *)
LoneHolder(q) ==
    ~overlapped[order[q]] =>
        /\ \A p \in Requests : Busy(p) /\ order[p] = order[q] => p = q
        /\ Fresh(q)
        /\ kind[q] = "resequence" => Places(q)
        /\ pc[q] = "saving" =>
               \A c \in Columns \ dirty[q] :
                   Entity(q)[c] = row[ids[q][at[q]]][c]

HoldersOK ==
    \A q \in Requests : Busy(q) => Owns(q) /\ InList(q) /\ LoneHolder(q)

(* Unless its requests overlapped, an order's lines are as asked for.      *)
RowsAsAsked ==
    \A l \in keys : ~overlapped[orderOf[l]] =>
        /\ row[l].totalPrice = asked[l].totalPrice
        /\ row[l].deleted = asked[l].deleted

IInv == TypeOK /\ RowsAsAsked /\ HoldersOK

(* A nonempty set of naturals has a least element, and Min finds it.        *)
LEMMA MinIsLeast ==
    ASSUME NEW S \in SUBSET Nat, S # {}
    PROVE  Min(S) \in S /\ \A j \in S : Min(S) <= j
<1> DEFINE Less == {ss \in Nat \X Nat : ss[1] < ss[2]}
<1>1. IsWellFoundedOn(Less, Nat)
  BY NatLessThanWellFounded, Zenon DEF OpToRel
<1>2. \E x \in S : \A y \in S : ~(<<y, x>> \in Less)
  <2>1. S \subseteq Nat
    OBVIOUS
  <2> HIDE DEF Less
  <2> QED BY <1>1, <2>1, WFMin
<1>3. PICK x \in S : \A y \in S : ~(<<y, x>> \in Less)
  BY <1>2
<1>4. \A y \in S : x <= y
  <2> SUFFICES ASSUME NEW y \in S PROVE x <= y
    OBVIOUS
  <2>1. x \in Nat /\ y \in Nat /\ <<y, x>> \notin Less
    BY <1>3
  <2> QED BY <2>1
<1> QED BY <1>3, <1>4 DEF Min

(* The loop stops at a line it holds or behind the list, and skips none.   *)
LEMMA NextPlaceFacts ==
    ASSUME NEW list \in Seq(Lines), NEW lines, NEW i \in 1..(Len(list) + 1)
    PROVE  LET p == NextPlace(list, lines, i) IN
           /\ p \in Nat /\ i <= p /\ p <= Len(list) + 1
           /\ p <= Len(list) => list[p] \in lines
           /\ \A j \in i..(p - 1) : list[j] \notin lines
<1> DEFINE n == Len(list)
           S == {j \in i..n : list[j] \in lines} \cup {n + 1}
<1>1. n \in Nat
  OBVIOUS
<1>2. S \in SUBSET Nat /\ S # {}
  BY <1>1
<1>3. Min(S) \in S /\ \A j \in S : Min(S) <= j
  BY <1>2, MinIsLeast
<1>4. NextPlace(list, lines, i) = Min(S)
  BY DEF NextPlace
<1>5. ASSUME NEW j \in i..(Min(S) - 1), list[j] \in lines PROVE FALSE
  <2>1. j \in Nat /\ j <= n /\ i <= j /\ j < Min(S)
    BY <1>1, <1>2, <1>3, <1>5
  <2>2. j \in S
    BY <1>1, <1>5, <2>1
  <2> QED BY <1>2, <1>3, <2>1, <2>2
<1> HIDE DEF n
<1>6. Min(S) \in Nat /\ i <= Min(S) /\ Min(S) <= n + 1
  BY <1>1, <1>3 DEF n
<1>7. Min(S) <= n => list[Min(S)] \in lines
  BY <1>1, <1>3
<1> QED BY <1>4, <1>5, <1>6, <1>7 DEF n

(* An UPDATE of some columns leaves a row, which has the entity's value in *)
(* those columns and its old value in the others.                          *)
LEMMA MergedColumns ==
    ASSUME NEW old \in Row, NEW entity \in Row, NEW columns,
           NEW new, new = Merged(Columns, old, entity, columns)
    PROVE  /\ new \in Row
           /\ \A c \in Columns :
                  new[c] = IF c \in columns THEN entity[c] ELSE old[c]
<1>1. new = [c \in Columns |-> IF c \in columns THEN entity[c] ELSE old[c]]
  BY DEF Merged
<1>2. Columns = {"sequence", "totalPrice", "deleted"}
  BY DEF Columns
<1>3. new = [sequence |-> new.sequence, totalPrice |-> new.totalPrice,
             deleted |-> new.deleted]
  BY <1>1, <1>2
<1>4. new.sequence \in Nat /\ new.totalPrice \in Nat
  BY <1>1, <1>2 DEF Row
<1>5. new.deleted \in BOOLEAN
  BY <1>1, <1>2 DEF Row
<1>6. [sequence |-> new.sequence, totalPrice |-> new.totalPrice,
       deleted |-> new.deleted] \in Row
  BY <1>4, <1>5 DEF Row
<1> QED BY <1>1, <1>3, <1>6

(* Neither update nor resequence touches the deletion mark; update sets    *)
(* the price it is given, resequence none.                                 *)
LEMMA UpdatedFields ==
    ASSUME NEW e \in Row, NEW dto \in UpdateDtos
    PROVE  LET u == Updated(e, dto) IN
           /\ u \in Row
           /\ u.deleted = e.deleted
           /\ u.totalPrice = IF dto.totalPrice = -1 THEN e.totalPrice
                             ELSE dto.totalPrice
<1> DEFINE s == IF dto.sequence = -1 THEN e.sequence ELSE dto.sequence
           t == IF dto.totalPrice = -1 THEN e.totalPrice ELSE dto.totalPrice
<1>1. Updated(e, dto) = [e EXCEPT !.sequence = s, !.totalPrice = t]
  BY DEF Updated
<1>2. s \in Nat /\ t \in Nat
  BY DtoAssumption DEF Row
<1> HIDE DEF s
<1> QED BY <1>1, <1>2 DEF Row

(* An empty table satisfies the invariant.                                 *)
THEOREM InitIInv == Init => IInv
<1> SUFFICES ASSUME Init PROVE IInv
  OBVIOUS
<1>1. AnyOrder \in Orders
  BY OrdersAssumption DEF AnyOrder
<1>2. Blank \in Row
  BY DEF Blank, Row
<1>3. TypeOK
  BY <1>1, <1>2 DEF Init, TypeOK, Pcs, Kinds, NoLines
<1>4. keys = {} /\ \A q \in Requests : ~Busy(q)
  BY DEF Init, Busy
<1> QED BY <1>3, <1>4 DEF IInv, RowsAsAsked, HoldersOK

(* A request that does not move.                                           *)
Stays(q) ==
    /\ pc'[q] = pc[q] /\ kind'[q] = kind[q] /\ order'[q] = order[q]
    /\ ids'[q] = ids[q] /\ held'[q] = held[q] /\ at'[q] = at[q]
    /\ dirty'[q] = dirty[q] /\ newPrice'[q] = newPrice[q]

(* What a request that does not move knows stays true, unless somebody     *)
(* writes its lines or joins it: and then the order is overlapped.         *)
LEMMA KeepHolder ==
    ASSUME TypeOK, NEW q \in Requests, Busy(q), Stays(q),
           Owns(q), InList(q), LoneHolder(q),
           keys \subseteq keys', \A l \in keys : orderOf'[l] = orderOf[l],
           ~overlapped'[order[q]] =>
               /\ ~overlapped[order[q]]
               /\ \A l \in DOMAIN held[q] : row'[l] = row[l]
               /\ \A p \in Requests : Busy(p)' /\ order'[p] = order[q] =>
                      Busy(p) /\ order[p] = order[q]
    PROVE  Owns(q)' /\ InList(q)' /\ LoneHolder(q)'
<1>1. Owns(q)'
  BY DEF Owns, Stays
<1>2. InList(q)'
  BY DEF InList, Stays
<1>3. Placed(q)' = Placed(q) /\ Entity(q)' = Entity(q)
  BY DEF Placed, Entity, Stays
<1>4. ASSUME ~overlapped'[order[q]]
      PROVE  LoneHolder(q)'
  <2>1. ~overlapped[order[q]] /\ \A l \in DOMAIN held[q] : row'[l] = row[l]
    BY <1>4
  <2>2. \A p \in Requests : Busy(p)' /\ order'[p] = order'[q] => p = q
    BY <1>4, <2>1 DEF LoneHolder, Stays
  <2>3. Fresh(q)'
    BY <2>1 DEF LoneHolder, Fresh, Stays
  <2>4. ASSUME kind'[q] = "resequence" PROVE Places(q)'
    <3>1. Places(q)
      BY <2>1, <2>4 DEF LoneHolder, Stays
    <3>2. \A j \in Placed(q) : ids[q][j] \in DOMAIN held[q]
      BY DEF Placed
    <3> QED BY <1>3, <2>1, <3>1, <3>2 DEF Places, Stays
  <2>5. ASSUME pc'[q] = "saving"
        PROVE  \A c \in Columns \ dirty'[q] :
                   Entity(q)'[c] = row'[ids'[q][at'[q]]][c]
    <3>1. ids[q][at[q]] \in DOMAIN held[q]
      BY <2>5 DEF InList, Stays
    <3> QED BY <1>3, <2>1, <2>5, <3>1 DEF LoneHolder, Stays
  <2> QED BY <2>2, <2>3, <2>4, <2>5 DEF LoneHolder
<1>5. overlapped'[order[q]] => LoneHolder(q)'
  BY DEF LoneHolder, Stays
<1> QED BY <1>1, <1>2, <1>4, <1>5

(* Whoever holds an order alone is the only one to write its lines.        *)
LEMMA WritesOwnLines ==
    ASSUME IInv, NEW r \in Requests, NEW q \in Requests, q # r, Busy(r), Busy(q),
           ~overlapped[order[q]]
    PROVE  /\ order[r] # order[q]
           /\ \A l \in DOMAIN held[r] : l \notin DOMAIN held[q]
BY DEF IInv, HoldersOK, LoneHolder, Owns

(* New lines: nobody holds them, and whoever holds another line of their   *)
(* order is no longer alone with it.                                       *)
LEMMA InsertIInv ==
    ASSUME IInv, NEW new \in SUBSET Lines, NEW dtos \in [new -> CreateDtos],
           Insert(new, dtos)
    PROVE  IInv'
<1>1. /\ new \cap keys = {} /\ keys' = keys \cup new
      /\ orderOf' = [l \in Lines |-> IF l \in new THEN dtos[l].orderId ELSE orderOf[l]]
      /\ row' = [l \in Lines |->
                    IF l \in new
                    THEN [Blank EXCEPT !.sequence = dtos[l].sequence,
                                       !.totalPrice = dtos[l].totalPrice]
                    ELSE row[l]]
      /\ asked' = [l \in Lines |-> IF l \in new THEN row'[l] ELSE asked[l]]
      /\ overlapped' = [o \in Orders |->
                           \/ overlapped[o]
                           \/ Holders(o) # {} /\ \E l \in new : orderOf'[l] = o]
      /\ UNCHANGED <<requestVars, crowded>>
  BY DEF Insert
<1>2. TypeOK
  BY DEF IInv
<1>3. \A l \in new : /\ dtos[l].orderId \in Orders
                     /\ dtos[l].sequence \in Nat /\ dtos[l].totalPrice \in Nat
  BY DtoAssumption
<1>4. \A l \in new : [Blank EXCEPT !.sequence = dtos[l].sequence,
                                   !.totalPrice = dtos[l].totalPrice] \in Row
  BY <1>3 DEF Blank, Row
<1>5. row' \in [Lines -> Row] /\ orderOf' \in [Lines -> Orders]
  BY <1>1, <1>2, <1>3, <1>4 DEF TypeOK
<1>6. asked' \in [Lines -> Row] /\ overlapped' \in [Orders -> BOOLEAN]
  <2>1. asked' \in [Lines -> Row]
    BY <1>1, <1>2, <1>5 DEF TypeOK
  <2>2. \A o \in Orders : overlapped'[o] \in BOOLEAN
    BY <1>1, <1>2, Zenon DEF TypeOK
  <2>3. overlapped' = [o \in Orders |-> overlapped'[o]]
    BY <1>1
  <2> QED BY <2>1, <2>2, <2>3
<1>7. TypeOK'
  BY <1>1, <1>2, <1>5, <1>6 DEF TypeOK, requestVars
<1>8. RowsAsAsked'
  <2> SUFFICES ASSUME NEW l \in keys', ~overlapped'[orderOf'[l]]
               PROVE  /\ row'[l].totalPrice = asked'[l].totalPrice
                      /\ row'[l].deleted = asked'[l].deleted
    BY DEF RowsAsAsked
  <2>1. CASE l \in new
    <3>1. l \in Lines /\ asked'[l] = row'[l]
      BY <1>1, <2>1
    <3> QED BY <3>1
  <2>2. CASE l \notin new
    <3>1. l \in keys /\ l \in Lines /\ orderOf'[l] = orderOf[l] /\ orderOf[l] \in Orders
      BY <1>1, <1>2, <2>2 DEF TypeOK
    <3>2. ~overlapped[orderOf[l]]
      BY <1>1, <3>1
    <3>3. row'[l] = row[l] /\ asked'[l] = asked[l]
      BY <1>1, <2>2, <3>1
    <3>4. row[l].totalPrice = asked[l].totalPrice /\ row[l].deleted = asked[l].deleted
      BY <3>1, <3>2 DEF IInv, RowsAsAsked
    <3> QED BY <3>3, <3>4
  <2> QED BY <2>1, <2>2
<1>9. HoldersOK'
  <2> SUFFICES ASSUME NEW q \in Requests, Busy(q)'
               PROVE  Owns(q)' /\ InList(q)' /\ LoneHolder(q)'
    BY DEF HoldersOK
  <2>1. Busy(q) /\ Stays(q) /\ order[q] \in Orders
    BY <1>1, <1>2 DEF requestVars, Busy, Stays, TypeOK
  <2>2. Owns(q) /\ InList(q) /\ LoneHolder(q)
    BY <2>1 DEF IInv, HoldersOK
  <2>3. \A l \in keys : l \in Lines /\ l \notin new
    BY <1>1, <1>2 DEF TypeOK
  <2>4. \A l \in keys : orderOf'[l] = orderOf[l] /\ row'[l] = row[l]
    BY <1>1, <2>3
  <2>5. ~overlapped'[order[q]] => ~overlapped[order[q]]
    BY <1>1, <2>1
  <2>6. \A p \in Requests : Busy(p)' /\ order'[p] = order[q] =>
            Busy(p) /\ order[p] = order[q]
    BY <1>1 DEF requestVars, Busy
  <2>7. \A l \in DOMAIN held[q] : row'[l] = row[l]
    BY <2>2, <2>4 DEF Owns
  <2>8. keys \subseteq keys'
    BY <1>1
  <2> QED
    BY ONLY q \in Requests, <1>2, <2>1, <2>2, <2>4, <2>5, <2>6, <2>7, <2>8, KeepHolder
<1> QED BY <1>7, <1>8, <1>9 DEF IInv

(* What the entities, places and prices update, remove and resequence      *)
(* start from have in common.                                              *)
Startable(k, next, o, list, lines, entities, price) ==
    /\ k \in Kinds /\ next \in {"loaded", "removing", "reading"} /\ o \in Orders
    /\ list \in Seq(Lines) /\ lines \subseteq keys /\ entities \in [lines -> Row]
    /\ price \in Nat \cup {-1}
    /\ \A l \in lines :
           /\ orderOf[l] = o
           /\ entities[l].deleted = row[l].deleted
           /\ entities[l].totalPrice =
                  IF price = -1 THEN row[l].totalPrice ELSE price
    /\ next # "reading" => NextPlace(list, lines, 1) <= Len(list)
    /\ k # "resequence" => Len(list) = 1
    /\ next = "removing" <=> k = "remove"
    /\ next = "reading" => k = "resequence"

(* A request gets hold of rows of its order.                               *)
LEMMA LoadIInv ==
    ASSUME IInv, NEW r \in Requests, NEW k, NEW next, NEW o, NEW list, NEW lines,
           NEW entities, NEW price,
           Startable(k, next, o, list, lines, entities, price),
           Load(r, k, next, o, list, entities, price)
    PROVE  IInv'
<1> USE DEF Startable
<1> DEFINE first == NextPlace(list, lines, 1)
<1>1. /\ pc[r] = "idle" /\ pc' = [pc EXCEPT ![r] = next]
      /\ kind' = [kind EXCEPT ![r] = k]
      /\ order' = [order EXCEPT ![r] = o]
      /\ ids' = [ids EXCEPT ![r] = list]
      /\ held' = [held EXCEPT ![r] = entities]
      /\ at' = [at EXCEPT ![r] = first]
      /\ newPrice' = [newPrice EXCEPT ![r] = price]
      /\ overlapped' = [overlapped EXCEPT ![o] = @ \/ Holders(o) # {}]
      /\ UNCHANGED <<keys, orderOf, row, dirty, asked>>
  BY DEF Load, tableVars
<1>2. TypeOK
  BY DEF IInv
<1>3. /\ first \in Nat /\ 1 <= first /\ first <= Len(list) + 1
      /\ first <= Len(list) => list[first] \in lines
      /\ \A j \in 1..(first - 1) : list[j] \notin lines
  <2>1. 1 \in 1..(Len(list) + 1)
    OBVIOUS
  <2> QED BY <2>1, NextPlaceFacts
<1> HIDE DEF first
<1>4. /\ pc'[r] = next /\ kind'[r] = k /\ order'[r] = o /\ ids'[r] = list
      /\ held'[r] = entities /\ at'[r] = first /\ newPrice'[r] = price
  BY <1>1, <1>2 DEF TypeOK
<1>5. \A q \in Requests \ {r} : Stays(q)
  BY <1>1, <1>2 DEF TypeOK, Stays
<1>6. TypeOK'
  <2>1. /\ overlapped' \in [Orders -> BOOLEAN]
        /\ crowded' \in [Requests -> SUBSET Lines]
    <3>1. overlapped' \in [Orders -> BOOLEAN]
      BY <1>1, <1>2 DEF TypeOK
    <3>2. DOMAIN entities \subseteq Lines
      BY <1>2 DEF TypeOK
    <3>3. crowded' \in [Requests -> SUBSET Lines]
      BY <1>2, <3>2 DEF Load, TypeOK
    <3> QED BY <3>1, <3>3
  <2>2. /\ pc' \in [Requests -> Pcs] /\ kind' \in [Requests -> Kinds]
        /\ order' \in [Requests -> Orders] /\ ids' \in [Requests -> Seq(Lines)]
        /\ at' \in [Requests -> Nat \ {0}] /\ newPrice' \in [Requests -> Nat \cup {-1}]
        /\ DOMAIN held' = Requests
    BY <1>1, <1>2, <1>3 DEF TypeOK, Pcs
  <2>3. ASSUME NEW q \in Requests
        PROVE  /\ at'[q] <= Len(ids'[q]) + 1
               /\ held'[q] \in [DOMAIN held'[q] -> Row] /\ DOMAIN held'[q] \subseteq Lines
    <3>1. CASE q = r
      BY <1>2, <1>3, <1>4, <3>1 DEF TypeOK
    <3>2. CASE q # r
      BY <1>2, <1>5, <3>2 DEF TypeOK, Stays
    <3> QED BY <3>1, <3>2
  <2> QED BY <1>1, <1>2, <2>1, <2>2, <2>3 DEF TypeOK
<1>7. \A p \in Orders : ~overlapped'[p] => ~overlapped[p]
  BY <1>1, <1>2 DEF TypeOK
<1>8. RowsAsAsked'
  <2>1. \A l \in keys : orderOf[l] \in Orders
    BY <1>2 DEF TypeOK
  <2> QED BY <1>1, <1>7, <2>1 DEF IInv, RowsAsAsked
<1>9. HoldersOK'
  <2> SUFFICES ASSUME NEW q \in Requests, Busy(q)'
               PROVE  Owns(q)' /\ InList(q)' /\ LoneHolder(q)'
    BY DEF HoldersOK
  <2>1. CASE q = r
    <3>1. Owns(q)'
      BY <1>1, <1>4, <2>1 DEF Owns
    <3>2. InList(q)'
      <4>1. first <= Len(list) => first \in DOMAIN list
        BY <1>3
      <4> QED BY <1>3, <1>4, <2>1, <4>1 DEF InList, first
    <3>3. ASSUME ~overlapped'[o]
          PROVE  \A p \in Requests : Busy(p)' /\ order'[p] = o => p = q
      <4>1. Holders(o) = {}
        BY <1>1, <1>2, <3>3 DEF TypeOK
      <4>2. \A p \in Requests \ {r} : ~(Busy(p)' /\ order'[p] = o)
        BY <1>5, <4>1 DEF Stays, Busy, Holders
      <4> QED BY <2>1, <4>2
    <3>4. Fresh(q)'
      BY <1>1, <1>4, <2>1 DEF Fresh
    <3>5. Places(q)'
      <4>1. \A j \in 1..(first - 1) : list[j] \notin lines
        BY <1>3
      <4>2. Placed(q)' = {}
        BY <1>4, <2>1, <4>1 DEF Placed
      <4> QED BY <4>2 DEF Places
    <3> QED BY <1>4, <2>1, <3>1, <3>2, <3>3, <3>4, <3>5 DEF LoneHolder
  <2>2. CASE q # r
    <3>1. Stays(q) /\ Busy(q) /\ order[q] \in Orders
      BY <1>2, <1>5, <2>2 DEF Stays, Busy, TypeOK
    <3>2. Owns(q) /\ InList(q) /\ LoneHolder(q)
      BY <3>1 DEF IInv, HoldersOK
    <3>3. ASSUME ~overlapped'[order[q]], NEW p \in Requests,
                 Busy(p)', order'[p] = order[q]
          PROVE  Busy(p) /\ order[p] = order[q]
      <4>1. order[q] # o
        BY <1>1, <1>2, <3>1, <3>3 DEF Holders, TypeOK
      <4>2. p # r
        BY <1>4, <3>3, <4>1
      <4> QED BY <1>5, <3>3, <4>2 DEF Stays, Busy
    <3> QED BY <1>1, <1>2, <1>7, <3>1, <3>2, <3>3, KeepHolder
  <2> QED BY <2>1, <2>2
<1> QED BY <1>6, <1>8, <1>9 DEF IInv

(* save's SELECT: what it does not find different is equal.                *)
LEMMA CompareIInv ==
    ASSUME IInv, NEW r \in Requests, Compare(r)
    PROVE  IInv'
<1> DEFINE found == Differing(Columns, Entity(r), row[ids[r][at[r]]])
<1>1. /\ pc[r] = "loaded"
      /\ dirty' = [dirty EXCEPT ![r] = found]
      /\ pc' = [pc EXCEPT ![r] = "saving"]
      /\ UNCHANGED <<keys, orderOf, row, kind, order, ids, held, at, newPrice,
                     overlapped, crowded, asked>>
  BY DEF Compare, tableVars
<1>2. TypeOK
  BY DEF IInv
<1>3. found \in SUBSET Columns
         /\ \A c \in Columns \ found : Entity(r)[c] = row[ids[r][at[r]]][c]
  BY DEF Differing
<1> HIDE DEF found
<1>4. TypeOK'
  BY <1>1, <1>2, <1>3 DEF TypeOK, Pcs
<1>5. RowsAsAsked'
  BY <1>1 DEF IInv, RowsAsAsked
<1>6. HoldersOK'
  <2> SUFFICES ASSUME NEW q \in Requests, Busy(q)'
               PROVE  Owns(q)' /\ InList(q)' /\ LoneHolder(q)'
    BY DEF HoldersOK
  <2>1. \A p \in Requests : Busy(p)' <=> Busy(p)
    BY <1>1, <1>2 DEF Busy, TypeOK
  <2>2. Busy(q) /\ Owns(q) /\ InList(q) /\ LoneHolder(q)
    BY <2>1 DEF IInv, HoldersOK
  <2>3. CASE q = r
    <3>1. pc'[q] = "saving" /\ dirty'[q] = found
      BY <1>1, <1>2, <2>3 DEF TypeOK
    <3>2. Owns(q)' /\ InList(q)'
      BY <1>1, <2>2, <2>3, <3>1 DEF Owns, InList
    <3>3. Entity(q)' = Entity(q) /\ Placed(q)' = Placed(q)
      BY <1>1 DEF Entity, Placed
    <3>4. /\ Fresh(q) => Fresh(q)'
          /\ Places(q) => Places(q)'
      BY <1>1, <3>3 DEF Fresh, Places
    <3>5. LoneHolder(q)'
      BY <1>1, <1>3, <2>1, <2>2, <2>3, <3>1, <3>3, <3>4 DEF LoneHolder
    <3> QED BY <3>2, <3>5
  <2>4. CASE q # r
    <3>1. Stays(q)
      BY <1>1, <1>2, <2>4 DEF TypeOK, Stays
    <3> QED BY <1>1, <1>2, <2>1, <2>2, <3>1, KeepHolder
  <2> QED BY <2>3, <2>4
<1> QED BY <1>4, <1>5, <1>6 DEF IInv

(* What a request that holds lines does to them leaves the others' truths. *)
LEMMA OthersKeep ==
    ASSUME IInv, NEW r \in Requests, \A q \in Requests \ {r} : Stays(q),
           UNCHANGED <<keys, orderOf, overlapped>>, order'[r] = order[r],
           Busy(r)' => Busy(r),
           \A l \in keys : row'[l] = row[l] \/ (Busy(r) /\ l \in DOMAIN held[r]),
           NEW q \in Requests \ {r}, Busy(q)'
    PROVE  Owns(q)' /\ InList(q)' /\ LoneHolder(q)'
<1>1. TypeOK
  BY DEF IInv
<1>2. Stays(q) /\ Busy(q)
  BY DEF Stays, Busy
<1>3. Owns(q) /\ InList(q) /\ LoneHolder(q)
  BY <1>2 DEF IInv, HoldersOK
<1>4. \A p \in Requests : Busy(p)' /\ order'[p] = order[q] =>
          Busy(p) /\ order[p] = order[q]
  <2> SUFFICES ASSUME NEW p \in Requests, Busy(p)', order'[p] = order[q]
               PROVE  Busy(p) /\ order[p] = order[q]
    OBVIOUS
  <2>1. CASE p = r
    BY <2>1
  <2>2. CASE p # r
    BY <2>2 DEF Stays, Busy
  <2> QED BY <2>1, <2>2
<1>5. ASSUME ~overlapped[order[q]], NEW l \in DOMAIN held[q]
      PROVE  row'[l] = row[l]
  <2>1. l \in keys
    BY <1>3 DEF Owns
  <2>2. Busy(r) => l \notin DOMAIN held[r]
    BY <1>2, <1>5, WritesOwnLines
  <2> QED BY <2>1, <2>2
<1> QED BY <1>1, <1>2, <1>3, <1>4, <1>5, KeepHolder

(* What is left of a request that has ended.                               *)
LEMMA LeaveFacts ==
    ASSUME TypeOK, NEW r \in Requests, NEW end \in {"done", "failed"}, Leave(r, end)
    PROVE  /\ ~Busy(r)' /\ order'[r] = order[r]
           /\ \A q \in Requests \ {r} : Stays(q)
           /\ keys' \subseteq Lines /\ orderOf' \in [Lines -> Orders]
              /\ row' \in [Lines -> Row] /\ overlapped' \in [Orders -> BOOLEAN]
              /\ asked' \in [Lines -> Row] => TypeOK'
<1>1. pc'[r] = end /\ UNCHANGED <<kind, order>>
  BY DEF Leave, TypeOK
<1>2. ASSUME NEW q \in Requests \ {r} PROVE Stays(q)
  BY DEF Leave, TypeOK, Stays
<1>3. /\ pc' \in [Requests -> Pcs] /\ ids' \in [Requests -> Seq(Lines)]
      /\ at' \in [Requests -> Nat \ {0}] /\ dirty' \in [Requests -> SUBSET Columns]
      /\ newPrice' \in [Requests -> Nat \cup {-1}] /\ DOMAIN held' = Requests
      /\ crowded' \in [Requests -> SUBSET Lines]
  BY DEF Leave, TypeOK, Pcs
<1>4. ASSUME NEW q \in Requests
      PROVE  /\ at'[q] <= Len(ids'[q]) + 1
             /\ held'[q] \in [DOMAIN held'[q] -> Row] /\ DOMAIN held'[q] \subseteq Lines
  <2>1. CASE q = r
    BY <2>1 DEF Leave, TypeOK, NoLines
  <2>2. CASE q # r
    BY <1>2, <2>2 DEF TypeOK, Stays
  <2> QED BY <2>1, <2>2
<1> QED BY <1>1, <1>2, <1>3, <1>4 DEF TypeOK, Busy

(* save's UPDATE: a request alone with the order writes its own copy, and  *)
(* the line it goes on from stands in its place.                           *)
LEMMA CommitIInv ==
    ASSUME IInv, NEW r \in Requests, Commit(r)
    PROVE  IInv'
<1> DEFINE l    == ids[r][at[r]]
           next == NextPlace(ids[r], DOMAIN held[r], at[r] + 1)
           new  == Merged(Columns, row[l], Entity(r), dirty[r])
           goesOn ==
               /\ next <= Len(ids[r]) \/ kind[r] = "resequence"
               /\ pc' = [pc EXCEPT ![r] = IF next <= Len(ids[r]) THEN "loaded"
                                          ELSE "reading"]
               /\ at' = [at EXCEPT ![r] = next]
               /\ dirty' = [dirty EXCEPT ![r] = {}]
               /\ UNCHANGED <<kind, order, ids, held, newPrice, crowded>>
<1>1. /\ pc[r] = "saving"
      /\ row' = [row EXCEPT ![l] = new]
      /\ asked' = [asked EXCEPT ![l].totalPrice =
                      IF newPrice[r] = -1 THEN @ ELSE newPrice[r]]
      /\ Leave(r, "done") \/ goesOn
      /\ UNCHANGED <<keys, orderOf, overlapped>>
  BY DEF Commit
<1>2. TypeOK
  BY DEF IInv
<1>3. Busy(r) /\ Owns(r) /\ InList(r) /\ LoneHolder(r)
  BY <1>1 DEF Busy, IInv, HoldersOK
<1>4. /\ at[r] \in Nat \ {0} /\ at[r] <= Len(ids[r]) /\ ids[r] \in Seq(Lines)
      /\ l \in DOMAIN held[r] /\ l \in keys /\ l \in Lines
      /\ held[r][l] \in Row /\ row[l] \in Row /\ kind[r] # "remove"
      /\ orderOf[l] = order[r]
  BY <1>1, <1>2, <1>3 DEF TypeOK, InList, Owns
<1>5. /\ next \in Nat /\ at[r] + 1 <= next /\ next <= Len(ids[r]) + 1
      /\ next <= Len(ids[r]) => ids[r][next] \in DOMAIN held[r]
      /\ \A j \in (at[r] + 1)..(next - 1) : ids[r][j] \notin DOMAIN held[r]
  <2>1. at[r] + 1 \in 1..(Len(ids[r]) + 1)
    BY <1>4
  <2> QED BY <1>4, <2>1, NextPlaceFacts
<1> HIDE DEF next
<1>6. /\ Entity(r) \in Row /\ Entity(r).totalPrice = held[r][l].totalPrice
      /\ Entity(r).deleted = held[r][l].deleted
      /\ kind[r] = "resequence" => Entity(r).sequence = at[r] - 1
  BY <1>4 DEF Entity, Row
<1>7. new \in Row /\ \A c \in Columns :
          new[c] = IF c \in dirty[r] THEN Entity(r)[c] ELSE row[l][c]
  <2>1. new = Merged(Columns, row[l], Entity(r), dirty[r])
    OBVIOUS
  <2>2. row[l] \in Row /\ Entity(r) \in Row
    BY <1>4, <1>6
  <2> HIDE DEF new, l
  <2> QED BY ONLY <2>1, <2>2, MergedColumns
<1> HIDE DEF new
<1>8. ~overlapped[order[r]] => \A c \in Columns : new[c] = Entity(r)[c]
  BY <1>1, <1>3, <1>7 DEF LoneHolder
<1>9. ~overlapped[order[r]] =>
          /\ new.totalPrice = held[r][l].totalPrice
          /\ new.deleted = held[r][l].deleted
          /\ kind[r] = "resequence" => new.sequence = at[r] - 1
  BY <1>6, <1>8 DEF Columns
<1> HIDE DEF l
<1>10. /\ row' \in [Lines -> Row] /\ row'[l] = new
       /\ \A k \in Lines : k # l => row'[k] = row[k]
  BY <1>1, <1>2, <1>4, <1>7 DEF TypeOK
<1>11. /\ \A k \in Lines : k # l => asked'[k] = asked[k]
       /\ asked'[l].deleted = asked[l].deleted
       /\ asked'[l].totalPrice = IF newPrice[r] = -1 THEN asked[l].totalPrice
                                 ELSE newPrice[r]
  BY <1>1, <1>2, <1>4 DEF TypeOK, Row
<1>12. asked' \in [Lines -> Row]
  <2> DEFINE price == IF newPrice[r] = -1 THEN asked[l].totalPrice ELSE newPrice[r]
  <2>1. price \in Nat /\ asked[l] \in Row
    BY <1>2, <1>4 DEF TypeOK, Row
  <2>2. [asked[l] EXCEPT !.totalPrice = price] \in Row
    BY <2>1 DEF Row
  <2>3. asked' = [asked EXCEPT ![l] = [asked[l] EXCEPT !.totalPrice = price]]
    BY <1>1 DEF l
  <2> QED BY <1>2, <2>2, <2>3 DEF TypeOK
<1>13. RowsAsAsked'
  <2> SUFFICES ASSUME NEW k \in keys, ~overlapped[orderOf[k]]
               PROVE  /\ row'[k].totalPrice = asked'[k].totalPrice
                      /\ row'[k].deleted = asked'[k].deleted
    BY <1>1 DEF RowsAsAsked
  <2>1. row[k].totalPrice = asked[k].totalPrice /\ row[k].deleted = asked[k].deleted
    BY DEF IInv, RowsAsAsked
  <2>2. CASE k = l
    <3>1. Fresh(r) /\ ~overlapped[order[r]]
      BY <1>3, <1>4, <2>2 DEF LoneHolder
    <3>2. /\ held[r][l].deleted = row[l].deleted
          /\ held[r][l].totalPrice =
                 IF newPrice[r] = -1 THEN row[l].totalPrice ELSE newPrice[r]
      BY <1>4, <3>1 DEF Fresh
    <3> QED BY <1>9, <1>10, <1>11, <2>1, <2>2, <3>1, <3>2
  <2>3. CASE k # l
    <3>1. k \in Lines
      BY <1>2 DEF TypeOK
    <3> QED BY <1>10, <1>11, <2>1, <2>3, <3>1
  <2> QED BY <2>2, <2>3
<1>14. \A k \in keys : row'[k] = row[k] \/ (Busy(r) /\ k \in DOMAIN held[r])
  BY <1>2, <1>3, <1>4, <1>10 DEF TypeOK
<1>15. CASE Leave(r, "done")
  <2>1. /\ ~Busy(r)' /\ order'[r] = order[r]
        /\ \A q \in Requests \ {r} : Stays(q)
        /\ TypeOK'
    <3>1. /\ keys' \subseteq Lines /\ orderOf' \in [Lines -> Orders]
          /\ row' \in [Lines -> Row] /\ overlapped' \in [Orders -> BOOLEAN]
          /\ asked' \in [Lines -> Row]
      BY <1>1, <1>2, <1>10, <1>12 DEF TypeOK
    <3> QED BY ONLY r \in Requests, <1>2, <1>15, <3>1, LeaveFacts
  <2>2. ASSUME NEW q \in Requests, Busy(q)'
        PROVE  Owns(q)' /\ InList(q)' /\ LoneHolder(q)'
    <3>1. q \in Requests \ {r}
      BY <2>1, <2>2
    <3> QED BY <1>1, <1>3, <1>14, <2>1, <2>2, <3>1, OthersKeep
  <2> QED BY <1>13, <2>1, <2>2 DEF IInv, HoldersOK
<1>16. CASE goesOn
  <2>1. /\ pc'[r] = IF next <= Len(ids[r]) THEN "loaded" ELSE "reading"
        /\ at'[r] = next /\ dirty'[r] = {}
        /\ UNCHANGED <<kind, order, ids, held, newPrice, crowded>>
    BY <1>2, <1>16 DEF TypeOK
  <2>2. ASSUME NEW q \in Requests \ {r} PROVE Stays(q)
    BY <1>2, <1>16, <2>2 DEF TypeOK, Stays
  <2>3. TypeOK'
    <3>1. /\ pc' \in [Requests -> Pcs] /\ dirty' \in [Requests -> SUBSET Columns]
          /\ at' \in [Requests -> Nat \ {0}]
      BY <1>2, <1>4, <1>5, <1>16 DEF TypeOK, Pcs
    <3>2. \A q \in Requests : at'[q] <= Len(ids'[q]) + 1
      BY <1>2, <1>5, <1>16 DEF TypeOK
    <3> QED BY <1>1, <1>2, <1>10, <1>12, <2>1, <3>1, <3>2 DEF TypeOK
  <2>4. kind[r] = "resequence"
    <3>1. kind[r] # "resequence" => next > Len(ids[r])
      BY <1>3, <1>4, <1>5 DEF InList
    <3> QED BY <1>4, <1>5, <1>16, <3>1
  <2>5. Owns(r)' /\ InList(r)'
    <3>1. next <= Len(ids[r]) => next \in DOMAIN ids[r]
      BY <1>4, <1>5
    <3> QED BY <1>1, <1>3, <1>4, <1>5, <2>1, <2>4, <3>1 DEF Owns, InList
  <2>6. ASSUME ~overlapped[order[r]] PROVE LoneHolder(r)'
    <3>1. ASSUME NEW p \in Requests, Busy(p)', order'[p] = order[r] PROVE p = r
      BY <1>3, <2>1, <2>2, <2>6, <3>1 DEF LoneHolder, Stays, Busy
    <3>2. Fresh(r)'
      <4> SUFFICES ASSUME NEW k \in DOMAIN held[r]
                   PROVE  /\ held[r][k].deleted = row'[k].deleted
                          /\ held[r][k].totalPrice =
                                 IF newPrice[r] = -1 THEN row'[k].totalPrice
                                 ELSE newPrice[r]
        BY <2>1 DEF Fresh
      <4>1. /\ held[r][k].deleted = row[k].deleted
            /\ held[r][k].totalPrice =
                   IF newPrice[r] = -1 THEN row[k].totalPrice ELSE newPrice[r]
        BY <1>3, <2>6 DEF LoneHolder, Fresh
      <4>2. CASE k = l
        BY <1>9, <1>10, <2>6, <4>1, <4>2
      <4>3. CASE k # l
        BY <1>2, <1>10, <4>1, <4>3 DEF TypeOK
      <4> QED BY <4>2, <4>3
    <3>3. Places(r)'
      <4> SUFFICES ASSUME NEW j \in Placed(r)' PROVE row'[ids[r][j]].sequence = j - 1
        BY <2>1 DEF Places
      <4>1. /\ j \in 1..(next - 1) /\ ids[r][j] \in DOMAIN held[r]
            /\ \A k \in (j + 1)..(next - 1) : ids[r][k] # ids[r][j]
        BY <2>1 DEF Placed
      <4>2. CASE j < at[r]
        <5>1. j \in Placed(r)
          BY <1>4, <1>5, <4>1, <4>2 DEF Placed
        <5>2. row[ids[r][j]].sequence = j - 1
          BY <1>3, <2>4, <2>6, <5>1 DEF LoneHolder, Places
        <5>3. ids[r][j] # l
          BY <1>4, <1>5, <4>1, <4>2 DEF l
        <5>4. ids[r][j] \in Lines
          BY <1>2, <4>1 DEF TypeOK
        <5> QED BY <1>10, <5>2, <5>3, <5>4
      <4>3. CASE j = at[r]
        BY <1>9, <1>10, <2>4, <2>6, <4>3 DEF l
      <4>4. CASE j > at[r]
        <5>1. j \in (at[r] + 1)..(next - 1)
          BY <1>4, <1>5, <4>1, <4>4
        <5> QED BY <1>5, <4>1, <5>1
      <4> QED BY <1>4, <1>5, <4>1, <4>2, <4>3, <4>4
    <3> QED BY <2>1, <3>1, <3>2, <3>3 DEF LoneHolder
  <2>7. LoneHolder(r)'
    BY <1>1, <2>1, <2>6 DEF LoneHolder
  <2>8. ASSUME NEW q \in Requests \ {r}, Busy(q)'
        PROVE  Owns(q)' /\ InList(q)' /\ LoneHolder(q)'
    BY <1>1, <1>3, <1>14, <2>1, <2>2, <2>8, OthersKeep
  <2> QED BY <1>13, <2>3, <2>5, <2>7, <2>8 DEF IInv, HoldersOK
<1> HIDE DEF goesOn
<1> QED BY <1>1, <1>15, <1>16

(* softDelete, of the one line a remove holds.                             *)
LEMMA SoftDeleteIInv ==
    ASSUME IInv, NEW r \in Requests, SoftDelete(r)
    PROVE  IInv'
<1> DEFINE l == ids[r][1]
<1>1. /\ pc[r] = "removing" /\ Leave(r, "done")
      /\ row' = [row EXCEPT ![l].deleted = TRUE]
      /\ asked' = [asked EXCEPT ![l].deleted = TRUE]
      /\ UNCHANGED <<keys, orderOf, overlapped>>
  BY DEF SoftDelete
<1>2. TypeOK
  BY DEF IInv
<1>3. Busy(r) /\ Owns(r) /\ InList(r)
  BY <1>1 DEF Busy, IInv, HoldersOK
<1>4. l \in DOMAIN held[r] /\ l \in keys /\ l \in Lines
  <2>1. at[r] = 1
    BY <1>1, <1>2, <1>3 DEF InList, TypeOK
  <2> QED BY <1>1, <1>2, <1>3, <2>1 DEF InList, Owns, TypeOK
<1> HIDE DEF l
<1>5. /\ row' \in [Lines -> Row] /\ asked' \in [Lines -> Row]
      /\ \A k \in Lines : k # l => row'[k] = row[k] /\ asked'[k] = asked[k]
      /\ row'[l].deleted = TRUE /\ row'[l].totalPrice = row[l].totalPrice
      /\ asked'[l].deleted = TRUE /\ asked'[l].totalPrice = asked[l].totalPrice
  <2>1. row[l] \in Row /\ asked[l] \in Row
    BY <1>2, <1>4 DEF TypeOK
  <2>2. ASSUME NEW e \in Row
        PROVE  LET d == [e EXCEPT !.deleted = TRUE] IN
               d \in Row /\ d.deleted = TRUE /\ d.totalPrice = e.totalPrice
    BY DEF Row
  <2>3. /\ row' \in [Lines -> Row] /\ row'[l] = [row[l] EXCEPT !.deleted = TRUE]
        /\ \A k \in Lines : k # l => row'[k] = row[k]
    BY <1>1, <1>2, <1>4, <2>1, <2>2 DEF TypeOK
  <2>4. /\ asked' \in [Lines -> Row] /\ asked'[l] = [asked[l] EXCEPT !.deleted = TRUE]
        /\ \A k \in Lines : k # l => asked'[k] = asked[k]
    BY <1>1, <1>2, <1>4, <2>1, <2>2 DEF TypeOK
  <2> QED BY <2>1, <2>2, <2>3, <2>4
<1>6. /\ ~Busy(r)' /\ order'[r] = order[r]
      /\ \A q \in Requests \ {r} : Stays(q)
      /\ TypeOK'
  <2>1. /\ keys' \subseteq Lines /\ orderOf' \in [Lines -> Orders]
        /\ row' \in [Lines -> Row] /\ overlapped' \in [Orders -> BOOLEAN]
        /\ asked' \in [Lines -> Row]
    BY <1>1, <1>2, <1>5 DEF TypeOK
  <2>2. Leave(r, "done")
    BY <1>1
  <2> QED BY ONLY r \in Requests, <1>2, <2>1, <2>2, LeaveFacts
<1>7. RowsAsAsked'
  <2> SUFFICES ASSUME NEW k \in keys, ~overlapped[orderOf[k]]
               PROVE  /\ row'[k].totalPrice = asked'[k].totalPrice
                      /\ row'[k].deleted = asked'[k].deleted
    BY <1>1 DEF RowsAsAsked
  <2>1. row[k].totalPrice = asked[k].totalPrice /\ row[k].deleted = asked[k].deleted
    BY DEF IInv, RowsAsAsked
  <2>2. CASE k = l
    BY <1>5, <2>1, <2>2
  <2>3. CASE k # l
    <3>1. k \in Lines
      BY <1>2 DEF TypeOK
    <3> QED BY <1>5, <2>1, <2>3, <3>1
  <2> QED BY <2>2, <2>3
<1>8. \A k \in keys : row'[k] = row[k] \/ (Busy(r) /\ k \in DOMAIN held[r])
  BY <1>2, <1>3, <1>4, <1>5 DEF TypeOK
<1>9. ASSUME NEW q \in Requests, Busy(q)'
      PROVE  Owns(q)' /\ InList(q)' /\ LoneHolder(q)'
  <2>1. q \in Requests \ {r}
    BY <1>6, <1>9
  <2> QED BY <1>1, <1>3, <1>6, <1>8, <1>9, <2>1, OthersKeep
<1> QED BY <1>6, <1>7, <1>9 DEF IInv, HoldersOK

(* An end that leaves the table as it is.                                  *)
LEMMA EndIInv ==
    ASSUME IInv, NEW r \in Requests, Answer(r) \/ Fail(r)
    PROVE  IInv'
<1>1. TypeOK
  BY DEF IInv
<1>2. /\ Leave(r, "done") \/ Leave(r, "failed")
      /\ UNCHANGED <<keys, orderOf, row, overlapped, asked>>
  BY DEF Answer, Fail, tableVars
<1>3. /\ ~Busy(r)' /\ order'[r] = order[r]
      /\ \A q \in Requests \ {r} : Stays(q)
      /\ TypeOK'
  <2>1. /\ keys' \subseteq Lines /\ orderOf' \in [Lines -> Orders]
        /\ row' \in [Lines -> Row] /\ overlapped' \in [Orders -> BOOLEAN]
        /\ asked' \in [Lines -> Row]
    BY <1>1, <1>2 DEF TypeOK
  <2>2. PICK end \in {"done", "failed"} : Leave(r, end)
    BY <1>2
  <2> QED BY ONLY r \in Requests, <1>1, <2>1, <2>2, LeaveFacts
<1>4. RowsAsAsked'
  BY <1>2 DEF IInv, RowsAsAsked
<1>5. ASSUME NEW q \in Requests, Busy(q)'
      PROVE  Owns(q)' /\ InList(q)' /\ LoneHolder(q)'
  <2>1. q \in Requests \ {r}
    BY <1>3, <1>5
  <2> QED BY <1>2, <1>3, <1>5, <2>1, OthersKeep
<1> QED BY <1>3, <1>4, <1>5 DEF IInv, HoldersOK

(* A request turned away has held nothing.                                 *)
LEMMA RejectIInv ==
    ASSUME IInv, NEW r \in Requests, Reject(r)
    PROVE  IInv'
<1>1. TypeOK
  BY DEF IInv
<1>2. /\ pc[r] = "idle" /\ pc' = [pc EXCEPT ![r] = "failed"]
      /\ UNCHANGED <<keys, orderOf, row, kind, order, ids, held, at, dirty,
                     newPrice, overlapped, crowded, asked>>
  BY DEF Reject, tableVars
<1>3. TypeOK'
  BY <1>1, <1>2 DEF TypeOK, Pcs
<1>4. RowsAsAsked'
  BY <1>2 DEF IInv, RowsAsAsked
<1>5. ~Busy(r)' /\ \A q \in Requests \ {r} : Stays(q)
  BY <1>1, <1>2 DEF TypeOK, Busy, Stays
<1>6. ASSUME NEW q \in Requests, Busy(q)'
      PROVE  Owns(q)' /\ InList(q)' /\ LoneHolder(q)'
  <2>1. q \in Requests \ {r}
    BY <1>5, <1>6
  <2> QED BY <1>2, <1>5, <1>6, <2>1, OthersKeep
<1> QED BY <1>3, <1>4, <1>6 DEF IInv, HoldersOK

(* A list of one line held is not passed over.                             *)
LEMMA OnePlace ==
    ASSUME NEW l \in Lines
    PROVE  NextPlace(<<l>>, {l}, 1) <= Len(<<l>>)
<1> DEFINE list  == <<l>>
           lines == {l}
           p     == NextPlace(list, lines, 1)
<1>1. list \in Seq(Lines) /\ Len(list) = 1 /\ list[1] \in lines
  OBVIOUS
<1> HIDE DEF list, lines
<1>2. 1 \in 1..(Len(list) + 1)
  BY <1>1
<1>3. p \in Nat /\ p <= 2 /\ \A j \in 1..(p - 1) : list[j] \notin lines
  BY <1>1, <1>2, NextPlaceFacts
<1> HIDE DEF p
<1>4. p <= Len(list)
  BY <1>1, <1>3
<1> QED BY <1>4 DEF p, list, lines

(* Every step keeps the invariant.                                         *)
THEOREM StepIInv == IInv /\ [Next]_vars => IInv'
<1> SUFFICES ASSUME IInv, [Next]_vars PROVE IInv'
  OBVIOUS
<1>0. TypeOK
  BY DEF IInv
<1>1. ASSUME NEW new \in SUBSET Lines, NEW dtos \in [new -> CreateDtos],
             Insert(new, dtos)
      PROVE  IInv'
  BY <1>1, InsertIInv
<1>2. ASSUME NEW l \in Lines, Found(l), NEW entities \in [{l} -> Row],
             NEW price \in Nat \cup {-1},
             entities[l].deleted = row[l].deleted,
             entities[l].totalPrice =
                 IF price = -1 THEN row[l].totalPrice ELSE price
      PROVE  /\ Startable("update", "loaded", orderOf[l], <<l>>, {l}, entities, price)
             /\ Startable("remove", "removing", orderOf[l], <<l>>, {l}, entities, price)
  <2>1. /\ orderOf[l] \in Orders /\ <<l>> \in Seq(Lines) /\ {l} \subseteq keys
        /\ Len(<<l>>) = 1
    BY <1>0, <1>2 DEF TypeOK, Found
  <2>2. NextPlace(<<l>>, {l}, 1) <= Len(<<l>>)
    BY OnePlace
  <2> QED BY <1>2, <2>1, <2>2 DEF Startable, Kinds
<1>3. ASSUME NEW r \in Requests, NEW l \in Lines, NEW dto \in UpdateDtos,
             StartUpdate(r, l, dto)
      PROVE  IInv'
  <2> DEFINE entities == [j \in {l} |-> Updated(row[l], dto)]
  <2>1. row[l] \in Row /\ dto.totalPrice \in Nat \cup {-1}
    BY <1>0, DtoAssumption DEF TypeOK
  <2>2. /\ Updated(row[l], dto) \in Row
        /\ Updated(row[l], dto).deleted = row[l].deleted
        /\ Updated(row[l], dto).totalPrice =
               IF dto.totalPrice = -1 THEN row[l].totalPrice ELSE dto.totalPrice
    BY <2>1, UpdatedFields
  <2>3. Found(l) /\ Load(r, "update", "loaded", orderOf[l], <<l>>, entities,
                         dto.totalPrice)
    BY <1>3 DEF StartUpdate
  <2>4. entities \in [{l} -> Row] /\ entities[l] = Updated(row[l], dto)
    BY <2>2
  <2> HIDE DEF entities
  <2>5. Startable("update", "loaded", orderOf[l], <<l>>, {l}, entities, dto.totalPrice)
    BY <1>2, <2>1, <2>2, <2>3, <2>4
  <2> QED BY ONLY IInv, r \in Requests, <2>3, <2>5, LoadIInv
<1>4. ASSUME NEW r \in Requests, NEW l \in Lines, StartRemove(r, l) PROVE IInv'
  <2> DEFINE entities == [j \in {l} |-> row[l]]
  <2>1. row[l] \in Row
    BY <1>0 DEF TypeOK
  <2>2. Found(l) /\ Load(r, "remove", "removing", orderOf[l], <<l>>, entities, -1)
    BY <1>4 DEF StartRemove
  <2>3. entities \in [{l} -> Row] /\ entities[l] = row[l]
    BY <2>1
  <2> HIDE DEF entities
  <2>4. Startable("remove", "removing", orderOf[l], <<l>>, {l}, entities, -1)
    BY <1>2, <2>2, <2>3
  <2> QED BY ONLY IInv, r \in Requests, <2>2, <2>4, LoadIInv
<1>5. ASSUME NEW r \in Requests, NEW o \in Orders, NEW list \in Lists,
             StartResequence(r, o, list)
      PROVE  IInv'
  <2> DEFINE lines == LinesOf(o)
             entities == [l \in lines |-> row[l]]
             next == IF NextPlace(list, lines, 1) > Len(list) THEN "reading"
                     ELSE "loaded"
  <2>1. list \in Seq(Lines)
    BY DtoAssumption
  <2>2. lines \subseteq keys /\ \A l \in lines : l \in Lines /\ orderOf[l] = o
    BY DEF LinesOf, Found
  <2>3. entities \in [lines -> Row] /\ \A l \in lines : entities[l] = row[l]
    BY <1>0, <2>2 DEF TypeOK
  <2>4. Load(r, "resequence", next, o, list, entities, -1)
    BY <1>5 DEF StartResequence
  <2>5. /\ next # "reading" => NextPlace(list, lines, 1) <= Len(list)
        /\ next \in {"loaded", "removing", "reading"} /\ next # "removing"
    <3>1. 1 \in 1..(Len(list) + 1)
      BY <2>1
    <3>2. NextPlace(list, lines, 1) \in Nat
      BY <2>1, <3>1, NextPlaceFacts
    <3> QED BY <2>1, <3>2
  <2> HIDE DEF entities, next, lines
  <2>6. Startable("resequence", next, o, list, lines, entities, -1)
    BY <2>1, <2>2, <2>3, <2>5 DEF Startable, Kinds
  <2> QED BY ONLY IInv, r \in Requests, <2>4, <2>6, LoadIInv
<1>6. ASSUME NEW r \in Requests, Reject(r) PROVE IInv'
  BY <1>6, RejectIInv
<1>7. ASSUME NEW r \in Requests,
             Compare(r) \/ Commit(r) \/ SoftDelete(r) \/ Answer(r) \/ Fail(r)
      PROVE  IInv'
  BY <1>7, CompareIInv, CommitIInv, SoftDeleteIInv, EndIInv
<1>8. CASE UNCHANGED vars
  BY <1>8 DEF vars, tableVars, requestVars, IInv, TypeOK, RowsAsAsked, HoldersOK,
     Owns, InList, LoneHolder, Fresh, Places, Placed, Entity, Busy
<1> QED
  BY <1>1, <1>3, <1>4, <1>5, <1>6, <1>7, <1>8 DEF Next, NotFound, Mismatch

(* The invariant holds of the table under any number of requests.          *)
THEOREM Invariance == Spec => []IInv
BY InitIInv, StepIInv, PTL DEF Spec

(* Rows, entities and places keep their types.                             *)
THEOREM TypeCorrect == Spec => []TypeOK
BY Invariance, PTL DEF IInv

(* No reordering, complete or not, changes what an order whose requests    *)
(* do not overlap costs: its lines and their prices are those last asked   *)
(* for.                                                                    *)
THEOREM TotalsAreKept == Spec => []LoneRequestsKeepTheTotal
<1>1. IInv => LoneRequestsKeepTheTotal
  <2> SUFFICES ASSUME IInv, NEW o \in Orders, ~overlapped[o]
               PROVE  OrderTotal(o) =
                          SumFunction([l \in AskedLines(o) |-> asked[l].totalPrice])
    BY DEF LoneRequestsKeepTheTotal
  <2>1. \A l \in keys : orderOf[l] = o =>
            /\ row[l].totalPrice = asked[l].totalPrice
            /\ row[l].deleted = asked[l].deleted
    BY DEF IInv, RowsAsAsked
  <2>2. LinesOf(o) = AskedLines(o)
    BY <2>1 DEF IInv, TypeOK, LinesOf, Found, AskedLines
  <2>3. [l \in LinesOf(o) |-> row[l].totalPrice] =
            [l \in AskedLines(o) |-> asked[l].totalPrice]
    BY <2>1, <2>2 DEF AskedLines
  <2> QED BY <2>3 DEF OrderTotal
<1> QED BY <1>1, Invariance, PTL

(* A request that nobody joins puts the lines where its list has them.     *)
THEOREM ResequencePlaces == Spec => []LoneResequencePlaces
<1>1. IInv => LoneResequencePlaces
  BY DEF IInv, HoldersOK, LoneHolder, Places, LoneResequencePlaces
<1> QED BY <1>1, Invariance, PTL

(* Whatever ids a list carries, lines of other orders are not touched.     *)
THEOREM OthersStayUntouched == Spec => OtherOrdersUntouched
<1> DEFINE Own == \A l \in keys : row'[l] # row[l] =>
                     \E r \in Requests : order[r] = orderOf[l] /\ pc'[r] # pc[r]
<1>1. ASSUME IInv, Next PROVE Own
  <2> SUFFICES ASSUME NEW l \in keys, row'[l] # row[l]
               PROVE  \E r \in Requests : order[r] = orderOf[l] /\ pc'[r] # pc[r]
    OBVIOUS
  <2>0. TypeOK /\ l \in Lines
    BY <1>1 DEF IInv, TypeOK
  <2>1. ASSUME NEW new \in SUBSET Lines, NEW dtos \in [new -> CreateDtos],
               Insert(new, dtos)
        PROVE  FALSE
    BY <2>0, <2>1 DEF Insert
  <2>2. ASSUME NEW r \in Requests, Commit(r)
        PROVE  order[r] = orderOf[l] /\ pc'[r] # pc[r]
    <3>1. pc[r] = "saving" /\ row' = [row EXCEPT ![ids[r][at[r]]] = row'[ids[r][at[r]]]]
      BY <2>0, <2>2 DEF Commit, TypeOK
    <3>2. l = ids[r][at[r]]
      BY <2>0, <3>1 DEF TypeOK
    <3>3. Owns(r) /\ InList(r)
      BY <1>1, <3>1 DEF IInv, HoldersOK, Busy
    <3>4. pc'[r] # pc[r]
      BY <2>0, <2>2, <3>1 DEF Commit, Leave, TypeOK
    <3> QED BY <3>1, <3>2, <3>3, <3>4 DEF Owns, InList
  <2>3. ASSUME NEW r \in Requests, SoftDelete(r)
        PROVE  order[r] = orderOf[l] /\ pc'[r] # pc[r]
    <3>1. pc[r] = "removing" /\ pc'[r] = "done" /\ l = ids[r][1]
      BY <2>0, <2>3 DEF SoftDelete, Leave, TypeOK
    <3>2. Owns(r) /\ InList(r)
      BY <1>1, <3>1 DEF IInv, HoldersOK, Busy
    <3>3. at[r] = 1
      BY <2>0, <3>1, <3>2 DEF InList, TypeOK
    <3> QED BY <3>1, <3>2, <3>3 DEF Owns, InList
  <2>4. ASSUME NEW r \in Requests, NEW k, NEW next, NEW o, NEW list, NEW entities,
               NEW price, Load(r, k, next, o, list, entities, price)
        PROVE  FALSE
    BY <2>4 DEF Load, tableVars
  <2>5. ASSUME NEW r \in Requests, Reject(r) \/ Compare(r) \/ Answer(r) \/ Fail(r)
        PROVE  FALSE
    BY <2>5 DEF Reject, Compare, Answer, Fail, tableVars
  <2> QED BY <1>1, <2>1, <2>2, <2>3, <2>4, <2>5
          DEF Next, StartUpdate, StartRemove, StartResequence, NotFound, Mismatch
<1>2. IInv /\ [Next]_vars => [Own]_vars
  BY <1>1
<1> QED BY <1>2, Invariance, PTL DEF Spec, OtherOrdersUntouched

(* Deletion is final once the last request that read the line has ended.   *)
THEOREM DeletionIsFinal == Spec => DeletedIsGone
<1> DEFINE Gone == \A l \in keys :
                      row[l].deleted /\ LineHolders(l) = {} =>
                          row'[l] = row[l] /\ LineHolders(l)' = {}
<1>1. ASSUME IInv, Next PROVE Gone
  <2> SUFFICES ASSUME NEW l \in keys, row[l].deleted, LineHolders(l) = {}
               PROVE  row'[l] = row[l] /\ LineHolders(l)' = {}
    OBVIOUS
  <2> DEFINE Kept == row'[l] = row[l] /\ LineHolders(l)' = {}
  <2>0. TypeOK /\ l \in Lines /\ ~Found(l)
    BY <1>1 DEF IInv, TypeOK, Found
  <2>1. \A q \in Requests : l \notin DOMAIN held[q]
    BY DEF LineHolders
  <2>2. ASSUME NEW new \in SUBSET Lines, NEW dtos \in [new -> CreateDtos],
               Insert(new, dtos)
        PROVE  Kept
    BY <2>0, <2>1, <2>2 DEF Insert, requestVars, LineHolders
  <2>3. ASSUME NEW r \in Requests, NEW k, NEW next, NEW o, NEW list, NEW entities,
               NEW price, Load(r, k, next, o, list, entities, price),
               l \notin DOMAIN entities
        PROVE  Kept
    <3>1. held' = [held EXCEPT ![r] = entities] /\ row' = row
      BY <2>3 DEF Load, tableVars
    <3>2. \A q \in Requests : l \notin DOMAIN held'[q]
      BY <2>0, <2>1, <2>3, <3>1 DEF TypeOK
    <3> QED BY <3>1, <3>2 DEF LineHolders
  <2>4. ASSUME NEW r \in Requests, NEW j \in Lines, NEW dto,
               StartUpdate(r, j, dto) \/ StartRemove(r, j)
        PROVE  Kept
    <3>1. j # l
      BY <2>0, <2>4 DEF StartUpdate, StartRemove
    <3> QED BY <2>3, <2>4, <3>1 DEF StartUpdate, StartRemove
  <2>5. ASSUME NEW r \in Requests, NEW o \in Orders, NEW list \in Lists,
               StartResequence(r, o, list)
        PROVE  Kept
    <3>1. l \notin LinesOf(o)
      BY <2>0 DEF LinesOf
    <3> QED BY <2>3, <2>5, <3>1 DEF StartResequence
  <2>6. ASSUME NEW r \in Requests, UNCHANGED <<row, held>>
        PROVE  Kept
    BY <2>1, <2>6 DEF LineHolders
  <2>7. ASSUME NEW r \in Requests, NEW end, Leave(r, end)
        PROVE  LineHolders(l)' = {}
    BY <2>0, <2>1, <2>7 DEF Leave, NoLines, LineHolders, TypeOK
  <2>8. ASSUME NEW r \in Requests, Commit(r)
        PROVE  Kept
    <3>1. ids[r][at[r]] # l
      BY <1>1, <2>1, <2>8 DEF Commit, IInv, HoldersOK, InList, Busy
    <3>2. row'[l] = row[l]
      BY <2>0, <2>8, <3>1 DEF Commit, TypeOK
    <3>3. Leave(r, "done") \/ held' = held
      BY <2>8 DEF Commit
    <3> QED BY <2>1, <2>7, <3>2, <3>3 DEF LineHolders
  <2>9. ASSUME NEW r \in Requests, SoftDelete(r)
        PROVE  Kept
    <3>1. pc[r] = "removing"
      BY <2>9 DEF SoftDelete
    <3>2. Owns(r) /\ InList(r)
      BY <1>1, <3>1 DEF IInv, HoldersOK, Busy
    <3>3. at[r] = 1 /\ ids[r][1] # l
      BY <2>0, <2>1, <3>1, <3>2 DEF InList, TypeOK
    <3>4. row'[l] = row[l]
      BY <2>0, <2>9, <3>3 DEF SoftDelete, TypeOK
    <3> QED BY <2>7, <2>9, <3>4 DEF SoftDelete
  <2>10. ASSUME NEW r \in Requests, Answer(r) \/ Fail(r)
         PROVE  Kept
    BY <2>7, <2>10 DEF Answer, Fail, tableVars
  <2>11. ASSUME NEW r \in Requests, Reject(r) \/ Compare(r)
         PROVE  Kept
    BY <2>6, <2>11 DEF Reject, Compare, tableVars
  <2> HIDE DEF Kept
  <2>12. Kept
    BY <1>1, <2>2, <2>4, <2>5, <2>8, <2>9, <2>10, <2>11
       DEF Next, NotFound, Mismatch
  <2> QED BY <2>12 DEF Kept
<1>2. IInv /\ [Next]_vars => [Gone]_vars
  BY <1>1
<1> QED BY <1>2, Invariance, PTL DEF Spec, DeletedIsGone

-----------------------------------------------------------------------------
(* The refinement of AtomicLines.  A line that a request holds alone is    *)
(* live, and what the request is to save of it is made from the row as it  *)
(* still is.                                                               *)
WholeLine(q, l) ==
    /\ \A p \in Requests : l \in DOMAIN held[p] => p = q
    /\ Found(l)
    /\ kind[q] = "update" => \E dto \in UpdateDtos : held[q][l] = Updated(row[l], dto)
    /\ kind[q] # "update" => /\ held[q][l].totalPrice = row[l].totalPrice
                             /\ held[q][l].deleted = row[l].deleted
    /\ pc[q] = "saving" /\ l = ids[q][at[q]] =>
           dirty[q] = Differing(Columns, Entity(q), row[l])

(* Who is not under way holds nothing, and who is not reordering one line. *)
HoldsOK(q) ==
    /\ ~Busy(q) => DOMAIN held[q] = {}
    /\ Busy(q) /\ kind[q] # "resequence" => DOMAIN held[q] = {ids[q][1]}
    /\ crowded[q] \subseteq DOMAIN held[q]

CrowdOK ==
    \A q \in Requests :
        /\ HoldsOK(q)
        /\ \A l \in DOMAIN held[q] \ crowded[q] : WholeLine(q, l)

(* A step of somebody else that leaves the line's row as it is, and does   *)
(* not get hold of it, leaves it whole.                                    *)
LEMMA WholeLineKept ==
    ASSUME NEW q \in Requests, NEW l, WholeLine(q, l), Stays(q),
           keys \subseteq keys', row'[l] = row[l],
           \A p \in Requests : l \in DOMAIN held'[p] => l \in DOMAIN held[p]
    PROVE  WholeLine(q, l)'
<1>1. Found(l)' /\ Entity(q)' = Entity(q)
  BY DEF WholeLine, Found, Stays, Entity
<1>2. (\E dto \in UpdateDtos : held[q][l] = Updated(row[l], dto)) =>
          (\E dto \in UpdateDtos : held'[q][l] = Updated(row'[l], dto))
  BY DEF Stays
<1> QED BY <1>1, <1>2 DEF WholeLine, Stays

LEMMA HoldsKept ==
    ASSUME NEW q \in Requests, HoldsOK(q), Stays(q),
           crowded'[q] \subseteq DOMAIN held[q]
    PROVE  HoldsOK(q)'
BY DEF HoldsOK, Stays, Busy

(* Whoever does not move keeps what it holds whole, if nobody else writes  *)
(* it or gets hold of it.                                                  *)
LEMMA OthersCrowd ==
    ASSUME CrowdOK, NEW q \in Requests, Stays(q), crowded'[q] = crowded[q],
           keys \subseteq keys',
           \A l \in DOMAIN held[q] \ crowded[q] :
               /\ row'[l] = row[l]
               /\ \A p \in Requests : l \in DOMAIN held'[p] => l \in DOMAIN held[p]
    PROVE  /\ HoldsOK(q)'
           /\ \A l \in DOMAIN held'[q] \ crowded'[q] : WholeLine(q, l)'
<1>1. HoldsOK(q) /\ \A l \in DOMAIN held[q] \ crowded[q] : WholeLine(q, l)
  BY DEF CrowdOK
<1>2. HoldsOK(q)'
  BY <1>1, HoldsKept DEF HoldsOK
<1>3. held'[q] = held[q]
  BY DEF Stays
<1> QED BY <1>1, <1>2, <1>3, WholeLineKept

(* What update, remove and resequence take hold of is there, and is what   *)
(* the rows hold or what a body makes of them.                             *)
Grasped(k, list, entities) ==
    /\ \A l \in DOMAIN entities : Found(l)
    /\ k = "update" =>
           \A l \in DOMAIN entities :
               \E dto \in UpdateDtos : entities[l] = Updated(row[l], dto)
    /\ k # "update" => \A l \in DOMAIN entities : entities[l] = row[l]
    /\ k # "resequence" => DOMAIN entities = {list[1]}

LEMMA LoadCrowd ==
    ASSUME TypeOK, CrowdOK, NEW r \in Requests, NEW k,
           NEW next \in {"loaded", "removing", "reading"}, NEW o, NEW list,
           NEW entities, NEW price, Grasped(k, list, entities),
           Load(r, k, next, o, list, entities, price)
    PROVE  CrowdOK'
<1>1. /\ pc[r] = "idle" /\ pc' = [pc EXCEPT ![r] = next]
      /\ kind' = [kind EXCEPT ![r] = k] /\ order' = [order EXCEPT ![r] = o]
      /\ ids' = [ids EXCEPT ![r] = list] /\ held' = [held EXCEPT ![r] = entities]
      /\ at' = [at EXCEPT ![r] = NextPlace(list, DOMAIN entities, 1)]
      /\ newPrice' = [newPrice EXCEPT ![r] = price]
      /\ UNCHANGED <<keys, row, dirty>>
      /\ \A q \in Requests :
             crowded'[q] =
                 crowded[q] \cup
                     {l \in DOMAIN entities :
                          LineHolders(l) # {} /\ q \in LineHolders(l) \cup {r}}
  BY DEF Load, tableVars
<1>2. /\ pc'[r] = next /\ kind'[r] = k /\ ids'[r] = list /\ held'[r] = entities
      /\ ~Busy(r) /\ Busy(r)'
  BY <1>1 DEF TypeOK, Busy
<1>3. crowded[r] = {} /\ DOMAIN held[r] = {}
  BY <1>2 DEF CrowdOK, HoldsOK
<1>4. \A q \in Requests \ {r} : Stays(q)
  BY <1>1 DEF TypeOK, Stays
<1>5. HoldsOK(r)'
  BY <1>1, <1>2, <1>3 DEF HoldsOK, Grasped
<1>6. ASSUME NEW l \in DOMAIN entities \ crowded'[r] PROVE WholeLine(r, l)'
  <2>1. LineHolders(l) = {}
    BY <1>1, <1>6
  <2>2. \A p \in Requests : l \in DOMAIN held'[p] => p = r
    BY <1>4, <2>1 DEF LineHolders, Stays
  <2>3. Found(l)' /\ row'[l] = row[l]
    BY <1>1 DEF Grasped, Found
  <2>4. k = "update" => \E dto \in UpdateDtos : held'[r][l] = Updated(row'[l], dto)
    BY <1>2, <2>3 DEF Grasped
  <2>5. k # "update" => held'[r][l] = row'[l]
    BY <1>2, <2>3 DEF Grasped
  <2> QED BY <1>2, <2>2, <2>3, <2>4, <2>5 DEF WholeLine
<1>7. ASSUME NEW q \in Requests \ {r}
      PROVE  /\ HoldsOK(q)'
             /\ \A l \in DOMAIN held'[q] \ crowded'[q] : WholeLine(q, l)'
  <2>1. HoldsOK(q) /\ Stays(q) /\ held'[q] = held[q]
    BY <1>4 DEF CrowdOK, Stays
  <2>2. crowded'[q] \subseteq DOMAIN held[q] /\ crowded[q] \subseteq crowded'[q]
    BY <1>1, <1>7, <2>1 DEF HoldsOK, LineHolders
  <2>3. HoldsOK(q)'
    BY <2>1, <2>2, HoldsKept
  <2>4. ASSUME NEW l \in DOMAIN held[q] \ crowded'[q] PROVE WholeLine(q, l)'
    <3>1. WholeLine(q, l)
      BY <2>2, <2>4 DEF CrowdOK
    <3>2. l \notin DOMAIN entities
      BY <1>1, <1>7, <2>4 DEF LineHolders
    <3>3. \A p \in Requests : l \in DOMAIN held'[p] => l \in DOMAIN held[p]
      BY <1>2, <1>4, <3>2 DEF Stays
    <3> QED BY <1>1, <2>1, <3>1, <3>3, WholeLineKept
  <2> QED BY <2>1, <2>3, <2>4
<1> QED BY <1>2, <1>5, <1>6, <1>7 DEF CrowdOK

(* A request ends; no row is touched but of a line it held.                *)
LEMMA EndCrowd ==
    ASSUME TypeOK, CrowdOK, NEW r \in Requests, NEW end \in {"done", "failed"},
           Leave(r, end), keys' = keys,
           \A l \in keys : row'[l] = row[l] \/ l \in DOMAIN held[r]
    PROVE  CrowdOK'
<1>1. ~Busy(r)' /\ \A q \in Requests \ {r} : Stays(q)
  BY LeaveFacts
<1>2. /\ DOMAIN held'[r] = {} /\ crowded'[r] = {}
      /\ \A q \in Requests \ {r} : crowded'[q] = crowded[q]
  BY DEF Leave, TypeOK, NoLines
<1>3. HoldsOK(r)'
  BY <1>1, <1>2 DEF HoldsOK
<1>4. ASSUME NEW q \in Requests \ {r}
      PROVE  /\ HoldsOK(q)'
             /\ \A l \in DOMAIN held'[q] \ crowded'[q] : WholeLine(q, l)'
  <2>1. ASSUME NEW l \in DOMAIN held[q] \ crowded[q]
        PROVE  /\ row'[l] = row[l]
               /\ \A p \in Requests : l \in DOMAIN held'[p] => l \in DOMAIN held[p]
    <3>1. WholeLine(q, l)
      BY <2>1 DEF CrowdOK
    <3>2. l \in keys /\ l \notin DOMAIN held[r]
      BY <1>4, <3>1 DEF WholeLine, Found
    <3> QED BY <1>1, <1>2, <3>2 DEF Stays
  <2> QED BY <1>1, <1>2, <2>1, OthersCrowd
<1> QED BY <1>2, <1>3, <1>4 DEF CrowdOK

(* The row that save leaves of a line held alone is the entity: what is    *)
(* not dirty is in the row already.                                        *)
LEMMA MergedWhole ==
    ASSUME NEW old \in Row, NEW entity \in Row
    PROVE  Merged(Columns, old, entity, Differing(Columns, entity, old)) = entity
<1>1. entity = [c \in Columns |-> entity[c]]
  BY DEF Row, Columns
<1>2. \A c \in Columns :
          (IF c \in Differing(Columns, entity, old) THEN entity[c] ELSE old[c])
              = entity[c]
  BY DEF Differing
<1> QED BY <1>1, <1>2 DEF Merged

(* What save does, whether the request ends with it or goes on.            *)
LEMMA CommitFacts ==
    ASSUME IInv, CrowdOK, NEW r \in Requests, Commit(r)
    PROVE  \E l \in DOMAIN held[r] :
               /\ l = ids[r][at[r]] /\ l \in keys /\ l \in Lines
               /\ Busy(r) /\ pc[r] = "saving" /\ kind[r] \in {"update", "resequence"}
               /\ row' = [row EXCEPT ![l] = Merged(Columns, @, Entity(r), dirty[r])]
               /\ UNCHANGED <<keys, orderOf>>
               /\ l \notin crowded[r] => WholeLine(r, l) /\ row'[l] = Entity(r)
               /\ \/ kind[r] = "update" /\ Leave(r, "done")
                  \/ /\ kind[r] = "resequence"
                     /\ pc' = [pc EXCEPT ![r] = pc'[r]]
                     /\ pc'[r] \in {"loaded", "reading"}
                     /\ at' = [at EXCEPT ![r] = at'[r]]
                     /\ dirty' = [dirty EXCEPT ![r] = {}]
                     /\ UNCHANGED <<kind, order, ids, held, newPrice, crowded>>
<1>1. PICK l : l = ids[r][at[r]]
  OBVIOUS
<1>2. TypeOK /\ pc[r] = "saving" /\ Busy(r)
  BY DEF Commit, Busy, IInv
<1>3. Owns(r) /\ InList(r)
  BY <1>2 DEF IInv, HoldersOK
<1>4. l \in DOMAIN held[r] /\ l \in keys /\ l \in Lines
  BY <1>1, <1>2, <1>3 DEF InList, Owns, TypeOK
<1>5. kind[r] \in {"update", "resequence"}
  BY <1>2, <1>3 DEF InList, TypeOK, Kinds
<1>6. /\ row' = [row EXCEPT ![l] = Merged(Columns, @, Entity(r), dirty[r])]
      /\ UNCHANGED <<keys, orderOf>>
  BY <1>1 DEF Commit
<1>7. ASSUME l \notin crowded[r] PROVE WholeLine(r, l) /\ row'[l] = Entity(r)
  <2>1. WholeLine(r, l)
    BY <1>4, <1>7 DEF CrowdOK
  <2>2. dirty[r] = Differing(Columns, Entity(r), row[l])
    BY <1>1, <1>2, <2>1 DEF WholeLine
  <2>3. row[l] \in Row /\ held[r][l] \in Row /\ at[r] \in Nat \ {0}
    BY <1>2, <1>4 DEF TypeOK
  <2>4. Entity(r) \in Row
    BY <1>1, <2>3 DEF Entity, Row
  <2>5. row'[l] = Merged(Columns, row[l], Entity(r), dirty[r])
    BY <1>2, <1>4, <1>6 DEF TypeOK
  <2> QED BY <2>1, <2>2, <2>3, <2>4, <2>5, MergedWhole
<1>8. PICK next : next = NextPlace(ids[r], DOMAIN held[r], at[r] + 1)
  OBVIOUS
<1>9. CASE next > Len(ids[r]) /\ kind[r] = "update" /\ Leave(r, "done")
  BY <1>1, <1>2, <1>4, <1>5, <1>6, <1>7, <1>9
<1>10. CASE /\ next <= Len(ids[r]) \/ kind[r] = "resequence"
            /\ pc' = [pc EXCEPT ![r] = IF next <= Len(ids[r]) THEN "loaded"
                                       ELSE "reading"]
            /\ at' = [at EXCEPT ![r] = next]
            /\ dirty' = [dirty EXCEPT ![r] = {}]
            /\ UNCHANGED <<kind, order, ids, held, newPrice, crowded>>
  <2>1. kind[r] = "resequence"
    <3>1. ASSUME kind[r] # "resequence" PROVE FALSE
      <4>1. Len(ids[r]) = 1 /\ at[r] = 1
        BY <1>2, <1>3, <3>1 DEF InList, TypeOK
      <4>2. next \in Nat /\ at[r] + 1 <= next
        <5>1. at[r] + 1 \in 1..(Len(ids[r]) + 1) /\ ids[r] \in Seq(Lines)
          BY <1>2, <4>1 DEF TypeOK
        <5> QED BY <1>8, <5>1, NextPlaceFacts
      <4> QED BY <1>10, <3>1, <4>1, <4>2
    <3> QED BY <3>1
  <2>2. /\ pc' = [pc EXCEPT ![r] = pc'[r]] /\ pc'[r] \in {"loaded", "reading"}
        /\ at' = [at EXCEPT ![r] = at'[r]]
    BY <1>2, <1>10 DEF TypeOK
  <2> QED BY <1>1, <1>2, <1>4, <1>5, <1>6, <1>7, <1>10, <2>1, <2>2
<1> QED BY <1>8, <1>9, <1>10 DEF Commit

LEMMA CommitCrowd ==
    ASSUME IInv, CrowdOK, NEW r \in Requests, Commit(r)
    PROVE  CrowdOK'
<1>0. TypeOK
  BY DEF IInv
<1>1. PICK l \in DOMAIN held[r] :
          /\ l = ids[r][at[r]] /\ l \in keys /\ l \in Lines
          /\ Busy(r) /\ pc[r] = "saving" /\ kind[r] \in {"update", "resequence"}
          /\ row' = [row EXCEPT ![l] = Merged(Columns, @, Entity(r), dirty[r])]
          /\ UNCHANGED <<keys, orderOf>>
          /\ l \notin crowded[r] => WholeLine(r, l) /\ row'[l] = Entity(r)
          /\ \/ kind[r] = "update" /\ Leave(r, "done")
             \/ /\ kind[r] = "resequence"
                /\ pc' = [pc EXCEPT ![r] = pc'[r]]
                /\ pc'[r] \in {"loaded", "reading"}
                /\ at' = [at EXCEPT ![r] = at'[r]]
                /\ dirty' = [dirty EXCEPT ![r] = {}]
                /\ UNCHANGED <<kind, order, ids, held, newPrice, crowded>>
  BY CommitFacts
<1>2. \A k \in Lines \ {l} : row'[k] = row[k]
  BY <1>0, <1>1 DEF TypeOK
<1>3. CASE Leave(r, "done")
  <2>1. \A k \in keys : row'[k] = row[k] \/ k \in DOMAIN held[r]
    BY <1>0, <1>1, <1>2 DEF TypeOK
  <2> QED BY <1>0, <1>1, <1>3, <2>1, EndCrowd
<1>4. CASE /\ kind[r] = "resequence"
           /\ pc' = [pc EXCEPT ![r] = pc'[r]]
           /\ pc'[r] \in {"loaded", "reading"}
           /\ at' = [at EXCEPT ![r] = at'[r]]
           /\ dirty' = [dirty EXCEPT ![r] = {}]
           /\ UNCHANGED <<kind, order, ids, held, newPrice, crowded>>
  <2>1. Busy(r)' /\ \A q \in Requests \ {r} : Stays(q)
    BY <1>0, <1>4 DEF TypeOK, Stays, Busy
  <2>2. HoldsOK(r)'
    BY <1>1, <1>4, <2>1 DEF CrowdOK, HoldsOK
  <2>3. ASSUME NEW k \in DOMAIN held[r] \ crowded[r] PROVE WholeLine(r, k)'
    <3>1. WholeLine(r, k)
      BY <2>3 DEF CrowdOK
    <3>2. CASE k = l
      <4>1. row'[l] = Entity(r) /\ held[r][l] \in Row
        BY <1>0, <1>1, <2>3, <3>2 DEF TypeOK
      <4>2. /\ row'[l].totalPrice = held[r][l].totalPrice
            /\ row'[l].deleted = held[r][l].deleted
        BY <1>1, <4>1 DEF Entity, Row
      <4>3. row[l].deleted = held[r][l].deleted
        BY <1>4, <3>1, <3>2 DEF WholeLine
      <4>4. Found(l)'
        BY <1>1, <3>1, <3>2, <4>2, <4>3 DEF WholeLine, Found
      <4> QED BY <1>4, <3>1, <3>2, <4>2, <4>4 DEF WholeLine
    <3>3. CASE k # l
      <4>1. k \in keys /\ k \in Lines
        BY <1>0, <3>1 DEF WholeLine, Found, TypeOK
      <4>2. row'[k] = row[k] /\ Found(k)'
        BY <1>1, <1>2, <3>1, <3>3, <4>1 DEF WholeLine, Found
      <4> QED BY <1>4, <3>1, <4>2 DEF WholeLine
    <3> QED BY <3>2, <3>3
  <2>4. ASSUME NEW q \in Requests \ {r}
        PROVE  /\ HoldsOK(q)'
               /\ \A k \in DOMAIN held'[q] \ crowded'[q] : WholeLine(q, k)'
    <3>1. ASSUME NEW k \in DOMAIN held[q] \ crowded[q] PROVE row'[k] = row[k]
      <4>1. WholeLine(q, k)
        BY <3>1 DEF CrowdOK
      <4>2. k # l /\ k \in Lines
        BY <1>0, <1>1, <2>4, <4>1 DEF WholeLine, Found, TypeOK
      <4> QED BY <1>2, <4>2
    <3> QED BY <1>1, <1>4, <2>1, <3>1, OthersCrowd
  <2> QED BY <1>4, <2>2, <2>3, <2>4 DEF CrowdOK
<1> QED BY <1>1, <1>3, <1>4

(* Every step keeps whole what is held alone.                              *)
LEMMA StepCrowd == IInv /\ CrowdOK /\ [Next]_vars => CrowdOK'
<1> SUFFICES ASSUME IInv, CrowdOK, [Next]_vars PROVE CrowdOK'
  OBVIOUS
<1>0. TypeOK
  BY DEF IInv
<1>1. ASSUME NEW new \in SUBSET Lines, NEW dtos \in [new -> CreateDtos],
             Insert(new, dtos)
      PROVE  CrowdOK'
  <2>1. /\ keys \subseteq keys' /\ UNCHANGED <<requestVars, crowded>>
        /\ \A l \in keys : row'[l] = row[l]
    BY <1>0, <1>1 DEF Insert, TypeOK
  <2>2. \A q \in Requests : Stays(q)
    BY <2>1 DEF Stays, requestVars
  <2>3. ASSUME NEW q \in Requests, NEW l \in DOMAIN held[q] \ crowded[q]
        PROVE  row'[l] = row[l]
    BY <2>1 DEF CrowdOK, WholeLine, Found
  <2>4. held' = held
    BY <2>1 DEF requestVars
  <2> QED BY <2>1, <2>2, <2>3, <2>4, OthersCrowd DEF CrowdOK
<1>2. ASSUME NEW r \in Requests, NEW l \in Lines, NEW dto \in UpdateDtos,
             StartUpdate(r, l, dto)
      PROVE  CrowdOK'
  <2>1. Grasped("update", <<l>>, [k \in {l} |-> Updated(row[l], dto)])
    BY <1>2 DEF StartUpdate, Grasped
  <2> QED BY <1>0, <1>2, <2>1, LoadCrowd DEF StartUpdate
<1>3. ASSUME NEW r \in Requests, NEW l \in Lines, StartRemove(r, l)
      PROVE  CrowdOK'
  <2>1. Grasped("remove", <<l>>, [k \in {l} |-> row[l]])
    BY <1>3 DEF StartRemove, Grasped
  <2> QED BY <1>0, <1>3, <2>1, LoadCrowd DEF StartRemove
<1>4. ASSUME NEW r \in Requests, NEW o \in Orders, NEW list \in Lists,
             StartResequence(r, o, list)
      PROVE  CrowdOK'
  <2>1. Grasped("resequence", list, [l \in LinesOf(o) |-> row[l]])
    BY DEF Grasped, LinesOf
  <2> QED BY <1>0, <1>4, <2>1, LoadCrowd DEF StartResequence
<1>5. ASSUME NEW r \in Requests, Reject(r) PROVE CrowdOK'
  <2>1. /\ ~Busy(r) /\ ~Busy(r)'
        /\ UNCHANGED <<keys, row, kind, ids, held, at, dirty, crowded>>
        /\ \A q \in Requests \ {r} : Stays(q)
    BY <1>0, <1>5 DEF Reject, tableVars, TypeOK, Busy, Stays
  <2>2. DOMAIN held[r] = {} /\ HoldsOK(r)'
    BY <2>1 DEF CrowdOK, HoldsOK
  <2> QED BY <2>1, <2>2, OthersCrowd DEF CrowdOK
<1>6. ASSUME NEW r \in Requests, Compare(r) PROVE CrowdOK'
  <2>1. /\ pc[r] = "loaded" /\ pc'[r] = "saving"
        /\ dirty'[r] = Differing(Columns, Entity(r), row[ids[r][at[r]]])
        /\ UNCHANGED <<keys, row, kind, ids, held, at, crowded>>
        /\ \A q \in Requests \ {r} : Stays(q)
    BY <1>0, <1>6 DEF Compare, tableVars, TypeOK, Stays
  <2>2. Busy(r) /\ Busy(r)' /\ Entity(r)' = Entity(r)
    BY <2>1 DEF Busy, Entity
  <2>3. HoldsOK(r)'
    BY <2>1, <2>2 DEF CrowdOK, HoldsOK
  <2>4. ASSUME NEW l \in DOMAIN held[r] \ crowded[r] PROVE WholeLine(r, l)'
    <3>1. WholeLine(r, l)
      BY <2>4 DEF CrowdOK
    <3> QED BY <2>1, <2>2, <3>1 DEF WholeLine, Found
  <2> QED BY <2>1, <2>3, <2>4, OthersCrowd DEF CrowdOK
<1>7. ASSUME NEW r \in Requests, Commit(r) PROVE CrowdOK'
  BY <1>7, CommitCrowd
<1>8. ASSUME NEW r \in Requests, SoftDelete(r) PROVE CrowdOK'
  <2>1. pc[r] = "removing" /\ Busy(r)
    BY <1>8 DEF SoftDelete, Busy
  <2>2. kind[r] = "remove" /\ DOMAIN held[r] = {ids[r][1]}
    BY <2>1 DEF IInv, HoldersOK, InList, CrowdOK, HoldsOK
  <2>3. \A l \in keys : row'[l] = row[l] \/ l \in DOMAIN held[r]
    BY <1>0, <1>8, <2>2 DEF SoftDelete, TypeOK
  <2> QED BY <1>0, <1>8, <2>3, EndCrowd DEF SoftDelete
<1>9. ASSUME NEW r \in Requests, Answer(r) \/ Fail(r) PROVE CrowdOK'
  BY <1>0, <1>9, EndCrowd DEF Answer, Fail, tableVars
<1>10. CASE UNCHANGED vars
  <2>1. UNCHANGED <<keys, row, held, crowded>> /\ \A q \in Requests : Stays(q)
    BY <1>10 DEF vars, tableVars, requestVars, Stays
  <2> QED BY <2>1, OthersCrowd DEF CrowdOK
<1> QED
  BY <1>1, <1>2, <1>3, <1>4, <1>5, <1>6, <1>7, <1>8, <1>9, <1>10
     DEF Next, NotFound, Mismatch

(* What is contended is held, and what is held is there.                   *)
LEMMA ContendedLines ==
    /\ Contended = {l \in Lines : \E q \in Requests : l \in crowded[q]} \/ ~TypeOK
    /\ IInv /\ CrowdOK => Contended \subseteq keys
    /\ IInv' /\ CrowdOK' => Contended' \subseteq keys'
<1>1. Contended = {l \in Lines : \E q \in Requests : l \in crowded[q]} \/ ~TypeOK
  BY DEF Contended, TypeOK
<1>2. ASSUME IInv, CrowdOK, NEW q \in Requests PROVE crowded[q] \subseteq keys
  BY <1>2 DEF IInv, HoldersOK, Owns, CrowdOK, HoldsOK
<1>3. ASSUME IInv', CrowdOK', NEW q \in Requests PROVE crowded'[q] \subseteq keys'
  BY <1>3 DEF IInv, HoldersOK, Owns, CrowdOK, HoldsOK
<1> QED BY <1>1, <1>2, <1>3 DEF Contended

(* A line of the table changes with its row and its order.                 *)
LEMMA SameLine ==
    ASSUME NEW l, row'[l] = row[l], orderOf'[l] = orderOf[l]
    PROVE  Line(l)' = Line(l)
BY DEF Line

(* A step that writes contended lines at most is one of their races.       *)
LEMMA RaceStep ==
    ASSUME IInv', CrowdOK', keys' = keys, orderOf' = orderOf,
           \A l \in keys : l \notin Contended => row'[l] = row[l]
    PROVE  Atomic!Race
<1>1. Contended' \subseteq keys
  BY ContendedLines
<1>2. ASSUME NEW l \in keys
      PROVE  /\ l \notin Contended => Line(l)' = Line(l)
             /\ Line(l)'.orderId = Line(l).orderId
  BY SameLine DEF Line
<1> QED BY <1>1, <1>2 DEF Atomic!Race

(* Inserting disturbs nobody.                                              *)
LEMMA InsertAtomic ==
    ASSUME TypeOK, NEW new \in SUBSET Lines, NEW dtos \in [new -> CreateDtos],
           Insert(new, dtos)
    PROVE  Atomic!Insert(new, dtos)
<1>1. /\ new \cap keys = {} /\ keys' = keys \cup new
      /\ \A l \in keys : row'[l] = row[l] /\ orderOf'[l] = orderOf[l]
      /\ \A l \in new :
             /\ orderOf'[l] = dtos[l].orderId
             /\ row'[l] = [Blank EXCEPT !.sequence = dtos[l].sequence,
                                        !.totalPrice = dtos[l].totalPrice]
      /\ UNCHANGED crowded
  BY DEF Insert, TypeOK
<1>2. Contended' = Contended
  BY <1>1 DEF Contended
<1>3. \A l \in keys : Line(l)' = Line(l)
  BY <1>1, SameLine
<1>4. \A l \in new : Line(l)' = [orderId    |-> dtos[l].orderId,
                                 sequence   |-> dtos[l].sequence,
                                 totalPrice |-> dtos[l].totalPrice,
                                 deleted    |-> FALSE]
  BY <1>1 DEF Line, Blank
<1> QED BY <1>1, <1>2, <1>3, <1>4 DEF Atomic!Insert

(* A step that writes one live line and leaves the races as they are.      *)
LEMMA OnlyStep ==
    ASSUME NEW l \in keys, keys' = keys, orderOf' = orderOf, crowded' = crowded,
           ~row[l].deleted, \A k \in keys \ {l} : row'[k] = row[k]
    PROVE  Atomic!Live(l) /\ Atomic!Only(l) /\ Contended' = Contended
<1>1. \A k \in keys \ {l} : Line(k)' = Line(k)
  BY SameLine
<1>2. ~Line(l).deleted
  BY DEF Line
<1> QED BY <1>1, <1>2 DEF Atomic!Live, Atomic!Only, Contended

LEMMA UpdateAtomic ==
    ASSUME NEW l \in keys, NEW dto \in UpdateDtos, row[l] \in Row,
           row'[l] = Updated(row[l], dto), orderOf' = orderOf,
           keys' = keys, crowded' = crowded,
           ~row[l].deleted, \A k \in keys \ {l} : row'[k] = row[k]
    PROVE  Atomic!Update(l, dto)
<1>1. Atomic!Live(l) /\ Atomic!Only(l) /\ Contended' = Contended
  BY OnlyStep
<1>2. /\ row'[l].sequence = IF dto.sequence = -1 THEN row[l].sequence ELSE dto.sequence
      /\ row'[l].totalPrice = IF dto.totalPrice = -1 THEN row[l].totalPrice
                              ELSE dto.totalPrice
      /\ row'[l].deleted = row[l].deleted
  BY DEF Updated, Row
<1>3. /\ \A c \in {"sequence", "totalPrice"} :
             Line(l)'[c] = IF dto[c] = -1 THEN Line(l)[c] ELSE dto[c]
      /\ \A c \in {"orderId", "deleted"} : Line(l)'[c] = Line(l)[c]
  BY <1>2 DEF Line
<1> QED BY <1>1, <1>3 DEF Atomic!Update

LEMMA MoveAtomic ==
    ASSUME NEW l \in keys, row[l] \in Row, row'[l] \in Row,
           row'[l].totalPrice = row[l].totalPrice, row'[l].deleted = row[l].deleted,
           orderOf' = orderOf, keys' = keys, crowded' = crowded,
           ~row[l].deleted, \A k \in keys \ {l} : row'[k] = row[k]
    PROVE  Atomic!Move(l)
<1>1. Atomic!Live(l) /\ Atomic!Only(l) /\ Contended' = Contended
  BY OnlyStep
<1>2. Line(l)' = [Line(l) EXCEPT !.sequence = Line(l)'.sequence]
  BY DEF Line
<1>3. Line(l)'.sequence \in Nat
  BY DEF Line, Row
<1> QED BY <1>1, <1>2, <1>3 DEF Atomic!Move

LEMMA CommitAtomic ==
    ASSUME IInv, IInv', CrowdOK, CrowdOK', NEW r \in Requests, Commit(r)
    PROVE  [Atomic!Next]_Atomic!avars
<1>0. TypeOK /\ TypeOK'
  BY DEF IInv
<1>1. PICK l \in DOMAIN held[r] :
          /\ l = ids[r][at[r]] /\ l \in keys /\ l \in Lines
          /\ Busy(r) /\ pc[r] = "saving" /\ kind[r] \in {"update", "resequence"}
          /\ row' = [row EXCEPT ![l] = Merged(Columns, @, Entity(r), dirty[r])]
          /\ UNCHANGED <<keys, orderOf>>
          /\ l \notin crowded[r] => WholeLine(r, l) /\ row'[l] = Entity(r)
          /\ \/ kind[r] = "update" /\ Leave(r, "done")
             \/ /\ kind[r] = "resequence"
                /\ pc' = [pc EXCEPT ![r] = pc'[r]]
                /\ pc'[r] \in {"loaded", "reading"}
                /\ at' = [at EXCEPT ![r] = at'[r]]
                /\ dirty' = [dirty EXCEPT ![r] = {}]
                /\ UNCHANGED <<kind, order, ids, held, newPrice, crowded>>
  BY CommitFacts
<1>2. \A k \in keys \ {l} : k \in Lines /\ row'[k] = row[k]
  BY <1>0, <1>1 DEF TypeOK
<1>3. CASE l \in crowded[r]
  <2>1. l \in Contended
    BY <1>3 DEF Contended
  <2>2. Atomic!Race
    BY <1>1, <1>2, <2>1, RaceStep
  <2> QED BY <2>2 DEF Atomic!Next
<1>4. CASE l \notin crowded[r]
  <2>1. /\ WholeLine(r, l) /\ row'[l] = Entity(r) /\ ~row[l].deleted
        /\ row[l] \in Row /\ row'[l] \in Row /\ held[r][l] \in Row
    BY <1>0, <1>1, <1>4 DEF WholeLine, Found, TypeOK
  <2>2. CASE kind[r] = "update"
    <3>1. crowded[r] = {}
      BY <1>1, <1>4, <2>2 DEF CrowdOK, HoldsOK
    <3>2. crowded' = crowded
      <4>1. Leave(r, "done")
        BY <1>1, <2>2
      <4>2. crowded' = [crowded EXCEPT ![r] = {}]
        BY <4>1 DEF Leave
      <4> QED BY <1>0, <3>1, <4>2 DEF TypeOK
    <3>3. row'[l] = held[r][l]
      BY <1>1, <2>1, <2>2 DEF Entity
    <3>4. PICK dto \in UpdateDtos : row'[l] = Updated(row[l], dto)
      BY <2>1, <2>2, <3>3 DEF WholeLine
    <3>5. Atomic!Update(l, dto)
      BY <1>1, <1>2, <2>1, <3>2, <3>4, UpdateAtomic
    <3> QED BY <1>1, <3>5 DEF Atomic!Next
  <2>3. CASE kind[r] = "resequence"
    <3>1. /\ Entity(r).totalPrice = held[r][l].totalPrice
          /\ Entity(r).deleted = held[r][l].deleted
      BY <1>1, <2>1 DEF Entity, Row
    <3>2. /\ row'[l].totalPrice = row[l].totalPrice
          /\ row'[l].deleted = row[l].deleted
      BY <2>1, <2>3, <3>1 DEF WholeLine
    <3>3. Atomic!Move(l)
      BY <1>1, <1>2, <2>1, <2>3, <3>2, MoveAtomic
    <3> QED BY <1>1, <3>3 DEF Atomic!Next
  <2> QED BY <1>1, <2>2, <2>3
<1> QED BY <1>3, <1>4

LEMMA SoftDeleteAtomic ==
    ASSUME IInv, IInv', CrowdOK, CrowdOK', NEW r \in Requests, SoftDelete(r)
    PROVE  [Atomic!Next]_Atomic!avars
<1>0. TypeOK
  BY DEF IInv
<1>1. pc[r] = "removing" /\ Busy(r)
  BY DEF SoftDelete, Busy
<1>2. kind[r] = "remove" /\ DOMAIN held[r] = {ids[r][1]} /\ DOMAIN held[r] \subseteq keys
  BY <1>1 DEF IInv, HoldersOK, InList, Owns, CrowdOK, HoldsOK
<1>3. PICK l \in keys : l = ids[r][1]
  BY <1>2
<1>4. /\ l \in Lines /\ keys' = keys /\ orderOf' = orderOf
      /\ row'[l] = [row[l] EXCEPT !.deleted = TRUE]
      /\ \A k \in keys \ {l} : row'[k] = row[k]
  BY <1>0, <1>3 DEF SoftDelete, TypeOK
<1>5. CASE l \in crowded[r]
  <2>1. l \in Contended
    BY <1>5 DEF Contended
  <2>2. Atomic!Race
    BY <1>4, <2>1, RaceStep
  <2> QED BY <2>2 DEF Atomic!Next
<1>6. CASE l \notin crowded[r]
  <2>1. ~row[l].deleted /\ row[l] \in Row
    BY <1>0, <1>2, <1>3, <1>4, <1>6 DEF CrowdOK, WholeLine, Found, TypeOK
  <2>2. crowded[r] = {}
    BY <1>2, <1>3, <1>6 DEF CrowdOK, HoldsOK
  <2>3. crowded' = crowded
    BY <1>0, <2>2 DEF SoftDelete, Leave, TypeOK
  <2>4. Atomic!Live(l) /\ Atomic!Only(l) /\ Contended' = Contended
    BY <1>4, <2>1, <2>3, OnlyStep
  <2>5. Line(l)' = [Line(l) EXCEPT !.deleted = TRUE]
    <3>1. /\ row'[l].sequence = row[l].sequence
          /\ row'[l].totalPrice = row[l].totalPrice
          /\ row'[l].deleted = TRUE
      BY <1>4, <2>1 DEF Row
    <3>2. orderOf'[l] = orderOf[l]
      BY <1>4
    <3>3. Line(l)' = [Line(l) EXCEPT !.deleted = Line(l)'.deleted]
      BY <3>1, <3>2 DEF Line
    <3>4. Line(l)'.deleted = TRUE
      BY <3>1 DEF Line
    <3> QED BY <3>3, <3>4
  <2>6. Atomic!Remove(l)
    BY <1>4, <2>4, <2>5 DEF Atomic!Remove
  <2> QED BY <1>4, <2>6 DEF Atomic!Next
<1> QED BY <1>5, <1>6

(* Every step is one the client may see.                                   *)
LEMMA StepAtomic ==
    ASSUME IInv, IInv', CrowdOK, CrowdOK', [Next]_vars
    PROVE  [Atomic!Next]_Atomic!avars
<1>1. ASSUME NEW new \in SUBSET Lines, NEW dtos \in [new -> CreateDtos],
             Insert(new, dtos)
      PROVE  [Atomic!Next]_Atomic!avars
  <2>1. Atomic!Insert(new, dtos)
    BY <1>1, InsertAtomic DEF IInv
  <2> QED BY <2>1 DEF Atomic!Next
<1>2. ASSUME UNCHANGED tableVars PROVE [Atomic!Next]_Atomic!avars
  <2>1. Atomic!Race
    BY <1>2, RaceStep DEF tableVars
  <2> QED BY <2>1 DEF Atomic!Next
<1>3. ASSUME NEW r \in Requests, NEW l \in Lines, NEW dto,
             StartUpdate(r, l, dto) \/ StartRemove(r, l)
      PROVE  [Atomic!Next]_Atomic!avars
  BY <1>2, <1>3 DEF StartUpdate, StartRemove, Load
<1>4. ASSUME NEW r \in Requests, NEW o \in Orders, NEW list, StartResequence(r, o, list)
      PROVE  [Atomic!Next]_Atomic!avars
  BY <1>2, <1>4 DEF StartResequence, Load
<1>5. ASSUME NEW r \in Requests, Reject(r) \/ Compare(r) \/ Answer(r) \/ Fail(r)
      PROVE  [Atomic!Next]_Atomic!avars
  BY <1>2, <1>5 DEF Reject, Compare, Answer, Fail
<1>6. ASSUME NEW r \in Requests, Commit(r) \/ SoftDelete(r)
      PROVE  [Atomic!Next]_Atomic!avars
  BY <1>6, CommitAtomic, SoftDeleteAtomic
<1>7. CASE UNCHANGED vars
  BY <1>2, <1>7 DEF vars
<1> QED
  BY <1>1, <1>3, <1>4, <1>5, <1>6, <1>7 DEF Next, NotFound, Mismatch

(* A request that shares a line with no other changes it atomically: the   *)
(* order lines implement AtomicLines.                                      *)
THEOREM ImplementsAtomicLines == Spec => LoneChangesAreAtomic
<1>1. Init => CrowdOK
  BY DEF Init, CrowdOK, HoldsOK, Busy, NoLines
<1>2. Init => Atomic!Init
  BY DEF Init, Atomic!Init, Contended
<1>3. IInv /\ CrowdOK /\ [Next]_vars => CrowdOK'
  BY StepCrowd
<1>4. IInv /\ IInv' /\ CrowdOK /\ CrowdOK' /\ [Next]_vars => [Atomic!Next]_Atomic!avars
  BY StepAtomic
<1> QED
  BY <1>1, <1>2, <1>3, <1>4, Invariance, PTL
  DEF Spec, LoneChangesAreAtomic, Atomic!Spec

=============================================================================
