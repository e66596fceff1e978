------------------------- MODULE EnrichedOrdersProofs -------------------------
(***************************************************************************)
(* What the cache of enriched orders promises for all tables, queries,     *)
(* limits and patterns, however requests, sweeps and writes interleave:    *)
(* entries answer their query, they announce a next page when there is     *)
(* one, and pages fit together.  A sweep that has ended has deleted what   *)
(* its pattern found if the key prefix is the one that the code cuts off,  *)
(* and never deletes anything if it is another.                            *)
(***************************************************************************)
EXTENDS EnrichedOrders, FiniteSetTheorems, SequenceTheorems, TLAPS

-----------------------------------------------------------------------------
(* Tables and their pages.                                                 *)

Row == [id : Ids, content : Contents]

LEMMA TableDomain ==
    ASSUME NEW t \in Tables
    PROVE  DOMAIN t \subseteq Ids /\ t \in [DOMAIN t -> Contents]
BY DEF Tables

LEMMA TotalTyped ==
    ASSUME NEW t \in Tables
    PROVE  Cardinality(DOMAIN t) \in Nat
BY TableDomain, IdsAssumption, FS_Subset, FS_CardinalityType

LEMMA WhereTable ==
    ASSUME NEW t \in Tables, NEW f
    PROVE  /\ Where(t, f) \in Tables
           /\ DOMAIN Where(t, f) \subseteq DOMAIN t
<1> DEFINE S == {o \in DOMAIN t : <<o, t[o]>> \in Selects[f]}
<1>1. Where(t, f) = [o \in S |-> t[o]]
  BY DEF Where, Restrict
<1>2. S \in SUBSET Ids /\ S \subseteq DOMAIN t /\ \A o \in S : t[o] \in Contents
  BY TableDomain
<1> HIDE DEF S
<1>3. [o \in S |-> t[o]] \in [S -> Contents]
  BY <1>2
<1> QED BY <1>1, <1>2, <1>3 DEF Tables

LEMMA TotalItemsTyped ==
    ASSUME NEW t \in Tables, NEW q
    PROVE  TotalItems(t, q) \in Nat
BY WhereTable, TotalTyped DEF TotalItems

LEMMA LimitTyped ==
    ASSUME NEW q \in Queries
    PROVE  /\ Limit(q) \in Nat \ {0} /\ q.page \in Nat \ {0}
           /\ Offset(q) \in Nat
<1>1. q.page \in Nat \ {0} /\ q.limit \in Nat \ {0}
  BY QueryAssumption
<1>2. Limit(q) \in Nat \ {0}
  BY <1>1, BoundsAssumption DEF Limit
<1>3. PICK k \in Nat, l \in Nat : k = q.page - 1 /\ l = Limit(q)
  BY <1>1, <1>2
<1>4. k * l \in Nat
  OBVIOUS
<1> QED BY <1>1, <1>2, <1>3, <1>4 DEF Offset

(* What LIMIT and OFFSET leave of the rows, and how many.                  *)
LEMMA SliceOf ==
    ASSUME NEW S, NEW s \in Seq(S), NEW q \in Queries
    PROVE  /\ Slice(s, q) \in Seq(S)
           /\ Len(Slice(s, q)) =
                  IF Offset(q) >= Len(s) THEN 0
                  ELSE IF Offset(q) + Limit(q) < Len(s) THEN Limit(q)
                  ELSE Len(s) - Offset(q)
<1>1. PICK o \in Nat, l \in Nat \ {0}, len \in Nat :
          o = Offset(q) /\ l = Limit(q) /\ len = Len(s)
  BY LimitTyped
<1> DEFINE n == IF o + l < len THEN o + l ELSE len
<1>2. Slice(s, q) = SubSeq(s, o + 1, n)
  BY <1>1 DEF Slice
<1>3. CASE o >= len
  <2>1. n = len
    BY <1>3
  <2>2. SubSeq(s, o + 1, n) = <<>>
    BY <1>1, <1>3, <2>1
  <2> QED BY <1>1, <1>2, <1>3, <2>2
<1>4. CASE o < len
  <2>1. o + 1 \in 1 .. Len(s) + 1 /\ n \in (o + 1) - 1 .. Len(s)
    BY <1>1, <1>4
  <2>2. SubSeq(s, o + 1, n) \in Seq(S) /\ Len(SubSeq(s, o + 1, n)) = n - (o + 1) + 1
    BY <2>1, SubSeqProperties
  <2>3. n - (o + 1) + 1 = IF o + l < len THEN l ELSE len - o
    BY <1>4
  <2> QED BY <1>1, <1>2, <1>4, <2>2, <2>3
<1> QED BY <1>1, <1>3, <1>4

LEMMA PageOf ==
    ASSUME NEW t \in Tables, NEW q \in Queries, NEW rows \in Pages(t, q)
    PROVE  /\ rows \in Seq(Row)
           /\ Len(rows) =
                  IF Offset(q) >= TotalItems(t, q) THEN 0
                  ELSE IF Offset(q) + Limit(q) < TotalItems(t, q) THEN Limit(q)
                  ELSE TotalItems(t, q) - Offset(q)
<1>1. PICK w \in Tables : w = Where(t, q.filter) /\ DOMAIN w \subseteq DOMAIN t
  BY WhereTable
<1>2. PICK c \in Nat : c = Cardinality(DOMAIN w) /\ c = TotalItems(t, q)
  BY <1>1, TotalTyped DEF TotalItems
<1>3. PICK s \in Sortings(w) :
          rows = [i \in DOMAIN Slice(s, q) |->
                     [id |-> Slice(s, q)[i], content |-> t[Slice(s, q)[i]]]]
  BY <1>1 DEF Pages
<1>4. s \in Seq(DOMAIN w) /\ Len(s) = c
  <2>1. s \in [1 .. c -> DOMAIN w]
    BY <1>2 DEF Sortings
  <2> QED BY <2>1
<1>5. PICK p : p = Slice(s, q)
  OBVIOUS
<1>6. p \in Seq(DOMAIN w)
  BY <1>4, <1>5, SliceOf
<1>7. \A i \in DOMAIN p : [id |-> p[i], content |-> t[p[i]]] \in Row
  <2>1. \A o \in DOMAIN w : o \in Ids /\ t[o] \in Contents
    BY <1>1, TableDomain
  <2> QED BY <1>6, <2>1 DEF Row
<1>8. rows = [i \in 1 .. Len(p) |-> [id |-> p[i], content |-> t[p[i]]]]
  BY <1>3, <1>5, <1>6
<1>9. rows \in Seq(Row) /\ Len(rows) = Len(p)
  BY <1>6, <1>7, <1>8
<1>10. Len(p) = IF Offset(q) >= c THEN 0
                ELSE IF Offset(q) + Limit(q) < c THEN Limit(q)
                ELSE c - Offset(q)
  BY <1>4, <1>5, SliceOf
<1> QED BY <1>2, <1>9, <1>10

(* The rows of a page are those of a sorting behind its offset.            *)
LEMMA RowsOf ==
    ASSUME NEW t \in Tables, NEW q \in Queries, NEW rows \in Pages(t, q)
    PROVE  \E s \in Sortings(Where(t, q.filter)) : \A a \in Range(rows) :
               \E n \in 1 .. Cardinality(DOMAIN Where(t, q.filter)) :
                   n > Offset(q) /\ n <= Offset(q) + Limit(q) /\ a.id = s[n]
<1>1. PICK w \in Tables : w = Where(t, q.filter)
  BY WhereTable
<1>2. PICK c \in Nat : c = Cardinality(DOMAIN w)
  BY TotalTyped
<1>3. PICK s \in Sortings(w) :
          rows = [i \in DOMAIN Slice(s, q) |->
                     [id |-> Slice(s, q)[i], content |-> t[Slice(s, q)[i]]]]
  BY <1>1 DEF Pages
<1>4. PICK o \in Nat, l \in Nat \ {0} : o = Offset(q) /\ l = Limit(q)
  BY LimitTyped
<1>5. s \in Seq(DOMAIN w) /\ Len(s) = c
  <2>1. s \in [1 .. c -> DOMAIN w]
    BY <1>2 DEF Sortings
  <2> QED BY <2>1
<1> DEFINE n == IF o + l < c THEN o + l ELSE c
<1>6. Slice(s, q) = SubSeq(s, o + 1, n)
  BY <1>4, <1>5 DEF Slice
<1>7. ASSUME NEW i \in DOMAIN SubSeq(s, o + 1, n)
      PROVE  /\ i + o \in 1 .. c /\ i + o > o /\ i + o <= o + l
             /\ SubSeq(s, o + 1, n)[i] = s[i + o]
  <2>1. i \in 1 .. n - o
    BY <1>5
  <2> QED BY <1>5, <2>1
<1>8. ASSUME NEW a \in Range(rows)
      PROVE  \E k \in 1 .. c : k > o /\ k <= o + l /\ a.id = s[k]
  <2>1. PICK i \in DOMAIN SubSeq(s, o + 1, n) : a.id = SubSeq(s, o + 1, n)[i]
    BY <1>3, <1>6, <1>8 DEF Range
  <2> QED BY <1>7, <2>1
<1> QED BY <1>1, <1>2, <1>3, <1>4, <1>8

(* A sorting lists every row.                                              *)
LEMMA SortingsListAll ==
    ASSUME NEW w \in Tables, NEW s \in Sortings(w)
    PROVE  \A o \in DOMAIN w : \E n \in 1 .. Cardinality(DOMAIN w) : s[n] = o
<1>1. IsFiniteSet(DOMAIN w)
  BY TableDomain, IdsAssumption, FS_Subset
<1>2. PICK c \in Nat : c = Cardinality(DOMAIN w)
  BY TotalTyped
<1>3. s \in Injection(1 .. c, DOMAIN w)
  BY <1>2 DEF Sortings, Injection
<1>4. Cardinality(1 .. c) = c
  BY FS_Interval
<1>5. s \in Surjection(1 .. c, DOMAIN w)
  BY <1>1, <1>2, <1>3, <1>4, FS_Injection
<1> QED BY <1>2, <1>5 DEF Surjection

(* If the first m rows of one sorting are all among the first n of another, *)
(* m is at most n.                                                         *)
Among(u, m, s, n) == \A k \in 1 .. m : \E x \in 1 .. n : s[x] = u[k]

LEMMA Crowded ==
    ASSUME NEW w \in Tables, NEW s \in Sortings(w), NEW u \in Sortings(w),
           NEW m \in 0 .. Cardinality(DOMAIN w), NEW n \in Nat,
           Among(u, m, s, n)
    PROVE  m <= n
<1>1. PICK c \in Nat : c = Cardinality(DOMAIN w)
  BY TotalTyped
<1>2. m \in 0 .. c
  BY <1>1
<1> SUFFICES ASSUME n < m PROVE FALSE
  BY <1>2
<1> DEFINE g == [k \in 1 .. m |-> CHOOSE x \in 1 .. n : s[x] = u[k]]
<1>3. PICK S, T : S = 1 .. m /\ T = 1 .. n
  OBVIOUS
<1>4. PICK f \in [S -> T] : \A k \in S : s[f[k]] = u[k]
  <2>1. \A k \in S : g[k] \in T /\ s[g[k]] = u[k]
    BY <1>3 DEF Among
  <2>2. g \in [S -> T]
    BY <1>3, <2>1
  <2> QED BY <2>1, <2>2
<1>5. /\ IsFiniteSet(S) /\ IsFiniteSet(T)
      /\ Cardinality(T) < Cardinality(S)
  <2>1. ASSUME NEW k \in Nat
        PROVE  IsFiniteSet(1 .. k) /\ Cardinality(1 .. k) = k
    <3>1. Cardinality(1 .. k) = IF 1 > k THEN 0 ELSE k - 1 + 1
      BY FS_Interval
    <3>2. IsFiniteSet(1 .. k)
      BY FS_Interval
    <3> QED BY <3>1, <3>2
  <2>2. m \in Nat
    BY <1>2
  <2>3. IsFiniteSet(S) /\ Cardinality(S) = m /\ IsFiniteSet(T) /\ Cardinality(T) = n
    BY <1>3, <2>1, <2>2
  <2> QED BY <2>2, <2>3
<1>6. PICK j, k \in S : j # k /\ f[j] = f[k]
  BY <1>5, FS_PigeonHole
<1>7. u[j] = u[k] /\ j \in 1 .. c /\ k \in 1 .. c
  BY <1>2, <1>3, <1>4, <1>6
<1>8. DOMAIN u = 1 .. c /\ IsInjective(u)
  BY <1>1 DEF Sortings
<1> QED BY <1>6, <1>7, <1>8 DEF IsInjective

(* What comes earlier in one sorting than something in another is not      *)
(* older, and is something else unless rows are tied.                      *)
LEMMA EarlierIsNotOlder ==
    ASSUME NEW w \in Tables, NEW s \in Sortings(w), NEW u \in Sortings(w),
           NEW i \in 1 .. Cardinality(DOMAIN w), NEW j \in 1 .. Cardinality(DOMAIN w),
           i < j
    PROVE  /\ OrderTime[s[i]] >= OrderTime[u[j]]
           /\ s[i] = u[j] => Tied(w, s[i])
<1>1. PICK c \in Nat : c = Cardinality(DOMAIN w)
  BY TotalTyped
<1>2. /\ s \in [1 .. c -> DOMAIN w] /\ u \in [1 .. c -> DOMAIN w] /\ IsInjective(u)
      /\ \A x, y \in 1 .. c : x < y => OrderTime[s[x]] >= OrderTime[s[y]]
      /\ \A x, y \in 1 .. c : x < y => OrderTime[u[x]] >= OrderTime[u[y]]
  BY <1>1 DEF Sortings
<1>3. i \in 1 .. c /\ j \in 1 .. c
  BY <1>1
<1>4. \A o \in DOMAIN w : OrderTime[o] \in Nat
  BY TableDomain, IdsAssumption
<1>5. ASSUME NEW k \in 1 .. c, OrderTime[u[k]] > OrderTime[s[i]]
      PROVE  \E x \in 1 .. i - 1 : s[x] = u[k]
  <2>1. PICK x \in 1 .. c : s[x] = u[k]
    BY <1>1, <1>2, SortingsListAll
  <2>2. OrderTime[s[x]] \in Nat /\ OrderTime[s[i]] \in Nat
    BY <1>2, <1>3, <1>4
  <2>3. x < i
    <3>1. CASE x = i
      BY <1>5, <2>1, <2>2, <3>1
    <3>2. CASE x > i
      BY <1>2, <1>3, <1>5, <2>1, <2>2, <3>2
    <3> QED BY <1>3, <3>1, <3>2
  <2> QED BY <1>3, <2>1, <2>3
<1>6. i - 1 \in Nat /\ j \in 0 .. c /\ j - 1 \in 0 .. c
  BY <1>3
<1>7. OrderTime[s[i]] \in Nat /\ \A k \in 1 .. c : OrderTime[u[k]] \in Nat
  BY <1>2, <1>3, <1>4
<1>8. OrderTime[s[i]] >= OrderTime[u[j]]
  <2> SUFFICES ASSUME OrderTime[u[j]] > OrderTime[s[i]] PROVE FALSE
    BY <1>3, <1>7
  <2>1. ASSUME NEW k \in 1 .. j PROVE \E x \in 1 .. i - 1 : s[x] = u[k]
    <3>1. k \in 1 .. c /\ (k = j \/ k < j)
      BY <1>3
    <3>2. OrderTime[u[k]] >= OrderTime[u[j]]
      BY <1>2, <1>3, <1>7, <3>1
    <3>3. OrderTime[u[k]] > OrderTime[s[i]]
      BY <1>3, <1>7, <3>1, <3>2
    <3> QED BY <1>5, <3>1, <3>3
  <2>2. PICK n \in Nat : n = i - 1
    BY <1>6
  <2>3. j \in 0 .. Cardinality(DOMAIN w) /\ Among(u, j, s, n)
    BY <1>1, <1>6, <2>1, <2>2 DEF Among
  <2>4. j <= n
    BY <2>3, Crowded
  <2> QED BY <1>3, <2>2, <2>4
<1>9. ASSUME s[i] = u[j], ~ Tied(w, s[i]) PROVE FALSE
  <2>1. ASSUME NEW k \in 1 .. j - 1 PROVE \E x \in 1 .. i - 1 : s[x] = u[k]
    <3>1. k \in 1 .. c /\ k < j
      BY <1>3
    <3>2. u[k] # u[j] /\ u[k] \in DOMAIN w
      BY <1>2, <1>3, <3>1 DEF IsInjective
    <3>3. OrderTime[u[k]] # OrderTime[s[i]]
      BY <1>9, <3>2 DEF Tied
    <3>4. OrderTime[u[k]] >= OrderTime[u[j]]
      BY <1>2, <1>3, <3>1
    <3>5. OrderTime[u[k]] > OrderTime[s[i]]
      BY <1>7, <1>9, <3>1, <3>3, <3>4
    <3> QED BY <1>5, <3>1, <3>5
  <2>2. PICK m \in 0 .. c, n \in Nat : m = j - 1 /\ n = i - 1
    BY <1>6
  <2>3. m \in 0 .. Cardinality(DOMAIN w) /\ Among(u, m, s, n)
    BY <1>1, <2>1, <2>2 DEF Among
  <2>4. m <= n
    BY <2>3, Crowded
  <2> QED BY <1>3, <2>2, <2>4
<1> QED BY <1>8, <1>9

(* An earlier page of the same size ends where a later one begins, or      *)
(* before.                                                                 *)
LEMMA OffsetsApart ==
    ASSUME NEW p \in Queries, NEW q \in Queries, p.page < q.page, p.limit = q.limit
    PROVE  Offset(p) + Limit(p) <= Offset(q)
<1>1. PICK x \in Nat \ {0}, y \in Nat \ {0}, l \in Nat \ {0} :
          x = p.page /\ y = q.page /\ l = Limit(p) /\ l = Limit(q)
  <2>1. Limit(p) = Limit(q)
    BY DEF Limit
  <2> QED BY <2>1, LimitTyped
<1>2. Offset(p) + Limit(p) = x * l
  BY <1>1 DEF Offset
<1>3. x <= y - 1
  BY <1>1
<1>4. x * l <= (y - 1) * l
  BY <1>3
<1> QED BY <1>1, <1>2, <1>4 DEF Offset

(* Math.ceil gives a page for every row and no page without one.           *)
LEMMA NextPage ==
    ASSUME NEW total \in Nat, NEW q \in Queries
    PROVE  HasNext(total, q) <=> Offset(q) + Limit(q) < total
<1>1. PICK p \in Nat \ {0}, l \in Nat \ {0} : p = q.page /\ l = Limit(q)
  BY LimitTyped
<1>2. PICK n \in Nat : n = total + l - 1
  OBVIOUS
<1>3. PICK d : d = n \div l
  OBVIOUS
<1>4. d \in Int /\ d * l <= n /\ n < d * l + l
  BY <1>3
<1>5. HasNext(total, q) <=> p < d
  BY <1>1, <1>2, <1>3 DEF HasNext, TotalPages
<1>6. Offset(q) + Limit(q) = p * l
  BY <1>1 DEF Offset
<1>7. ASSUME p < d PROVE p * l < total
  <2>1. (p + 1) * l <= d * l
    BY <1>4, <1>7
  <2> QED BY <1>2, <1>4, <2>1
<1>8. ASSUME p >= d PROVE p * l >= total
  <2>1. d * l <= p * l
    BY <1>4, <1>8
  <2> QED BY <1>2, <1>4, <2>1
<1> QED BY <1>4, <1>5, <1>6, <1>7, <1>8

-----------------------------------------------------------------------------
(* The parts of TypeOK.                                                    *)

TableOK == was \in Seq(Tables) /\ Len(was) \in Versions

CacheOK == cached \subseteq Queries /\ entry \in [Queries -> Result]

GetOK ==
    /\ pc \in [Requests -> {"idle", "counting", "reading", "storing"}]
    /\ query \in [Requests -> Queries \cup {NoQuery}]
    /\ result \in [Requests -> Result]

SweepOK ==
    /\ sweep \in [Sweeps -> {"idle", "scanning", "deleting", "done"}]
    /\ pattern \in [Sweeps -> Patterns]
    /\ steady \in [Sweeps -> SUBSET Queries]
    /\ ever \in [Sweeps -> SUBSET Queries]
    /\ keysToDelete \in [Sweeps -> SUBSET {CleanKey(Name(q)) : q \in Queries}]
    /\ doomed \in [Sweeps -> SUBSET Queries]

LEMMA TypeParts ==
    /\ TypeOK <=> TableOK /\ CacheOK /\ GetOK /\ SweepOK
    /\ TypeOK' <=> TableOK' /\ CacheOK' /\ GetOK' /\ SweepOK'
BY Zenon DEF TypeOK, TableOK, CacheOK, GetOK, SweepOK

LEMMA TableTyped == TableOK => Table \in Tables /\ Len(was) \in Nat \ {0}
BY DEF TableOK, Table, Versions

LEMMA UnreadTyped == Unread \in Result
BY BoundsAssumption DEF Unread, Result, Versions

-----------------------------------------------------------------------------
(* The inductive invariant.                                                *)

(* The total was the count of a state since the request began.             *)
Counted(e, q) ==
    /\ e.began <= e.countedAt /\ e.countedAt <= Len(was)
    /\ e.total = TotalItems(was[e.countedAt], q)

(* The rows were the page of a state since the count.                      *)
Filled(e, q) ==
    /\ Counted(e, q)
    /\ e.countedAt <= e.readAt /\ e.readAt <= Len(was)
    /\ e.rows \in Pages(was[e.readAt], q)

Getting(r) ==
    /\ pc[r] # "idle" => query[r] \in Queries /\ result[r].began <= Len(was)
    /\ pc[r] \in {"reading", "storing"} => Counted(result[r], query[r])
    /\ pc[r] = "storing" => Filled(result[r], query[r])

(* The key prefix is the one that the code cuts off, or another.           *)
PrefixIsCutOff == KeyPrefix = "oms_cache:"

LEMMA KeysComeOut ==
    ASSUME NEW q \in Queries
    PROVE  /\ PrefixIsCutOff => CleanKey(Name(q)) = q
           /\ ~ PrefixIsCutOff => CleanKey(Name(q)) \notin Queries
<1>1. Name(q).prefix = KeyPrefix /\ Name(q).key = q
  BY DEF Name
<1>2. Name(q) \notin Queries
  <2>1. DOMAIN Name(q) = {"prefix", "key"}
    BY DEF Name
  <2>2. \A x \in Queries : DOMAIN x = {"page", "limit", "filter"}
    BY QueryAssumption
  <2> QED BY <2>1, <2>2
<1> QED BY <1>1, <1>2 DEF CleanKey, PrefixIsCutOff

(* What a sweep has still to delete, it has found or will find.            *)
Sweeping(i) ==
    /\ steady[i] \subseteq cached
    /\ sweep[i] = "scanning" => doomed[i] \subseteq steady[i]
    /\ PrefixIsCutOff /\ sweep[i] = "deleting" => doomed[i] \subseteq keysToDelete[i]
    /\ PrefixIsCutOff /\ sweep[i] = "done" => doomed[i] = {}

EntriesFilled == \A q \in cached : Filled(entry[q], q)

IInv ==
    /\ TypeOK
    /\ EntriesFilled
    /\ \A r \in Requests : Getting(r)
    /\ \A i \in Sweeps : Sweeping(i)

THEOREM InitIInv == Init => IInv
<1> SUFFICES ASSUME Init PROVE IInv
  OBVIOUS
<1>1. TableOK
  <2>1. PICK t \in FirstTables : was = <<t>>
    BY DEF Init
  <2>2. t \in Tables
    BY TablesAssumption DEF Tables
  <2> QED BY <2>1, <2>2, BoundsAssumption DEF TableOK, Versions
<1>2. CacheOK /\ GetOK
  BY UnreadTyped DEF Init, CacheOK, GetOK
<1>3. SweepOK
  BY DEF Init, SweepOK
<1>4. EntriesFilled /\ \A r \in Requests : Getting(r)
  BY DEF Init, EntriesFilled, Getting
<1>5. \A i \in Sweeps : Sweeping(i)
  BY DEF Init, Sweeping
<1> QED BY <1>1, <1>2, <1>3, <1>4, <1>5, TypeParts DEF IInv

-----------------------------------------------------------------------------
(* A write adds a state to the table's and leaves the others.              *)

LEMMA AppendedTable ==
    ASSUME TableOK, NEW t \in Tables, Write(t)
    PROVE  /\ TableOK' /\ Len(was) < Len(was')
           /\ \A k \in 1 .. Len(was) : was'[k] = was[k]
<1>1. was' = Append(was, t) /\ Len(was) <= MaxWrites
  BY DEF Write
<1> QED BY <1>1, BoundsAssumption DEF TableOK, Versions

LEMMA CountedKept ==
    ASSUME NEW e \in Result, NEW q, Counted(e, q), Len(was) \in Nat, Len(was') \in Nat,
           Len(was) <= Len(was'), \A k \in 1 .. Len(was) : was'[k] = was[k]
    PROVE  Counted(e, q)'
BY DEF Counted, Result, Versions

LEMMA FilledKept ==
    ASSUME NEW e \in Result, NEW q, Filled(e, q), Len(was) \in Nat, Len(was') \in Nat,
           Len(was) <= Len(was'), \A k \in 1 .. Len(was) : was'[k] = was[k]
    PROVE  Filled(e, q)'
<1>1. Counted(e, q)'
  BY CountedKept DEF Filled
<1>2. e.readAt \in 1 .. Len(was)
  BY DEF Filled, Result, Versions
<1> QED BY <1>1, <1>2 DEF Filled

LEMMA WriteIInv ==
    ASSUME IInv, NEW t \in Tables, Write(t)
    PROVE  IInv'
<1>1. TableOK /\ CacheOK /\ GetOK /\ SweepOK
  BY TypeParts DEF IInv
<1>2. UNCHANGED <<cacheVars, getVars, sweepVars>>
  BY DEF Write
<1>3. /\ TableOK' /\ Len(was) \in Nat /\ Len(was') \in Nat /\ Len(was) <= Len(was')
      /\ \A k \in 1 .. Len(was) : was'[k] = was[k]
  BY <1>1, AppendedTable DEF TableOK
<1>4. CacheOK' /\ GetOK' /\ SweepOK'
  BY <1>1, <1>2 DEF CacheOK, GetOK, SweepOK, cacheVars, getVars, sweepVars
<1>5. EntriesFilled'
  <2>1. \A q \in cached : Filled(entry[q], q) /\ entry[q] \in Result
    BY <1>1 DEF IInv, EntriesFilled, CacheOK
  <2>2. ASSUME NEW q \in cached PROVE Filled(entry[q], q)'
    <3>1. PICK e \in Result : e = entry[q] /\ e = entry'[q] /\ Filled(e, q)
      BY <1>2, <2>1 DEF cacheVars
    <3>2. Filled(e, q)'
      BY <1>3, <3>1, FilledKept
    <3> QED BY <3>1, <3>2
  <2> QED BY <1>2, <2>2 DEF EntriesFilled, cacheVars
<1>6. ASSUME NEW r \in Requests PROVE Getting(r)'
  <2>1. PICK e \in Result, q \in Queries \cup {NoQuery} :
            /\ e = result[r] /\ e = result'[r]
            /\ q = query[r] /\ q = query'[r]
    BY <1>1, <1>2 DEF GetOK, getVars
  <2>2. pc'[r] = pc[r] /\ Getting(r)
    BY <1>2 DEF IInv, getVars
  <2>3. e.began \in Nat
    BY DEF Result, Versions
  <2>4. Counted(e, q) => Counted(e, q)'
    BY <1>3, CountedKept
  <2>5. Filled(e, q) => Filled(e, q)'
    BY <1>3, FilledKept
  <2> QED BY <1>3, <2>1, <2>2, <2>3, <2>4, <2>5 DEF Getting
<1>7. \A i \in Sweeps : Sweeping(i)'
  BY <1>2 DEF IInv, Sweeping, cacheVars, sweepVars
<1> QED BY <1>3, <1>4, <1>5, <1>6, <1>7, TypeParts DEF IInv

-----------------------------------------------------------------------------
(* Requests.                                                               *)

(* The other requests keep what they have read.                            *)
LEMMA GettingKept ==
    ASSUME NEW r, Getting(r), was' = was, pc'[r] = pc[r], query'[r] = query[r],
           result'[r] = result[r]
    PROVE  Getting(r)'
<1>1. PICK e, q : e = result[r] /\ e = result'[r] /\ q = query[r] /\ q = query'[r]
  OBVIOUS
<1> QED BY <1>1 DEF Getting, Counted, Filled

(* An entry that stays keeps its rows.                                     *)
LEMMA EntryKept ==
    ASSUME NEW q, Filled(entry[q], q), was' = was, entry'[q] = entry[q]
    PROVE  Filled(entry[q], q)'
<1>1. PICK e : e = entry[q] /\ e = entry'[q]
  OBVIOUS
<1> QED BY <1>1 DEF Counted, Filled

LEMMA CacheKept ==
    ASSUME CacheOK, EntriesFilled, UNCHANGED <<was, cacheVars>>
    PROVE  CacheOK' /\ EntriesFilled'
<1>1. \A q \in cached' : Filled(entry[q], q)'
  BY EntryKept DEF EntriesFilled, cacheVars
<1> QED BY <1>1 DEF CacheOK, EntriesFilled, cacheVars

LEMMA SweepsKept ==
    ASSUME SweepOK, \A i \in Sweeps : Sweeping(i), UNCHANGED <<cacheVars, sweepVars>>
    PROVE  SweepOK' /\ \A i \in Sweeps : Sweeping(i)'
BY DEF SweepOK, Sweeping, cacheVars, sweepVars

(* What a request does on its way to Store.                                *)
LEMMA ReadingIInv ==
    ASSUME IInv, NEW r \in Requests, NEW at \in {"counting", "reading", "storing"},
           NEW e \in Result, NEW q \in Queries,
           pc' = [pc EXCEPT ![r] = at], query' = [query EXCEPT ![r] = q],
           result' = [result EXCEPT ![r] = e], e.began <= Len(was),
           at \in {"reading", "storing"} => Counted(e, q),
           at = "storing" => Filled(e, q), UNCHANGED <<was, cacheVars, sweepVars>>
    PROVE  IInv'
<1>1. TableOK /\ CacheOK /\ GetOK /\ SweepOK
  BY TypeParts DEF IInv
<1>2. TableOK' /\ GetOK'
  BY <1>1 DEF TableOK, GetOK
<1>3. CacheOK' /\ EntriesFilled' /\ SweepOK' /\ \A i \in Sweeps : Sweeping(i)'
  BY <1>1, CacheKept, SweepsKept DEF IInv
<1>4. ASSUME NEW x \in Requests \ {r} PROVE Getting(x)'
  BY <1>1, GettingKept DEF IInv, GetOK
<1>5. Getting(r)'
  <2>1. pc'[r] = at /\ query'[r] = q /\ result'[r] = e
    BY <1>1 DEF GetOK
  <2> QED BY <2>1 DEF Getting, Counted, Filled
<1> QED BY <1>2, <1>3, <1>4, <1>5, TypeParts DEF IInv

LEMMA MissIInv ==
    ASSUME IInv, NEW r \in Requests, NEW q \in Queries, Miss(r, q)
    PROVE  IInv'
<1> DEFINE e == [Unread EXCEPT !.began = Len(was)]
<1>1. e \in Result /\ e.began = Len(was)
  BY UnreadTyped, TypeParts DEF IInv, TableOK, Result, Unread
<1>2. e.began <= Len(was)
  BY <1>1, TypeParts DEF IInv, TableOK, Versions
<1>3. /\ pc' = [pc EXCEPT ![r] = "counting"] /\ query' = [query EXCEPT ![r] = Sanitized(q)]
      /\ result' = [result EXCEPT ![r] = e] /\ UNCHANGED <<was, cacheVars, sweepVars>>
  BY DEF Miss
<1> HIDE DEF e
<1>4. ASSUME NEW at, at = "counting"
      PROVE  at \in {"counting", "reading", "storing"} /\ at \notin {"reading", "storing"}
  BY <1>4
<1>5. Sanitized(q) \in Queries
  BY SanitizedAssumption
<1> QED BY <1>1, <1>2, <1>3, <1>4, <1>5, ReadingIInv

LEMMA CountIInv ==
    ASSUME IInv, NEW r \in Requests, Count(r)
    PROVE  IInv'
<1>1. TableOK /\ GetOK /\ Getting(r) /\ pc[r] = "counting"
  BY TypeParts DEF IInv, Count
<1>2. PICK u \in Result, total \in Nat, q \in Queries :
          u = result[r] /\ total = TotalItems(Table, q) /\ q = query[r]
  BY <1>1, TableTyped, TotalItemsTyped DEF GetOK, Getting
<1> DEFINE e == [u EXCEPT !.total = total, !.countedAt = Len(was)]
<1>3. e \in Result /\ e.began = u.began /\ e.total = total /\ e.countedAt = Len(was)
  BY <1>1 DEF Result, TableOK
<1>4. u.began <= Len(was)
  BY <1>1, <1>2 DEF Getting
<1>5. Counted(e, q)
  BY <1>1, <1>2, <1>3, <1>4, TableTyped DEF Counted, Table
<1>6. result' = [result EXCEPT ![r] = e]
  BY <1>2 DEF Count
<1>7. query' = [query EXCEPT ![r] = q]
  BY <1>1, <1>2 DEF Count, GetOK
<1>8. pc' = [pc EXCEPT ![r] = "reading"] /\ UNCHANGED <<was, cacheVars, sweepVars>>
  BY DEF Count
<1> HIDE DEF e
<1> QED BY <1>3, <1>4, <1>5, <1>6, <1>7, <1>8, ReadingIInv

LEMMA ReadPageIInv ==
    ASSUME IInv, NEW r \in Requests, ReadPage(r)
    PROVE  IInv'
<1>1. TableOK /\ GetOK /\ Getting(r) /\ pc[r] = "reading"
  BY TypeParts DEF IInv, ReadPage
<1>2. PICK u \in Result, q \in Queries : u = result[r] /\ q = query[r]
  BY <1>1 DEF GetOK, Getting
<1>3. PICK rows \in Pages(Table, q) :
          result' = [result EXCEPT ![r].rows = rows, ![r].readAt = Len(was)]
  BY <1>2 DEF ReadPage
<1>4. rows \in Seq([id : Ids, content : Contents])
  BY <1>1, TableTyped, PageOf DEF Row
<1> DEFINE e == [u EXCEPT !.rows = rows, !.readAt = Len(was)]
<1>5. /\ e \in Result /\ e.began = u.began /\ e.total = u.total
      /\ e.countedAt = u.countedAt /\ e.rows = rows /\ e.readAt = Len(was)
  BY <1>1, <1>4 DEF Result, TableOK
<1>6. u.began <= Len(was) /\ Counted(u, q)
  BY <1>1, <1>2 DEF Getting
<1>7. Counted(e, q)
  BY <1>5, <1>6 DEF Counted
<1>8. Filled(e, q)
  BY <1>1, <1>3, <1>5, <1>6, <1>7, TableTyped DEF Filled, Counted, Table
<1>9. result' = [result EXCEPT ![r] = e]
  BY <1>2, <1>3
<1>10. query' = [query EXCEPT ![r] = q]
  BY <1>1, <1>2 DEF ReadPage, GetOK
<1>11. pc' = [pc EXCEPT ![r] = "storing"] /\ UNCHANGED <<was, cacheVars, sweepVars>>
  BY DEF ReadPage
<1> HIDE DEF e
<1> QED BY <1>5, <1>6, <1>7, <1>8, <1>9, <1>10, <1>11, ReadingIInv

LEMMA LeaveGetting ==
    ASSUME IInv, NEW r \in Requests, Leave(r), was' = was
    PROVE  TableOK' /\ GetOK' /\ \A x \in Requests : Getting(x)'
<1>1. TableOK /\ GetOK
  BY TypeParts DEF IInv
<1>2. GetOK'
  BY <1>1, UnreadTyped DEF GetOK, Leave
<1>3. ASSUME NEW x \in Requests \ {r} PROVE Getting(x)'
  BY <1>1, GettingKept DEF IInv, GetOK, Leave
<1>4. Getting(r)'
  BY <1>1 DEF Getting, GetOK, Leave
<1> QED BY <1>1, <1>2, <1>3, <1>4 DEF TableOK

-----------------------------------------------------------------------------
(* Entries that come and go, and the sweeps that see it.                   *)

LEMMA SeesSweeps ==
    ASSUME SweepOK, \A i \in Sweeps : Sweeping(i),
           NEW gone \in SUBSET Queries, NEW keys \in SUBSET Queries,
           cached \ gone \subseteq keys, cached \subseteq Queries, SweepsSee(gone, keys)
    PROVE  SweepOK' /\ \A i \in Sweeps : Sweeping(i)'
<1>1. SweepOK'
  <2>1. \A i \in Sweeps :
            ever[i] \cup (keys \cap Finds[pattern[i]]) \in SUBSET Queries
    BY DEF SweepOK
  <2>2. ever' \in [Sweeps -> SUBSET Queries]
    BY <2>1 DEF SweepsSee
  <2> QED BY <2>2 DEF SweepOK, SweepsSee
<1>2. ASSUME NEW i \in Sweeps PROVE Sweeping(i)'
  <2>1. /\ cached' = keys /\ sweep'[i] = sweep[i] /\ keysToDelete'[i] = keysToDelete[i]
        /\ steady'[i] = steady[i] \cap keys /\ doomed'[i] = doomed[i] \ gone
    BY DEF SweepsSee
  <2>2. Sweeping(i)
    OBVIOUS
  <2> QED BY <2>1, <2>2 DEF Sweeping
<1> QED BY <1>1, <1>2

LEMMA StoreIInv ==
    ASSUME IInv, NEW r \in Requests, Store(r)
    PROVE  IInv'
<1>1. TableOK /\ CacheOK /\ GetOK /\ SweepOK /\ Getting(r) /\ pc[r] = "storing"
  BY TypeParts DEF IInv, Store
<1>2. PICK e \in Result, k \in Queries : e = result[r] /\ k = query[r] /\ Filled(e, k)
  BY <1>1 DEF GetOK, Getting
<1>3. /\ entry' = [entry EXCEPT ![k] = e] /\ SweepsSee({k}, cached \cup {k})
      /\ Leave(r) /\ was' = was
  BY <1>2 DEF Store, CacheKey
<1>4. TableOK' /\ GetOK' /\ \A x \in Requests : Getting(x)'
  BY <1>3, LeaveGetting
<1>5. cached' = cached \cup {k}
  BY <1>3 DEF SweepsSee
<1>6. CacheOK'
  BY <1>1, <1>3, <1>5 DEF CacheOK
<1>7. ASSUME NEW q \in cached' PROVE Filled(entry[q], q)'
  <2>1. CASE q = k
    <3>1. entry'[k] = e
      BY <1>1, <1>3 DEF CacheOK
    <3> QED BY <1>2, <1>3, <2>1, <3>1 DEF Filled, Counted
  <2>2. CASE q # k
    <3>1. q \in cached /\ entry'[q] = entry[q]
      BY <1>1, <1>3, <1>5, <2>2 DEF CacheOK
    <3> QED BY <1>3, <3>1, EntryKept DEF IInv, EntriesFilled
  <2> QED BY <2>1, <2>2
<1>8. SweepOK' /\ \A i \in Sweeps : Sweeping(i)'
  <2>1. {k} \in SUBSET Queries /\ cached \cup {k} \in SUBSET Queries
    BY <1>1 DEF CacheOK
  <2> QED BY <1>1, <1>3, <2>1, SeesSweeps DEF CacheOK, IInv
<1> QED BY <1>4, <1>6, <1>7, <1>8, TypeParts DEF IInv, EntriesFilled

(* Entries go; the requests see nothing of it.                             *)
LEMMA ForgetIInv ==
    ASSUME IInv, NEW gone \in SUBSET Queries, UNCHANGED <<was, getVars>>,
           cached' = cached \ gone,
           entry' \in [Queries -> Result], \A q \in Queries \ gone : entry'[q] = entry[q],
           SweepOK', \A i \in Sweeps : Sweeping(i)'
    PROVE  IInv'
<1>1. TableOK /\ CacheOK /\ GetOK
  BY TypeParts DEF IInv
<1>2. TableOK' /\ CacheOK' /\ GetOK'
  BY <1>1 DEF TableOK, CacheOK, GetOK, getVars
<1>3. ASSUME NEW q \in cached' PROVE Filled(entry[q], q)'
  BY <1>1, EntryKept DEF IInv, EntriesFilled, CacheOK
<1>4. ASSUME NEW r \in Requests PROVE Getting(r)'
  BY GettingKept DEF IInv, getVars
<1> QED BY <1>2, <1>3, <1>4, TypeParts DEF IInv, EntriesFilled

LEMMA ExpireIInv ==
    ASSUME IInv, NEW q \in Queries, Expire(q)
    PROVE  IInv'
<1>1. CacheOK /\ SweepOK
  BY TypeParts DEF IInv
<1>2. /\ entry' = [entry EXCEPT ![q] = Unread] /\ SweepsSee({q}, cached \ {q})
      /\ UNCHANGED <<was, getVars>>
  BY DEF Expire
<1>3. SweepOK' /\ \A i \in Sweeps : Sweeping(i)'
  <2>1. {q} \in SUBSET Queries /\ cached \ {q} \in SUBSET Queries
    BY <1>1 DEF CacheOK
  <2> QED BY <1>1, <1>2, <2>1, SeesSweeps DEF CacheOK, IInv
<1>4. cached' = cached \ {q}
  BY <1>2 DEF SweepsSee
<1>5. entry' \in [Queries -> Result] /\ \A x \in Queries \ {q} : entry'[x] = entry[x]
  BY <1>1, <1>2, UnreadTyped DEF CacheOK
<1> QED BY <1>2, <1>3, <1>4, <1>5, ForgetIInv

LEMMA ClearIInv ==
    ASSUME IInv, ClearAllCaches
    PROVE  IInv'
<1>1. CacheOK /\ SweepOK
  BY TypeParts DEF IInv
<1>2. /\ entry' = [q \in Queries |-> Unread] /\ SweepsSee(cached, {})
      /\ UNCHANGED <<was, getVars>>
  BY DEF ClearAllCaches
<1>3. cached \in SUBSET Queries /\ {} \in SUBSET Queries
  BY <1>1 DEF CacheOK
<1>4. SweepOK' /\ \A i \in Sweeps : Sweeping(i)'
  BY <1>1, <1>2, <1>3, SeesSweeps DEF IInv
<1>5. cached' = cached \ Queries
  BY <1>2, <1>3 DEF SweepsSee
<1>6. entry' \in [Queries -> Result]
  BY <1>2, UnreadTyped
<1> QED BY <1>2, <1>4, <1>5, <1>6, ForgetIInv

-----------------------------------------------------------------------------
(* Sweeps.                                                                 *)

(* A step of one sweep that leaves the cache alone.                        *)
LEMMA OneSweepIInv ==
    ASSUME IInv, UNCHANGED <<was, cacheVars, getVars>>, SweepOK', NEW i \in Sweeps,
           Sweeping(i)',
           \A j \in Sweeps \ {i} :
               /\ sweep'[j] = sweep[j] /\ steady'[j] = steady[j]
               /\ keysToDelete'[j] = keysToDelete[j] /\ doomed'[j] = doomed[j]
    PROVE  IInv'
<1>1. TableOK /\ CacheOK /\ GetOK
  BY TypeParts DEF IInv
<1>2. TableOK' /\ GetOK' /\ CacheOK' /\ EntriesFilled'
  BY <1>1, CacheKept DEF IInv, TableOK, GetOK, getVars
<1>3. ASSUME NEW r \in Requests PROVE Getting(r)'
  BY GettingKept DEF IInv, getVars
<1>4. ASSUME NEW j \in Sweeps \ {i} PROVE Sweeping(j)'
  BY DEF IInv, Sweeping, cacheVars
<1> QED BY <1>2, <1>3, <1>4, TypeParts DEF IInv

LEMMA StartScanIInv ==
    ASSUME IInv, NEW i \in Sweeps, NEW p \in Patterns, StartScan(i, p)
    PROVE  IInv'
<1>1. CacheOK /\ SweepOK
  BY TypeParts DEF IInv
<1>2. PICK found \in SUBSET Queries : found = Finds[p] \cap cached
  BY <1>1 DEF CacheOK
<1>3. /\ sweep' = [sweep EXCEPT ![i] = "scanning"] /\ pattern' = [pattern EXCEPT ![i] = p]
      /\ steady' = [steady EXCEPT ![i] = found] /\ ever' = [ever EXCEPT ![i] = found]
      /\ doomed' = [doomed EXCEPT ![i] = found]
      /\ UNCHANGED <<was, cacheVars, getVars, keysToDelete>>
  BY <1>2 DEF StartScan
<1>4. SweepOK'
  BY <1>1, <1>3 DEF SweepOK
<1>5. Sweeping(i)'
  BY <1>1, <1>2, <1>3 DEF SweepOK, Sweeping, cacheVars
<1> QED BY <1>1, <1>3, <1>4, <1>5, OneSweepIInv DEF SweepOK

LEMMA EndScanIInv ==
    ASSUME IInv, NEW i \in Sweeps, EndScan(i)
    PROVE  IInv'
<1>1. CacheOK /\ SweepOK /\ Sweeping(i) /\ sweep[i] = "scanning"
  BY TypeParts DEF IInv, EndScan
<1>2. PICK keys \in SUBSET Queries :
          /\ steady[i] \subseteq keys
          /\ keysToDelete' = [keysToDelete EXCEPT
                                 ![i] = {CleanKey(Name(q)) : q \in keys}]
  BY DEF EndScan, MayReturn
<1> DEFINE clean == {CleanKey(Name(q)) : q \in keys}
<1>6. clean \in SUBSET {CleanKey(Name(q)) : q \in Queries}
  OBVIOUS
<1>7. PrefixIsCutOff => clean = keys
  BY KeysComeOut
<1>8. keysToDelete' = [keysToDelete EXCEPT ![i] = clean]
  BY <1>2
<1> HIDE DEF clean
<1>3. /\ sweep' = [sweep EXCEPT ![i] = "deleting"] /\ steady' = [steady EXCEPT ![i] = {}]
      /\ ever' = [ever EXCEPT ![i] = {}]
      /\ UNCHANGED <<was, cacheVars, getVars, pattern, doomed>>
  BY DEF EndScan
<1>4. SweepOK'
  BY <1>1, <1>3, <1>6, <1>8 DEF SweepOK
<1>5. Sweeping(i)'
  BY <1>1, <1>2, <1>3, <1>7, <1>8 DEF SweepOK, Sweeping, cacheVars
<1> QED BY <1>1, <1>3, <1>4, <1>5, <1>8, OneSweepIInv DEF SweepOK

LEMMA DeleteKeyIInv ==
    ASSUME IInv, NEW i \in Sweeps, NEW k, DeleteKey(i, k)
    PROVE  IInv'
<1>1. CacheOK /\ SweepOK /\ sweep[i] = "deleting"
  BY TypeParts DEF IInv, DeleteKey
<1>2. /\ keysToDelete' = [keysToDelete EXCEPT ![i] = @ \ {k}]
      /\ entry' = [q \in Queries |-> IF q = k THEN Unread ELSE entry[q]]
      /\ cached' = cached \ {k}
      /\ steady' = [j \in Sweeps |-> steady[j] \ {k}]
      /\ doomed' = [j \in Sweeps |-> doomed[j] \ {k}]
      /\ UNCHANGED <<was, getVars, sweep, pattern, ever>>
  BY DEF DeleteKey
<1>3. SweepOK'
  <2>1. keysToDelete[i] \ {k} \in SUBSET {CleanKey(Name(q)) : q \in Queries}
    BY <1>1 DEF SweepOK
  <2> QED BY <1>1, <1>2, <2>1 DEF SweepOK
<1>4. ASSUME NEW j \in Sweeps PROVE Sweeping(j)'
  <2>1. keysToDelete[j] \ {k} \subseteq keysToDelete'[j]
    BY <1>1, <1>2 DEF SweepOK
  <2>2. Sweeping(j)
    BY DEF IInv
  <2> QED BY <1>2, <2>1, <2>2 DEF Sweeping
<1>5. PICK gone \in SUBSET Queries : gone = Queries \cap {k}
  OBVIOUS
<1>6. entry' \in [Queries -> Result] /\ \A x \in Queries \ gone : entry'[x] = entry[x]
  BY <1>1, <1>2, <1>5, UnreadTyped DEF CacheOK
<1>7. cached' = cached \ gone
  BY <1>1, <1>2, <1>5 DEF CacheOK
<1> QED BY <1>2, <1>3, <1>4, <1>6, <1>7, ForgetIInv

LEMMA EndSweepIInv ==
    ASSUME IInv, NEW i \in Sweeps, EndSweep(i) \/ FailSweep(i)
    PROVE  IInv'
<1>1. CacheOK /\ SweepOK /\ Sweeping(i)
  BY TypeParts DEF IInv
<1>2. UNCHANGED <<was, cacheVars, getVars>>
  BY DEF EndSweep, FailSweep
<1>3. SweepOK'
  BY <1>1 DEF SweepOK, EndSweep, FailSweep
<1>4. Sweeping(i)'
  <2>1. CASE EndSweep(i)
    BY <1>1, <2>1 DEF SweepOK, Sweeping, EndSweep, cacheVars
  <2>2. CASE FailSweep(i)
    BY <1>1, <2>2 DEF SweepOK, Sweeping, FailSweep, cacheVars
  <2> QED BY <2>1, <2>2
<1>5. \A j \in Sweeps \ {i} :
          /\ sweep'[j] = sweep[j] /\ steady'[j] = steady[j]
          /\ keysToDelete'[j] = keysToDelete[j] /\ doomed'[j] = doomed[j]
  BY <1>1 DEF SweepOK, EndSweep, FailSweep
<1> QED BY <1>2, <1>3, <1>4, <1>5, OneSweepIInv

-----------------------------------------------------------------------------

LEMMA FailIInv ==
    ASSUME IInv, NEW r \in Requests, Fail(r)
    PROVE  IInv'
<1>1. CacheOK /\ SweepOK
  BY TypeParts DEF IInv
<1>2. Leave(r) /\ UNCHANGED <<was, cacheVars, sweepVars>>
  BY DEF Fail
<1>3. TableOK' /\ GetOK' /\ \A x \in Requests : Getting(x)'
  BY <1>2, LeaveGetting
<1>4. CacheOK' /\ EntriesFilled' /\ SweepOK' /\ \A i \in Sweeps : Sweeping(i)'
  BY <1>1, <1>2, CacheKept, SweepsKept DEF IInv
<1> QED BY <1>3, <1>4, TypeParts DEF IInv

THEOREM NextIInv == IInv /\ [Next]_vars => IInv'
<1> SUFFICES ASSUME IInv, [Next]_vars PROVE IInv'
  OBVIOUS
<1>1. CASE UNCHANGED vars
  <2>1. TableOK /\ CacheOK /\ GetOK /\ SweepOK
    BY TypeParts DEF IInv
  <2>2. UNCHANGED <<was, cacheVars, getVars, sweepVars>>
    BY <1>1 DEF vars
  <2>3. TableOK' /\ GetOK' /\ CacheOK' /\ EntriesFilled'
    BY <2>1, <2>2, CacheKept DEF IInv, TableOK, GetOK, getVars
  <2>4. SweepOK' /\ \A i \in Sweeps : Sweeping(i)'
    BY <2>1, <2>2, SweepsKept DEF IInv
  <2>5. \A r \in Requests : Getting(r)'
    BY <2>2, GettingKept DEF IInv, getVars
  <2> QED BY <2>3, <2>4, <2>5, TypeParts DEF IInv
<1>2. ASSUME NEW r \in Requests, Proceed(r) PROVE IInv'
  BY <1>2, CountIInv, ReadPageIInv, StoreIInv, FailIInv DEF Proceed
<1>3. CASE Next
  BY <1>2, <1>3, WriteIInv, MissIInv, ExpireIInv, ClearIInv, StartScanIInv,
     EndScanIInv, DeleteKeyIInv, EndSweepIInv DEF Next
<1> QED BY <1>1, <1>3

(* TypeOK, for all tables, queries and patterns.                           *)
THEOREM TypeCorrect == Spec => []TypeOK
<1>1. IInv => TypeOK
  BY DEF IInv
<1> QED BY <1>1, InitIInv, NextIInv, PTL DEF Spec

(* An entry's total and rows are the count and the page of states the      *)
(* table was in since its request began, the count's not the later one.    *)
THEOREM EntriesAnswer == Spec => []EntriesWereTrue
<1>1. IInv => EntriesWereTrue
  BY DEF IInv, EntriesFilled, Filled, Counted, TotalItems, EntriesWereTrue
<1> QED BY <1>1, InitIInv, NextIInv, PTL DEF Spec

(* An entry whose two SELECTs saw the same table announces a next page     *)
(* exactly when rows are left.                                             *)
THEOREM NextPagesExist == Spec => []NextPageIsThere
<1>1. IInv => NextPageIsThere
  <2> SUFFICES ASSUME IInv, NEW q \in cached, entry[q].countedAt = entry[q].readAt
               PROVE  HasNext(entry[q].total, q) <=>
                          Offset(q) + Len(entry[q].rows) < entry[q].total
    BY DEF NextPageIsThere
  <2>1. TableOK /\ CacheOK /\ Filled(entry[q], q)
    BY TypeParts DEF IInv, EntriesFilled
  <2>2. PICK t \in Tables : t = was[entry[q].readAt]
    BY <2>1 DEF TableOK, CacheOK, Filled, Result, Versions
  <2>3. PICK total \in Nat, rows \in Pages(t, q) :
            /\ total = entry[q].total /\ total = TotalItems(t, q)
            /\ rows = entry[q].rows
    BY <2>1, <2>2, TotalItemsTyped DEF Filled, Counted
  <2>4. q \in Queries
    BY <2>1 DEF CacheOK
  <2>5. PICK o \in Nat, l \in Nat \ {0} : o = Offset(q) /\ l = Limit(q)
    BY <2>4, LimitTyped
  <2>6. Len(rows) = IF o >= total THEN 0 ELSE IF o + l < total THEN l ELSE total - o
    BY <2>3, <2>4, <2>5, PageOf
  <2>7. HasNext(total, q) <=> o + l < total
    BY <2>4, <2>5, NextPage
  <2>8. HasNext(total, q) <=> o + Len(rows) < total
    BY <2>6, <2>7
  <2> QED BY <2>3, <2>5, <2>8
<1> QED BY <1>1, InitIInv, NextIInv, PTL DEF Spec

(* Pages of one size and filter, read in one state of the table, have a    *)
(* row in common only if others are of the same second, and the earlier    *)
(* page has no older rows than the later: LIMIT and OFFSET cut sortings    *)
(* that may differ at places that do not overlap.                          *)
THEOREM PagesFitTogether == Spec => []PagesFit
<1>1. IInv => PagesFit
  <2> SUFFICES ASSUME IInv, NEW p \in cached, NEW q \in cached, p.page < q.page,
                      p.limit = q.limit, p.filter = q.filter,
                      entry[p].readAt = entry[q].readAt,
                      NEW a \in Range(entry[p].rows), NEW b \in Range(entry[q].rows)
               PROVE  /\ OrderTime[a.id] >= OrderTime[b.id]
                      /\ a.id = b.id =>
                             Tied(Where(was[entry[q].readAt], q.filter), a.id)
    BY DEF PagesFit
  <2>1. TableOK /\ CacheOK /\ Filled(entry[p], p) /\ Filled(entry[q], q)
    BY TypeParts DEF IInv, EntriesFilled
  <2>2. p \in Queries /\ q \in Queries
    BY <2>1 DEF CacheOK
  <2>3. PICK t \in Tables : t = was[entry[q].readAt]
    BY <2>1 DEF TableOK, CacheOK, Filled, Result, Versions
  <2>4. PICK w \in Tables : w = Where(t, p.filter) /\ w = Where(t, q.filter)
    BY WhereTable
  <2>5. entry[p].rows \in Pages(t, p) /\ entry[q].rows \in Pages(t, q)
    BY <2>1, <2>3 DEF Filled
  <2>6. PICK s \in Sortings(w), i \in 1 .. Cardinality(DOMAIN w) :
            i <= Offset(p) + Limit(p) /\ a.id = s[i]
    BY <2>2, <2>4, <2>5, RowsOf
  <2>7. PICK u \in Sortings(w), j \in 1 .. Cardinality(DOMAIN w) :
            j > Offset(q) /\ b.id = u[j]
    BY <2>2, <2>4, <2>5, RowsOf
  <2>8. i < j
    <3>1. Offset(p) + Limit(p) <= Offset(q)
      BY <2>2, OffsetsApart
    <3>2. /\ Offset(p) \in Nat /\ Limit(p) \in Nat /\ Offset(q) \in Nat
          /\ Cardinality(DOMAIN w) \in Nat
      BY <2>2, LimitTyped, TotalTyped
    <3> QED BY <2>6, <2>7, <3>1, <3>2
  <2>9. OrderTime[s[i]] >= OrderTime[u[j]] /\ (s[i] = u[j] => Tied(w, s[i]))
    BY <2>8, EarlierIsNotOlder
  <2> QED BY <2>3, <2>4, <2>6, <2>7, <2>9
<1> QED BY <1>1, InitIInv, NextIInv, PTL DEF Spec

(* If the key prefix is "oms_cache:", no sweep ends with one of the        *)
(* entries left that its pattern found when it began.                      *)
THEOREM SweepsDelete == PrefixIsCutOff => (Spec => []SweptEntriesAreGone)
<1> SUFFICES ASSUME PrefixIsCutOff PROVE Spec => []SweptEntriesAreGone
  OBVIOUS
<1>1. IInv => SweptEntriesAreGone
  BY DEF IInv, Sweeping, SweptEntriesAreGone
<1> QED BY <1>1, InitIInv, NextIInv, PTL DEF Spec

(* No deletion of a sweep takes an entry.                                  *)
DeletionsMiss ==
    \A i \in Sweeps, q \in Queries :
        DeleteKey(i, CleanKey(Name(q))) => UNCHANGED cacheVars

(* If it is another, the default among them, no sweep ever deletes an      *)
(* entry: whatever a pattern found stays until it expires or is cleared.   *)
THEOREM OtherPrefixesDeleteNothing == ~ PrefixIsCutOff => (Spec => [][DeletionsMiss]_vars)
<1> SUFFICES ASSUME ~ PrefixIsCutOff PROVE Spec => [][DeletionsMiss]_vars
  OBVIOUS
<1>1. IInv => DeletionsMiss
  <2> SUFFICES ASSUME IInv, NEW i \in Sweeps, NEW q \in Queries, NEW k,
                      k = CleanKey(Name(q)), DeleteKey(i, k)
               PROVE  cached' = cached /\ entry' = entry
    BY DEF DeletionsMiss, cacheVars
  <2>1. k \notin Queries
    BY KeysComeOut
  <2>2. CacheOK
    BY TypeParts DEF IInv
  <2>3. cached' = cached
    BY <2>1, <2>2 DEF DeleteKey, CacheOK
  <2>4. entry' = [x \in Queries |-> entry[x]]
    BY <2>1 DEF DeleteKey
  <2> QED BY <2>2, <2>3, <2>4 DEF CacheOK
<1>2. IInv /\ [Next]_vars => [DeletionsMiss]_vars
  BY <1>1
<1> QED BY <1>2, InitIInv, NextIInv, PTL DEF Spec

=============================================================================
