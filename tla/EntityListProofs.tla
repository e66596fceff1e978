--------------------------- MODULE EntityListProofs ---------------------------
(***************************************************************************)
(* A list that has come to rest shows an error, or rows that the table had *)
(* since its last run of fetches began; and if those did not overlap, it   *)
(* has all the deletions that the user was answered.  That holds for all   *)
(* sets of rows, cities and handlers and whatever the server answers.      *)
(***************************************************************************)
EXTENDS EntityList, FiniteSetTheorems, TLAPS

-----------------------------------------------------------------------------
(* Tables and filters.                                                     *)

LEMMA TableDomain ==
    ASSUME NEW t \in Tables
    PROVE  DOMAIN t \subseteq Ids /\ t \in [DOMAIN t -> Cities]
BY DEF Tables

LEMMA TableOf ==
    ASSUME NEW S \in SUBSET Ids, NEW t \in [S -> Cities]
    PROVE  t \in Tables
BY DEF Tables

LEMMA NoRowsTyped == NoRows \in Tables
<1>1. NoRows \in [{} -> Cities]
  BY DEF NoRows
<1> QED BY <1>1, TableOf

LEMMA RestrictTyped ==
    ASSUME NEW t \in Tables, NEW S \in SUBSET DOMAIN t
    PROVE  Restrict(t, S) \in Tables
<1>1. Restrict(t, S) \in [S -> Cities]
  BY TableDomain DEF Restrict
<1> QED BY <1>1, TableDomain, TableOf

LEMMA FilteredTyped ==
    ASSUME NEW t \in Tables, NEW f
    PROVE  Filtered(t, f) \in Tables
<1>1. {o \in DOMAIN t : Matches(t[o], f)} \in SUBSET DOMAIN t
  OBVIOUS
<1> QED BY <1>1, RestrictTyped DEF Filtered

LEMMA ChangedTyped ==
    ASSUME NEW t \in Tables, NEW x
    PROVE  Changed(t, x) \in Tables
<1>1. DOMAIN t \ {x.id} \in SUBSET DOMAIN t
  OBVIOUS
<1> QED BY <1>1, RestrictTyped DEF Changed

LEMMA WithCityTyped ==
    ASSUME data \in Tables, NEW o, NEW c \in Cities
    PROVE  WithCity(o, c) \in Tables
<1>1. WithCity(o, c) \in [DOMAIN data -> Cities]
  BY TableDomain DEF WithCity
<1> QED BY <1>1, TableDomain, TableOf

-----------------------------------------------------------------------------
(* The inductive invariant.                                                *)

(* What a handler under way is, and the filter its fetch will have.        *)
Requested(h) ==
    Working(h) =>
        /\ change[h].kind \in {"delete", "edit", "create"}
        /\ ~strayed => change[h].filter = filter

(* The fetches under way are one at most, unless two overlap.              *)
Single == ~overlapped => \A x, y \in fetches : x = y

(* The states of the table that the history names exist.                   *)
Dated ==
    /\ saved \in 1 .. Len(was) /\ since \in 1 .. Len(was)
    /\ \A h \in Handlers : change[h].at \in 0 .. Len(was)

(* A handler that has changed the list, or is to fetch for another reason. *)
Owes(h) == pc[h] = "waiting" \/ (Working(h) /\ change[h].kind # "create")

Pending == \E h \in Handlers : Owes(h)

Awaited == \E h \in Handlers : pc[h] = "waiting"

(* These rows are what the filter lets through since the run began.        *)
FromRun(rows, f) == \E v \in since .. Len(was) : rows = Filtered(was[v], f)

(* What the hook holds, as far as no fetch is to replace it.               *)
Held ==
    \/ Pending \/ fetches # {}
    \/ error /\ data = NoRows
    \/ \E f \in asked : FromRun(data, f)

(* What the fetches under way will bring.                                  *)
Coming ==
    \A x \in fetches : x.filter \in asked /\ (x.answered => FromRun(x.rows, x.filter))

(* The run began after the last deletion with an answer, or another begins *)
(* when a timer fires.                                                     *)
UpToDate == Awaited \/ overlapped \/ saved <= since

Asked == ~overlapped /\ ~strayed => asked = {filter}

Fetched == Held /\ Coming /\ UpToDate /\ Asked

IInv ==
    /\ TypeOK
    /\ \A h \in Handlers : Requested(h)
    /\ LoadingMeansFetching
    /\ Single
    /\ Dated
    /\ Fetched

-----------------------------------------------------------------------------
(* TypeOK and what the handlers ask for.                                   *)

TableOK == was \in Seq(Tables) /\ was # <<>> /\ saved \in Nat /\ moves \in Nat

ListOK ==
    /\ data \in Tables /\ filter \in Cities \cup {All}
    /\ loading \in BOOLEAN /\ error \in BOOLEAN /\ strayed \in BOOLEAN

HandlersOK ==
    /\ pc \in [Handlers -> {"idle", "sent", "loaded", "refused", "applied",
                            "waiting", "done"}]
    /\ change \in [Handlers -> Change]

FetchesOK ==
    /\ fetches \subseteq Fetch /\ overlapped \in BOOLEAN
    /\ since \in Nat /\ asked \subseteq Cities \cup {All}

LEMMA TypeParts ==
    /\ TypeOK /\ was # <<>> <=> TableOK /\ ListOK /\ HandlersOK /\ FetchesOK
    /\ (TypeOK /\ was # <<>>)' <=> TableOK' /\ ListOK' /\ HandlersOK' /\ FetchesOK'
BY Zenon DEF TypeOK, TableOK, ListOK, HandlersOK, FetchesOK

LEMMA SentTyped ==
    ASSUME NEW f \in Cities \cup {All}, Unused # {}
    PROVE  Sent(f) \in Fetch /\ Sent(f).filter = f /\ ~Sent(f).answered
<1>1. (CHOOSE n \in Unused : TRUE) \in Ns
  BY DEF Unused
<1> QED BY <1>1, NoRowsTyped DEF Sent, Fetch

LEMMA TableTyped == TableOK => Table \in Tables /\ Len(was) \in Nat \ {0}
BY DEF TableOK, Table

LEMMA NoChangeTyped == NoChange \in Change
BY DEF NoChange, Change

LEMMA StartFetchTyped ==
    ASSUME TableOK, FetchesOK, NEW f \in Cities \cup {All}, StartFetch(f)
    PROVE  FetchesOK' /\ loading' \in BOOLEAN /\ error' \in BOOLEAN
<1>1. fetches' \subseteq Fetch /\ overlapped' \in BOOLEAN
  BY SentTyped DEF StartFetch, FetchesOK
<1>2. since' \in Nat /\ asked' \subseteq Cities \cup {All}
  BY TableTyped DEF StartFetch, FetchesOK
<1> QED BY <1>1, <1>2 DEF StartFetch, FetchesOK

TypeInv ==
    /\ TableOK /\ ListOK /\ HandlersOK /\ FetchesOK
    /\ \A h \in Handlers : Requested(h)

LEMMA SettleTypeInv ==
    ASSUME TypeInv, NEW n \in Ns, Settle(n)
    PROVE  TypeInv'
<1>1. PICK x \in fetches : Answer(x) \/ Deliver(x) \/ FailFetch(x)
  BY DEF Settle
<1>2. x \in Fetch /\ x.rows \in Tables
  BY DEF TypeInv, FetchesOK, Fetch
<1>3. UNCHANGED <<was, moves, saved, pc, change, filter, since, asked, overlapped,
                  strayed>>
  BY <1>1 DEF Answer, Deliver, FailFetch, listVars, handlerVars
<1>4. FetchesOK'
  <2>1. CASE Answer(x)
    <3>1. Filtered(Table, x.filter) \in Tables
      BY TableTyped, FilteredTyped DEF TypeInv
    <3>2. [x EXCEPT !.answered = TRUE, !.rows = Filtered(Table, x.filter)] \in Fetch
      BY <1>2, <3>1 DEF Fetch
    <3> QED BY <1>3, <2>1, <3>2 DEF Answer, TypeInv, FetchesOK
  <2>2. CASE Deliver(x) \/ FailFetch(x)
    BY <1>3, <2>2 DEF Deliver, FailFetch, TypeInv, FetchesOK
  <2> QED BY <1>1, <2>1, <2>2
<1>5. ListOK'
  <2>1. data' \in Tables
    BY <1>1, <1>2, NoRowsTyped DEF Answer, Deliver, FailFetch, listVars, TypeInv, ListOK
  <2>2. loading' \in BOOLEAN /\ error' \in BOOLEAN
    BY <1>1 DEF Answer, Deliver, FailFetch, listVars, LoadingAfterwards, TypeInv, ListOK
  <2> QED BY <1>3, <2>1, <2>2 DEF TypeInv, ListOK
<1>6. TableOK' /\ HandlersOK' /\ \A h \in Handlers : Requested(h)'
  BY <1>3 DEF TypeInv, TableOK, HandlersOK, Requested, Working
<1> QED BY <1>4, <1>5, <1>6 DEF TypeInv

LEMMA ChooseTypeInv ==
    ASSUME TypeInv, NEW f \in Cities \cup {All}, ChooseFilter(f)
    PROVE  TypeInv'
<1>1. FetchesOK' /\ loading' \in BOOLEAN /\ error' \in BOOLEAN
  BY StartFetchTyped DEF TypeInv, ChooseFilter
<1>2. ListOK'
  BY <1>1 DEF ChooseFilter, TypeInv, ListOK
<1>3. TableOK' /\ HandlersOK'
  BY DEF ChooseFilter, TypeInv, TableOK, HandlersOK, handlerVars
<1>4. \A h \in Handlers : Requested(h)'
  BY DEF ChooseFilter, TypeInv, Requested, Working, handlerVars
<1> QED BY <1>1, <1>2, <1>3, <1>4 DEF TypeInv

LEMMA BeginTypeInv ==
    ASSUME TypeInv, NEW h \in Handlers, NEW kind \in {"delete", "edit", "create"},
           NEW o \in Ids \cup {0}, Begin(h, kind, o), data' \in Tables
    PROVE  TypeInv'
<1> DEFINE x == [kind |-> kind, id |-> o, filter |-> filter, at |-> 0]
<1>1. x \in Change /\ x.kind = kind /\ x.filter = filter
  BY DEF TypeInv, ListOK, Change
<1>2. /\ pc' = [pc EXCEPT ![h] = "sent"] /\ change' = [change EXCEPT ![h] = x]
      /\ UNCHANGED <<was, loading, error, filter, fetchVars, moves, saved, strayed>>
  BY DEF Begin
<1> HIDE DEF x
<1>3. HandlersOK'
  BY <1>1, <1>2 DEF TypeInv, HandlersOK
<1>4. TableOK' /\ ListOK' /\ FetchesOK'
  BY <1>2 DEF TypeInv, TableOK, ListOK, FetchesOK, fetchVars
<1>5. \A g \in Handlers : Requested(g)'
  BY <1>1, <1>2 DEF TypeInv, HandlersOK, Requested, Working
<1> QED BY <1>3, <1>4, <1>5 DEF TypeInv

LEMMA UserTypeInv ==
    ASSUME TypeInv, NEW h \in Handlers,
           \/ \E o \in Ids : Delete(h, o) \/ \E c \in Cities : Edit(h, o, c)
           \/ Create(h)
    PROVE  TypeInv'
<1>1. ASSUME NEW o \in Ids, Delete(h, o) PROVE TypeInv'
  <2>1. data' \in Tables
    <3>1. DOMAIN data \ {o} \in SUBSET DOMAIN data
      OBVIOUS
    <3> QED BY <1>1, <3>1, RestrictTyped DEF Delete, TypeInv, ListOK
  <2> QED BY <1>1, <2>1, BeginTypeInv DEF Delete
<1>2. ASSUME NEW o \in Ids, NEW c \in Cities, Edit(h, o, c) PROVE TypeInv'
  <2>1. data' \in Tables
    BY <1>2, WithCityTyped DEF Edit, TypeInv, ListOK
  <2> QED BY <1>2, <2>1, BeginTypeInv DEF Edit
<1>3. CASE Create(h)
  <2>1. data' \in Tables
    BY <1>3 DEF Create, TypeInv, ListOK
  <2> QED BY <1>3, <2>1, BeginTypeInv DEF Create
<1> QED BY <1>1, <1>2, <1>3

LEMMA ProceedTypeInv ==
    ASSUME TypeInv, NEW h \in Handlers, Proceed(h)
    PROVE  TypeInv'
<1>1. TableOK /\ ListOK /\ HandlersOK /\ FetchesOK /\ change[h] \in Change
  BY DEF TypeInv, HandlersOK
<1>2. CASE Load(h) \/ Refuse(h)
  <2>1. UNCHANGED <<was, listVars, fetchVars, change, moves, saved, strayed>>
    BY <1>2 DEF Load, Refuse
  <2>2. TableOK' /\ ListOK' /\ FetchesOK'
    BY <1>1, <2>1 DEF TableOK, ListOK, FetchesOK, listVars, fetchVars
  <2>3. HandlersOK'
    BY <1>1, <1>2, <2>1 DEF Load, Refuse, HandlersOK
  <2>4. \A g \in Handlers : Requested(g)'
    BY <1>1, <1>2, <2>1 DEF Load, Refuse, HandlersOK, TypeInv, Requested, Working, listVars
  <2> QED BY <2>2, <2>3, <2>4 DEF TypeInv
<1>3. CASE Save(h)
  <2>1. Requested(h) /\ Working(h)
    BY <1>3 DEF Save, TypeInv, Working
  <2>2. Changed(Table, change[h]) \in Tables
    BY <1>1, TableTyped, ChangedTyped
  <2>3. TableOK'
    BY <1>1, <1>3, <2>2 DEF Save, TableOK
  <2>4. ListOK' /\ FetchesOK'
    BY <1>1, <1>3 DEF Save, ListOK, FetchesOK, listVars, fetchVars
  <2>5. [change[h] EXCEPT !.at = Len(was) + 1] \in Change
    BY <1>1, TableTyped DEF Change
  <2>6. change' = [change EXCEPT ![h] = [change[h] EXCEPT !.at = Len(was) + 1]]
    BY <1>3 DEF Save
  <2>7. HandlersOK'
    BY <1>1, <1>3, <2>5, <2>6 DEF Save, HandlersOK
  <2>8. change'[h].kind = change[h].kind /\ change'[h].filter = change[h].filter
    BY <1>1, <2>6 DEF HandlersOK, Change
  <2>9. \A g \in Handlers \ {h} : change'[g] = change[g] /\ pc'[g] = pc[g]
    BY <1>1, <1>3, <2>6 DEF Save, HandlersOK
  <2>10. Requested(h)'
    BY <1>3, <2>1, <2>8 DEF Save, Requested, listVars
  <2>11. \A g \in Handlers \ {h} : Requested(g)'
    BY <1>3, <2>9 DEF Save, TypeInv, Requested, Working, listVars
  <2> QED BY <2>3, <2>4, <2>7, <2>10, <2>11 DEF TypeInv
<1>4. CASE Return(h)
  <2>1. ListOK' /\ FetchesOK'
    BY <1>1, <1>4 DEF Return, ListOK, FetchesOK, listVars, fetchVars
  <2>2. saved' \in Nat
    BY <1>1, <1>4 DEF Return, Settled, TableOK, Change
  <2>3. TableOK'
    BY <1>1, <1>4, <2>2 DEF Return, TableOK
  <2>4. HandlersOK'
    BY <1>1, <1>4 DEF Return, HandlersOK
  <2>5. \A g \in Handlers : Requested(g)'
    BY <1>1, <1>4 DEF Return, HandlersOK, TypeInv, Requested, Working, listVars
  <2> QED BY <2>1, <2>3, <2>4, <2>5 DEF TypeInv
<1>5. CASE Fire(h) \/ Catch(h)
  <2>1. /\ pc' = [pc EXCEPT ![h] = "done"] /\ change' = [change EXCEPT ![h] = NoChange]
        /\ UNCHANGED <<was, data, filter, moves, strayed>>
    BY <1>5 DEF Fire, Catch, AfterTimer
  <2>2. saved' \in Nat
    BY <1>1, <1>5 DEF Fire, Catch, Settled, TableOK, Change
  <2>3. change[h].filter \in Cities \cup {All}
    BY <1>1 DEF Change
  <2>4. \/ StartFetch(change[h].filter)
        \/ UNCHANGED <<loading, error, fetchVars>>
    BY <1>5 DEF Fire, Catch
  <2>5. FetchesOK' /\ loading' \in BOOLEAN /\ error' \in BOOLEAN
    <3>1. CASE StartFetch(change[h].filter)
      BY <1>1, <2>3, <3>1, StartFetchTyped
    <3>2. CASE UNCHANGED <<loading, error, fetchVars>>
      BY <1>1, <3>2 DEF FetchesOK, ListOK, fetchVars
    <3> QED BY <2>4, <3>1, <3>2
  <2>6. TableOK' /\ ListOK'
    BY <1>1, <2>1, <2>2, <2>5 DEF TableOK, ListOK
  <2>7. HandlersOK'
    BY <1>1, <2>1, NoChangeTyped DEF HandlersOK
  <2>8. \A g \in Handlers : Requested(g)'
    BY <1>1, <2>1 DEF HandlersOK, TypeInv, Requested, Working
  <2> QED BY <2>5, <2>6, <2>7, <2>8 DEF TypeInv
<1> QED BY <1>2, <1>3, <1>4, <1>5 DEF Proceed

LEMMA WriteTypeInv ==
    ASSUME TypeInv, NEW t \in Tables, Write(t)
    PROVE  TypeInv'
<1>1. TableOK'
  BY DEF Write, TypeInv, TableOK
<1>2. ListOK' /\ FetchesOK' /\ HandlersOK'
  BY DEF Write, TypeInv, ListOK, FetchesOK, HandlersOK, listVars, handlerVars, fetchVars
<1>3. \A h \in Handlers : Requested(h)'
  BY DEF Write, TypeInv, Requested, Working, listVars, handlerVars
<1> QED BY <1>1, <1>2, <1>3 DEF TypeInv

LEMMA InitTypeInv == Init => TypeInv
<1> SUFFICES ASSUME Init PROVE TypeInv
  OBVIOUS
<1>1. PICK t \in FirstTables : was = <<t>>
  BY DEF Init
<1>2. t \in Tables
  BY TablesAssumption DEF Tables
<1>3. TableOK
  BY <1>1, <1>2 DEF Init, TableOK
<1>4. ListOK
  BY NoRowsTyped DEF Init, ListOK
<1>5. HandlersOK /\ \A h \in Handlers : Requested(h)
  BY NoChangeTyped DEF Init, HandlersOK, Requested, Working
<1>6. FetchesOK
  <2>1. 0 \in Ns
    BY BoundsAssumption, FS_CardinalityType DEF Ns
  <2>2. fetches \subseteq Fetch
    BY <2>1, NoRowsTyped DEF Init, Fetch
  <2> QED BY <2>2 DEF Init, FetchesOK
<1> QED BY <1>3, <1>4, <1>5, <1>6 DEF TypeInv

LEMMA NextTypeInv ==
    ASSUME TypeInv, [Next]_vars
    PROVE  TypeInv'
<1>1. CASE Next
  BY <1>1, SettleTypeInv, ChooseTypeInv, UserTypeInv, ProceedTypeInv, WriteTypeInv
     DEF Next
<1>2. CASE UNCHANGED vars
  BY <1>2 DEF vars, listVars, handlerVars, fetchVars, TypeInv, TableOK, ListOK,
              HandlersOK, FetchesOK, Requested, Working
<1> QED BY <1>1, <1>2

(* Each variable keeps its type, whatever handlers and fetches do.         *)
THEOREM TypeCorrect == Spec => []TypeOK
<1>1. TypeInv => TypeOK
  BY TypeParts DEF TypeInv
<1>2. TypeInv /\ [Next]_vars => TypeInv'
  BY NextTypeInv
<1> QED BY <1>1, <1>2, InitTypeInv, PTL DEF Spec

-----------------------------------------------------------------------------
(* Loading.                                                                *)

Traffic == LoadingMeansFetching /\ Single

LEMMA StartFetchTraffic ==
    ASSUME Traffic, NEW f, StartFetch(f)
    PROVE  Traffic'
<1>1. /\ loading' = TRUE /\ fetches' = fetches \cup {Sent(f)}
      /\ overlapped' = (fetches # {})
  BY DEF StartFetch
<1>2. ~overlapped' => fetches' = {Sent(f)}
  BY <1>1
<1> QED BY <1>1, <1>2 DEF Traffic, LoadingMeansFetching, Single

LEMMA SettleTraffic ==
    ASSUME Traffic, FetchesOK, NEW n \in Ns, Settle(n)
    PROVE  /\ Traffic'
           /\ \A x \in fetches : (Deliver(x) \/ FailFetch(x)) /\ ~overlapped => fetches' = {}
<1>1. PICK x \in fetches : Answer(x) \/ Deliver(x) \/ FailFetch(x)
  BY DEF Settle
<1>2. overlapped' = overlapped
  BY <1>1 DEF Answer, Deliver, FailFetch
<1>3. CASE Answer(x)
  <2>1. PICK y : fetches' = (fetches \ {x}) \cup {y}
    BY <1>3 DEF Answer
  <2>2. fetches' # {} /\ loading' = loading
    BY <1>3, <2>1 DEF Answer, listVars
  <2>3. ~overlapped => fetches' = {y}
    BY <2>1 DEF Traffic, Single
  <2>4. Traffic'
    BY <1>1, <1>2, <2>2, <2>3 DEF Traffic, LoadingMeansFetching, Single
  <2>5. \A z \in fetches : (Deliver(z) \/ FailFetch(z)) /\ ~overlapped => fetches' = {}
    BY DEF Deliver, FailFetch, Traffic, Single
  <2> QED BY <2>4, <2>5
<1>4. CASE Deliver(x) \/ FailFetch(x)
  <2>1. fetches' = fetches \ {x} /\ loading' = FALSE
    BY <1>4 DEF Deliver, FailFetch, LoadingAfterwards
  <2>2. ~overlapped => fetches' = {}
    BY <1>1, <2>1 DEF Traffic, Single
  <2>3. Traffic'
    BY <1>2, <2>1, <2>2 DEF Traffic, LoadingMeansFetching, Single
  <2> QED BY <2>2, <2>3
<1> QED BY <1>1, <1>3, <1>4

LEMMA NextTraffic ==
    ASSUME Traffic, ListOK, FetchesOK, [Next]_vars
    PROVE  Traffic'
<1>1. ASSUME UNCHANGED <<loading, fetchVars>> PROVE Traffic'
  BY <1>1 DEF Traffic, LoadingMeansFetching, Single, fetchVars
<1>2. ASSUME NEW n \in Ns, Settle(n) PROVE Traffic'
  BY <1>2, SettleTraffic
<1>3. ASSUME NEW f \in Cities \cup {All}, ChooseFilter(f) PROVE Traffic'
  BY <1>3, StartFetchTraffic DEF ChooseFilter
<1>4. ASSUME NEW h \in Handlers, Proceed(h) PROVE Traffic'
  <2>1. CASE Load(h) \/ Save(h) \/ Refuse(h) \/ Return(h)
    BY <1>1, <2>1 DEF Load, Save, Refuse, Return, listVars
  <2>2. CASE Fire(h) \/ Catch(h)
    <3>1. \/ StartFetch(change[h].filter)
          \/ UNCHANGED <<loading, error, fetchVars>>
      BY <2>2 DEF Fire, Catch
    <3> QED BY <1>1, <3>1, StartFetchTraffic
  <2> QED BY <1>4, <2>1, <2>2 DEF Proceed
<1>5. ASSUME NEW h \in Handlers, NEW kind, NEW o, Begin(h, kind, o) PROVE Traffic'
  BY <1>1, <1>5 DEF Begin
<1>6. ASSUME NEW t \in Tables, Write(t) PROVE Traffic'
  BY <1>1, <1>6 DEF Write, listVars
<1>7. CASE UNCHANGED vars
  BY <1>1, <1>7 DEF vars, listVars
<1> QED BY <1>2, <1>3, <1>4, <1>5, <1>6, <1>7 DEF Next, Delete, Edit, Create

-----------------------------------------------------------------------------
(* What the list shows.                                                    *)

(* Tables are only ever added, and the history names those there are.      *)
LEMMA NextDated ==
    ASSUME TypeInv, Dated, [Next]_vars
    PROVE  /\ Dated' /\ Len(was') >= Len(was)
           /\ \A v \in 1 .. Len(was) : was'[v] = was[v]
<1>1. /\ was \in Seq(Tables) /\ Len(was) \in Nat \ {0}
      /\ saved \in 1 .. Len(was) /\ since \in 1 .. Len(was)
      /\ change \in [Handlers -> Change]
      /\ \A h \in Handlers : change[h].at \in 0 .. Len(was)
  BY DEF TypeInv, TableOK, HandlersOK, Dated
<1>2. ASSUME was' = was, saved' \in 1 .. Len(was), since' \in 1 .. Len(was),
             \A h \in Handlers : change'[h].at \in 0 .. Len(was)
      PROVE  /\ Dated' /\ Len(was') >= Len(was)
             /\ \A v \in 1 .. Len(was) : was'[v] = was[v]
  BY <1>1, <1>2 DEF Dated
<1>3. ASSUME NEW t, was' = Append(was, t), saved' = saved, since' = since,
             \A h \in Handlers : change'[h].at \in 0 .. Len(was) + 1
      PROVE  /\ Dated' /\ Len(was') >= Len(was)
             /\ \A v \in 1 .. Len(was) : was'[v] = was[v]
  <2>1. /\ Len(was') = Len(was) + 1
        /\ \A v \in 1 .. Len(was) : was'[v] = was[v]
    BY <1>1, <1>3
  <2> QED BY <1>1, <1>3, <2>1 DEF Dated
<1>4. /\ \A h \in Handlers : Settled(h) \in 1 .. Len(was)
      /\ \A f : StartFetch(f) => since' \in 1 .. Len(was)
  BY <1>1 DEF Settled, StartFetch
<1>5. ASSUME NEW n \in Ns, Settle(n) PROVE UNCHANGED <<was, saved, since, change>>
  BY <1>5 DEF Settle, Answer, Deliver, FailFetch, handlerVars
<1>6. ASSUME NEW f \in Cities \cup {All}, ChooseFilter(f)
      PROVE  UNCHANGED <<was, saved, change>> /\ since' \in 1 .. Len(was)
  BY <1>4, <1>6 DEF ChooseFilter, handlerVars
<1>7. ASSUME NEW h \in Handlers, Proceed(h)
      PROVE  \/ /\ was' = was /\ saved' \in 1 .. Len(was) /\ since' \in 1 .. Len(was)
                /\ \A g \in Handlers : change'[g].at \in 0 .. Len(was)
             \/ \E t : /\ was' = Append(was, t) /\ saved' = saved /\ since' = since
                       /\ \A g \in Handlers : change'[g].at \in 0 .. Len(was) + 1
  <2>1. CASE Load(h) \/ Refuse(h) \/ Return(h)
    BY <1>1, <1>4, <2>1 DEF Load, Refuse, Return, fetchVars
  <2>2. CASE Save(h)
    <3>1. \A g \in Handlers : change'[g].at \in 0 .. Len(was) + 1
      BY <1>1, <2>2 DEF Save, Change
    <3> QED BY <2>2, <3>1 DEF Save, fetchVars
  <2>3. CASE Fire(h) \/ Catch(h)
    <3>1. \A g \in Handlers : change'[g].at \in 0 .. Len(was)
      BY <1>1, <2>3 DEF Fire, Catch, NoChange
    <3>2. since' \in 1 .. Len(was)
      BY <1>1, <1>4, <2>3 DEF Fire, Catch, fetchVars
    <3> QED BY <1>1, <1>4, <2>3, <3>1, <3>2 DEF Fire, Catch
  <2> QED BY <1>7, <2>1, <2>2, <2>3 DEF Proceed
<1>8. ASSUME NEW h \in Handlers, NEW kind, NEW o, Begin(h, kind, o)
      PROVE  /\ UNCHANGED <<was, saved, since>>
             /\ \A g \in Handlers : change'[g].at \in 0 .. Len(was)
  BY <1>1, <1>8 DEF Begin, fetchVars
<1>9. ASSUME NEW t \in Tables, Write(t)
      PROVE  was' = Append(was, t) /\ UNCHANGED <<saved, since, change>>
  BY <1>9 DEF Write, handlerVars, fetchVars
<1>10. CASE UNCHANGED vars
  BY <1>1, <1>2, <1>10 DEF vars, handlerVars, fetchVars
<1>11. CASE \E n \in Ns : Settle(n)
  BY <1>1, <1>2, <1>5, <1>11
<1>12. CASE \E f \in Cities \cup {All} : ChooseFilter(f)
  BY <1>1, <1>2, <1>6, <1>12
<1>13. CASE \E h \in Handlers : Proceed(h)
  BY <1>2, <1>3, <1>7, <1>13
<1>14. CASE \E h \in Handlers : \E kind, o : Begin(h, kind, o)
  BY <1>1, <1>2, <1>8, <1>14
<1>15. CASE \E t \in Tables : Write(t)
  BY <1>1, <1>3, <1>9, <1>15
<1> QED BY <1>10, <1>11, <1>12, <1>13, <1>14, <1>15 DEF Next, Delete, Edit, Create

(* What was brought in a run is still what was brought in it, as long as   *)
(* it lasts.                                                               *)
LEMMA FromRunKept ==
    ASSUME TypeInv, Dated, [Next]_vars, since' = since, NEW rows, NEW f, FromRun(rows, f)
    PROVE  FromRun(rows, f)'
<1>1. PICK v \in since .. Len(was) : rows = Filtered(was[v], f)
  BY DEF FromRun
<1>2. v \in 1 .. Len(was) /\ since \in Nat /\ Len(was) \in Nat
  BY DEF Dated, TypeInv, TableOK
<1>3. was'[v] = was[v] /\ Len(was') >= Len(was) /\ Len(was') \in Nat
  BY <1>2, NextDated, NextTypeInv DEF TypeInv, TableOK
<1>4. v \in since' .. Len(was') /\ rows = Filtered(was'[v], f)
  BY <1>1, <1>2, <1>3
<1> QED BY <1>4 DEF FromRun

(* A step that starts a fetch, with the filter the list then has unless    *)
(* that was changed under a handler.                                       *)
LEMMA StartFetchFetched ==
    ASSUME TypeInv, Dated, Fetched, [Next]_vars, NEW f \in Cities \cup {All},
           StartFetch(f), was' = was, ~strayed' => f = filter'
    PROVE  Fetched'
<1>1. PICK x : x = Sent(f) /\ x.filter = f /\ ~x.answered /\ fetches' = fetches \cup {x}
  BY SentTyped DEF StartFetch
<1>2. Held'
  BY <1>1 DEF Held
<1>3. CASE fetches = {}
  <2>1. /\ fetches' = {x} /\ ~overlapped' /\ since' = Len(was) /\ asked' = {f}
    BY <1>1, <1>3 DEF StartFetch
  <2>2. Coming'
    BY <1>1, <2>1 DEF Coming
  <2>3. saved' <= since'
    BY <2>1, NextDated DEF Dated
  <2> QED BY <1>2, <2>1, <2>2, <2>3 DEF Fetched, UpToDate, Asked
<1>4. CASE fetches # {}
  <2>1. overlapped' = TRUE /\ since' = since /\ asked' = asked \cup {f}
    BY <1>4 DEF StartFetch
  <2>2. ASSUME NEW y \in fetches
        PROVE  y.filter \in asked' /\ (y.answered => FromRun(y.rows, y.filter)')
    BY <2>1, FromRunKept DEF Fetched, Coming
  <2>3. Coming'
    BY <1>1, <2>1, <2>2 DEF Coming
  <2> QED BY <1>2, <2>1, <2>3 DEF Fetched, UpToDate, Asked
<1> QED BY <1>3, <1>4

(* A step that leaves the list, its fetches and what is pending alone.     *)
LEMMA OtherFetched ==
    ASSUME TypeInv, Dated, Fetched, [Next]_vars,
           UNCHANGED <<data, filter, error, fetchVars, strayed, saved>>,
           \A g \in Handlers : /\ Owes(g)' <=> Owes(g)
                               /\ pc'[g] = "waiting" <=> pc[g] = "waiting"
    PROVE  Fetched'
<1>1. (Pending' <=> Pending) /\ (Awaited' <=> Awaited)
  BY DEF Pending, Awaited
<1>2. UNCHANGED <<fetches, since, asked, overlapped>>
  BY DEF fetchVars
<1>3. ASSUME NEW rows, NEW f PROVE FromRun(rows, f) => FromRun(rows, f)'
  BY <1>2, FromRunKept
<1>4. Held'
  <2>1. PICK rows : rows = data /\ rows = data'
    OBVIOUS
  <2>2. \A f \in asked : FromRun(data, f) => FromRun(rows, f)'
    BY <1>3, <2>1
  <2> QED BY <1>1, <1>2, <2>1, <2>2 DEF Fetched, Held, FromRun
<1>5. Coming'
  BY <1>2, <1>3 DEF Fetched, Coming
<1> QED BY <1>1, <1>2, <1>4, <1>5 DEF Fetched, UpToDate, Asked

LEMMA SettleFetched ==
    ASSUME TypeInv, Dated, Fetched, NEW n \in Ns, Settle(n)
    PROVE  Fetched'
<1>1. PICK x \in fetches : Answer(x) \/ Deliver(x) \/ FailFetch(x)
  BY DEF Settle
<1>2. UNCHANGED <<was, saved, filter, pc, change, since, asked, overlapped, strayed>>
  BY <1>1 DEF Answer, Deliver, FailFetch, listVars, handlerVars
<1>3. UpToDate' /\ Asked' /\ \A rows, f : FromRun(rows, f)' <=> FromRun(rows, f)
  BY <1>2 DEF Fetched, UpToDate, Awaited, Asked, FromRun
<1>4. ASSUME NEW y \in fetches \ {x}
      PROVE  y.filter \in asked' /\ (y.answered => FromRun(y.rows, y.filter)')
  BY <1>2, <1>3 DEF Fetched, Coming
<1>5. CASE Answer(x)
  <2> DEFINE y == [x EXCEPT !.answered = TRUE, !.rows = Filtered(Table, x.filter)]
  <2>1. y.filter = x.filter /\ y.rows = Filtered(Table, x.filter)
    BY DEF TypeInv, FetchesOK, Fetch
  <2>2. fetches' = (fetches \ {x}) \cup {y}
    BY <1>5 DEF Answer
  <2>3. FromRun(y.rows, x.filter)
    BY <2>1 DEF FromRun, Table, Dated, TypeInv, TableOK
  <2>4. PICK z : z = y
    OBVIOUS
  <2>5. /\ z.filter \in asked' /\ FromRun(z.rows, z.filter)'
        /\ fetches' = (fetches \ {x}) \cup {z}
    BY <1>2, <1>3, <2>1, <2>2, <2>3, <2>4 DEF Fetched, Coming
  <2>6. Coming'
    BY <1>4, <2>5 DEF Coming
  <2> QED BY <1>3, <2>5, <2>6 DEF Fetched, Held
<1>6. CASE Deliver(x)
  <2>1. fetches' = fetches \ {x} /\ x.answered /\ data' = x.rows
    BY <1>6 DEF Deliver
  <2>2. PICK f \in asked : f = x.filter /\ FromRun(x.rows, f)'
    BY <1>3, <2>1 DEF Fetched, Coming
  <2>3. Held'
    <3>1. PICK rows : rows = x.rows /\ FromRun(rows, f)'
      BY <2>2
    <3> QED BY <1>2, <2>1, <2>2, <3>1 DEF Held, FromRun
  <2>4. Coming'
    BY <1>4, <2>1 DEF Coming
  <2> QED BY <1>3, <2>3, <2>4 DEF Fetched
<1>7. CASE FailFetch(x)
  <2>1. fetches' = fetches \ {x} /\ error' = TRUE /\ data' = NoRows
    BY <1>7 DEF FailFetch
  <2>2. Coming'
    BY <1>4, <2>1 DEF Coming
  <2>3. Held'
    BY <2>1 DEF Held, NoRows
  <2> QED BY <1>3, <2>2, <2>3 DEF Fetched
<1> QED BY <1>1, <1>5, <1>6, <1>7

(* A step after which a handler owes a fetch.                              *)
LEMMA OwingFetched ==
    ASSUME Fetched, NEW h \in Handlers, Owes(h)',
           UNCHANGED <<was, filter, fetchVars, strayed>>, UpToDate'
    PROVE  Fetched'
<1>1. Held'
  BY DEF Held, Pending
<1>2. UNCHANGED <<fetches, since, asked, overlapped>>
  BY DEF fetchVars
<1>3. Coming' /\ Asked'
  BY <1>2 DEF Fetched, Coming, Asked, FromRun
<1> QED BY <1>1, <1>3 DEF Fetched

LEMMA ProceedFetched ==
    ASSUME TypeInv, Dated, Fetched, NEW h \in Handlers, Proceed(h), Next
    PROVE  Fetched'
<1>1. /\ pc \in [Handlers -> {"idle", "sent", "loaded", "refused", "applied",
                              "waiting", "done"}]
      /\ change \in [Handlers -> Change] /\ Requested(h)
  BY DEF TypeInv, HandlersOK
<1>2. CASE Load(h) \/ Save(h) \/ Refuse(h)
  <2>1. UNCHANGED <<data, filter, error, fetchVars, strayed, saved>>
    BY <1>2 DEF Load, Save, Refuse, listVars
  <2>2. \A g \in Handlers : change'[g].kind = change[g].kind
    <3>1. CASE change' = change
      BY <3>1
    <3>2. CASE change' = [change EXCEPT ![h] = [change[h] EXCEPT !.at = Len(was) + 1]]
      <4>1. change'[h].kind = change[h].kind
        BY <1>1, <3>2 DEF Change
      <4>2. \A g \in Handlers \ {h} : change'[g] = change[g]
        BY <1>1, <3>2
      <4> QED BY <4>1, <4>2
    <3> QED BY <1>2, <3>1, <3>2 DEF Load, Save, Refuse
  <2>3. \A g \in Handlers \ {h} : pc'[g] = pc[g]
    BY <1>1, <1>2 DEF Load, Save, Refuse
  <2>4. /\ pc[h] \in {"sent", "loaded"} /\ pc'[h] \in {"loaded", "applied", "refused"}
    BY <1>1, <1>2 DEF Load, Save, Refuse
  <2>5. \A g \in Handlers : /\ Owes(g)' <=> Owes(g)
                            /\ pc'[g] = "waiting" <=> pc[g] = "waiting"
    BY <2>2, <2>3, <2>4 DEF Owes, Working
  <2> QED BY <2>1, <2>5, OtherFetched
<1>3. CASE Return(h)
  <2>1. pc'[h] = "waiting"
    BY <1>1, <1>3 DEF Return
  <2>2. Owes(h)' /\ UpToDate'
    BY <2>1 DEF Owes, UpToDate, Awaited
  <2> QED BY <1>3, <2>2, OwingFetched DEF Return, listVars
<1>4. CASE (Fire(h) \/ Catch(h)) /\ StartFetch(change[h].filter)
  <2>1. was' = was /\ filter' = filter /\ strayed' = strayed /\ Working(h)
    BY <1>4 DEF Fire, Catch, Working
  <2>2. change[h].filter \in Cities \cup {All}
    BY <1>1 DEF Change
  <2>3. ~strayed => change[h].filter = filter
    BY <1>1, <2>1 DEF Requested
  <2> QED BY <1>4, <2>1, <2>2, <2>3, StartFetchFetched
<1>5. CASE Catch(h) /\ ~UndoneByFetching(h)
  <2>1. UNCHANGED <<data, filter, error, fetchVars, strayed, saved>>
    BY <1>5 DEF Catch
  <2>2. pc[h] \in {"refused", "applied"} /\ change[h].kind = "create" /\ pc'[h] = "done"
    BY <1>1, <1>5 DEF Catch, UndoneByFetching
  <2>3. \A g \in Handlers \ {h} : pc'[g] = pc[g] /\ change'[g] = change[g]
    BY <1>1, <1>5 DEF Catch
  <2>4. \A g \in Handlers : /\ Owes(g)' <=> Owes(g)
                            /\ pc'[g] = "waiting" <=> pc[g] = "waiting"
    BY <2>2, <2>3 DEF Owes, Working
  <2> QED BY <2>1, <2>4, OtherFetched
<1> QED BY <1>2, <1>3, <1>4, <1>5 DEF Proceed, Fire, Catch

LEMMA UserFetched ==
    ASSUME TypeInv, Dated, Fetched, NEW h \in Handlers, Next,
           \/ \E o \in Ids : Delete(h, o) \/ \E c \in Cities : Edit(h, o, c)
           \/ Create(h)
    PROVE  Fetched'
<1>1. PICK kind \in {"delete", "edit", "create"}, o \in Ids \cup {0} :
          /\ Begin(h, kind, o)
          /\ kind = "create" => data' = data
  BY DEF Delete, Edit, Create
<1>2. /\ UNCHANGED <<was, filter, error, fetchVars, strayed, saved>>
      /\ pc[h] = "idle" /\ pc'[h] = "sent" /\ change'[h].kind = kind
      /\ \A g \in Handlers \ {h} : pc'[g] = pc[g] /\ change'[g] = change[g]
  BY <1>1 DEF Begin, TypeInv, HandlersOK
<1>3. CASE kind = "create"
  <2>1. \A g \in Handlers : /\ Owes(g)' <=> Owes(g)
                            /\ pc'[g] = "waiting" <=> pc[g] = "waiting"
    BY <1>2, <1>3 DEF Owes, Working
  <2> QED BY <1>1, <1>2, <1>3, <2>1, OtherFetched
<1>4. CASE kind # "create"
  <2>1. Owes(h)'
    BY <1>2, <1>4 DEF Owes, Working
  <2>2. UpToDate'
    BY <1>2 DEF Fetched, UpToDate, Awaited, fetchVars
  <2> QED BY <1>2, <2>1, <2>2, OwingFetched
<1> QED BY <1>3, <1>4

LEMMA NextFetched ==
    ASSUME TypeInv, Dated, Fetched, [Next]_vars
    PROVE  Fetched'
<1>1. ASSUME NEW f \in Cities \cup {All}, ChooseFilter(f) PROVE Fetched'
  BY <1>1, StartFetchFetched DEF ChooseFilter
<1>2. ASSUME NEW t \in Tables, Write(t) PROVE Fetched'
  <2>1. /\ UNCHANGED <<data, filter, error, fetchVars, strayed, saved>>
        /\ \A g \in Handlers : /\ Owes(g)' <=> Owes(g)
                               /\ pc'[g] = "waiting" <=> pc[g] = "waiting"
    BY <1>2 DEF Write, listVars, handlerVars, Owes, Working
  <2> QED BY <2>1, OtherFetched
<1>3. CASE UNCHANGED vars
  <2>1. /\ UNCHANGED <<data, filter, error, fetchVars, strayed, saved>>
        /\ \A g \in Handlers : /\ Owes(g)' <=> Owes(g)
                               /\ pc'[g] = "waiting" <=> pc[g] = "waiting"
    BY <1>3 DEF vars, listVars, handlerVars, Owes, Working
  <2> QED BY <2>1, OtherFetched
<1>4. CASE Next
  BY <1>1, <1>2, <1>4, SettleFetched, ProceedFetched, UserFetched DEF Next
<1> QED BY <1>3, <1>4

-----------------------------------------------------------------------------

THEOREM InitIInv == Init => IInv
<1> SUFFICES ASSUME Init PROVE IInv
  OBVIOUS
<1>1. TypeInv
  BY InitTypeInv
<1>2. \A x, y \in fetches : x = y
  BY DEF Init
<1>3. LoadingMeansFetching /\ Single
  BY <1>2 DEF Init, LoadingMeansFetching, Single
<1>4. Dated
  <2>1. Len(was) = 1 /\ saved = 1 /\ since = 1
    BY DEF Init
  <2> QED BY <2>1 DEF Init, Dated, NoChange
<1>5. Fetched
  <2> DEFINE x == [n |-> 0, filter |-> All, answered |-> FALSE, rows |-> NoRows]
  <2>1. fetches = {x} /\ x.filter = All /\ ~x.answered
    BY DEF Init
  <2> HIDE DEF x
  <2>2. asked = {All} /\ filter = All /\ saved <= since
    BY DEF Init
  <2> QED BY <2>1, <2>2 DEF Fetched, Held, Coming, UpToDate, Asked
<1> QED BY <1>1, <1>3, <1>4, <1>5, TypeParts DEF IInv, TypeInv

THEOREM NextIInv == IInv /\ [Next]_vars => IInv'
<1> SUFFICES ASSUME IInv, [Next]_vars PROVE IInv'
  OBVIOUS
<1>1. TypeInv /\ Traffic /\ Dated /\ Fetched
  <2>1. was # <<>>
    BY DEF IInv, Dated
  <2> QED BY <2>1, TypeParts DEF IInv, TypeInv, Traffic
<1>2. TypeInv' /\ Traffic' /\ Dated' /\ Fetched'
  BY <1>1, NextTypeInv, NextTraffic, NextDated, NextFetched DEF TypeInv
<1> QED BY <1>2, TypeParts DEF IInv, TypeInv, Traffic

(* The list says that it loads only while a fetch is under way, and as     *)
(* long as fetches do not overlap, whenever one is.                        *)
THEOREM LoadingEnds == Spec => []LoadingMeansFetching
<1>1. IInv => LoadingMeansFetching
  BY DEF IInv
<1> QED BY <1>1, InitIInv, NextIInv, PTL DEF Spec

(* A list at rest shows an error and no rows, or the rows of a state no    *)
(* older than the last run of fetches.  If these did not overlap, that     *)
(* state has the deletions the user was answered, and no rows are missing  *)
(* unless the filter was changed under a handler.                          *)
THEOREM QuietListsAreRight == Spec => []QuietListIsRight
<1>1. IInv => QuietListIsRight
  <2> SUFFICES ASSUME Fetched, Quiet
               PROVE  /\ Shown \in Brought \/ (error /\ data = NoRows)
                      /\ ~overlapped => saved <= since
                      /\ ~overlapped /\ ~strayed => asked = {filter}
    BY DEF IInv, QuietListIsRight
  <2>1. ~Pending /\ ~Awaited /\ fetches = {}
    BY DEF Quiet, Pending, Awaited, Owes, Working
  <2>2. ASSUME NEW f \in asked, FromRun(data, f) PROVE Shown \in Brought
    BY <2>2 DEF FromRun, Shown, Brought
  <2>3. Shown \in Brought \/ (error /\ data = NoRows)
    BY <2>1, <2>2 DEF Fetched, Held
  <2> QED BY <2>1, <2>3 DEF Fetched, UpToDate, Asked
<1> QED BY <1>1, InitIInv, NextIInv, PTL DEF Spec

-----------------------------------------------------------------------------
(* Every step uses up some of the steps left.                              *)

(* The fetches under way are finitely many, and nobody has changed filter  *)
(* or table more often than the bound.                                     *)
Bounded == IsFiniteSet(fetches) /\ moves \in 0 .. MaxMoves

LEMMA NextBounded == Bounded /\ [Next]_vars => Bounded'
<1> SUFFICES ASSUME Bounded, [Next]_vars PROVE Bounded'
  OBVIOUS
<1>1. IsFiniteSet(fetches') /\ moves' \in 0 .. MaxMoves => Bounded'
  BY DEF Bounded
<1>2. ASSUME UNCHANGED <<fetches, moves>> PROVE Bounded'
  BY <1>2 DEF Bounded
<1>3. ASSUME NEW f, StartFetch(f) PROVE IsFiniteSet(fetches')
  BY <1>3, FS_AddElement DEF StartFetch, Bounded
<1>4. ASSUME NEW n \in Ns, Settle(n) PROVE Bounded'
  <2>1. PICK x \in fetches : Answer(x) \/ Deliver(x) \/ FailFetch(x)
    BY <1>4 DEF Settle
  <2>2. IsFiniteSet(fetches \ {x})
    BY FS_RemoveElement DEF Bounded
  <2>3. \A y : IsFiniteSet((fetches \ {x}) \cup {y})
    BY <2>2, FS_AddElement
  <2> QED BY <2>1, <2>2, <2>3 DEF Answer, Deliver, FailFetch, Bounded
<1>5. ASSUME NEW f \in Cities \cup {All}, ChooseFilter(f) PROVE Bounded'
  <2>1. moves' \in 0 .. MaxMoves
    BY <1>5, BoundsAssumption DEF ChooseFilter, Bounded
  <2> QED BY <1>1, <1>3, <1>5, <2>1 DEF ChooseFilter
<1>6. ASSUME NEW h \in Handlers, Proceed(h) PROVE Bounded'
  <2>1. CASE Load(h) \/ Save(h) \/ Refuse(h) \/ Return(h)
    BY <1>2, <2>1 DEF Load, Save, Refuse, Return, fetchVars
  <2>2. CASE Fire(h) \/ Catch(h)
    BY <1>1, <1>2, <1>3, <2>2 DEF Fire, Catch, Bounded, fetchVars
  <2> QED BY <1>6, <2>1, <2>2 DEF Proceed
<1>7. ASSUME NEW h \in Handlers, NEW kind, NEW o, Begin(h, kind, o) PROVE Bounded'
  BY <1>2, <1>7 DEF Begin, fetchVars
<1>8. ASSUME NEW t \in Tables, Write(t) PROVE Bounded'
  BY <1>8, BoundsAssumption DEF Write, Bounded, fetchVars
<1>9. CASE UNCHANGED vars
  BY <1>2, <1>9 DEF vars, fetchVars
<1> QED BY <1>4, <1>5, <1>6, <1>7, <1>8, <1>9 DEF Next, Delete, Edit, Create

LEMMA InitBounded == Init => Bounded
<1> SUFFICES ASSUME Init PROVE Bounded
  OBVIOUS
<1>1. PICK x : fetches = {x}
  BY DEF Init
<1>2. IsFiniteSet(fetches)
  BY <1>1, FS_Singleton
<1> QED BY <1>2, BoundsAssumption DEF Init, Bounded

(* One more or one less.                                                   *)
LEMMA OneMore ==
    ASSUME NEW S, IsFiniteSet(S), NEW x
    PROVE  /\ IsFiniteSet(S \cup {x})
           /\ Cardinality(S \cup {x}) \in Nat /\ Cardinality(S) \in Nat
           /\ Cardinality(S \cup {x}) <= Cardinality(S) + 1
<1>1. PICK n \in Nat : n = Cardinality(S)
  BY FS_CardinalityType
<1>2. Cardinality(S \cup {x}) \in {n, n + 1}
  BY <1>1, FS_AddElement
<1> QED BY <1>1, <1>2, FS_AddElement

LEMMA OneLess ==
    ASSUME NEW S, IsFiniteSet(S), NEW x \in S
    PROVE  /\ IsFiniteSet(S \ {x})
           /\ Cardinality(S \ {x}) \in Nat /\ Cardinality(S) \in Nat
           /\ Cardinality(S \ {x}) = Cardinality(S) - 1
BY FS_RemoveElement, FS_CardinalityType

(* A smaller set has no more.                                              *)
LEMMA NoMore ==
    ASSUME NEW S, IsFiniteSet(S), NEW T, T \subseteq S
    PROVE  /\ IsFiniteSet(T)
           /\ Cardinality(T) \in Nat /\ Cardinality(S) \in Nat
           /\ Cardinality(T) <= Cardinality(S)
BY FS_Subset, FS_CardinalityType

Unanswered == {x \in fetches : ~x.answered}

LEMMA StepsTyped ==
    ASSUME Bounded
    PROVE  /\ IsFiniteSet(StepsAhead) /\ IsFiniteSet(Unanswered)
           /\ Cardinality(StepsAhead) \in Nat /\ FetchSteps \in Nat
<1>1. IsFiniteSet(Handlers \X (1..7))
  <2>1. PICK n \in Int : n = 7
    OBVIOUS
  <2>2. IsFiniteSet(1..n)
    BY FS_Interval
  <2> QED BY <2>1, <2>2, BoundsAssumption, FS_Product
<1>2. StepsAhead \subseteq Handlers \X (1..7)
  BY DEF StepsAhead
<1>3. IsFiniteSet(StepsAhead) /\ IsFiniteSet(Unanswered)
  BY <1>1, <1>2, FS_Subset DEF Bounded, Unanswered
<1> QED BY <1>3, FS_CardinalityType DEF Bounded, FetchSteps, Unanswered

(* A handler comes to a state that is less far from its end.               *)
GoesOn(h, state) ==
    /\ pc' = [pc EXCEPT ![h] = state]
    /\ StepsOf(state) \in 0..6 /\ StepsOf(pc[h]) \in 1..7
    /\ StepsOf(state) < StepsOf(pc[h])

(* A handler that goes on has a step less, and one that is done from where *)
(* it may fetch has three.                                                 *)
LEMMA HandlerGoesOn ==
    ASSUME Bounded, HandlersOK, NEW h \in Handlers, NEW state,
           GoesOn(h, state)
    PROVE  /\ Cardinality(StepsAhead') <= Cardinality(StepsAhead) - 1
           /\ StepsOf(state) = 0 /\ StepsOf(pc[h]) >= 3 =>
                  Cardinality(StepsAhead') <= Cardinality(StepsAhead) - 3
           /\ IsFiniteSet(StepsAhead')
<1> DEFINE n == StepsOf(pc[h])
           left == {s \in Handlers \X (1..7) : s[2] <= StepsOf(pc'[s[1]])}
<1>1. StepsAhead' = left
  BY DEF StepsAhead
<1>2. /\ <<h, n>> \in StepsAhead /\ left \subseteq StepsAhead \ {<<h, n>>}
      /\ \A k \in 1..7 : k <= n => <<h, k>> \in StepsAhead
      /\ \A k \in 1..7 : StepsOf(state) = 0 => <<h, k>> \notin left
  BY DEF StepsAhead, HandlersOK, GoesOn
<1> HIDE DEF left
<1>3. IsFiniteSet(StepsAhead) /\ Cardinality(StepsAhead) \in Nat
  BY StepsTyped
<1>4. /\ IsFiniteSet(left)
      /\ Cardinality(left) <= Cardinality(StepsAhead \ {<<h, n>>})
  BY <1>2, <1>3, FS_RemoveElement, FS_Subset
<1>5. Cardinality(StepsAhead \ {<<h, n>>}) = Cardinality(StepsAhead) - 1
  BY <1>2, <1>3, FS_RemoveElement
<1>6. ASSUME StepsOf(state) = 0, n >= 3
      PROVE  Cardinality(left) <= Cardinality(StepsAhead) - 3
  <2> DEFINE one   == StepsAhead \ {<<h, 1>>}
             two   == one \ {<<h, 2>>}
             three == two \ {<<h, 3>>}
  <2>1. /\ <<h, 1>> \in StepsAhead /\ <<h, 2>> \in one /\ <<h, 3>> \in two
        /\ left \subseteq three
    <3>1. n \in 3..7
      BY <1>6 DEF GoesOn
    <3>2. \A k \in 1..3 : <<h, k>> \in StepsAhead /\ <<h, k>> \notin left
      BY <1>2, <1>6, <3>1
    <3> QED BY <1>2, <3>2
  <2>2. IsFiniteSet(one) /\ Cardinality(one) = Cardinality(StepsAhead) - 1
    BY <1>3, <2>1, OneLess
  <2>3. IsFiniteSet(two) /\ Cardinality(two) = Cardinality(one) - 1
    <3> HIDE DEF one
    <3> QED BY <2>1, <2>2, OneLess
  <2>4. IsFiniteSet(three) /\ Cardinality(three) = Cardinality(two) - 1
    <3> HIDE DEF one, two
    <3> QED BY <2>1, <2>3, OneLess
  <2> HIDE DEF one, two, three
  <2>5. Cardinality(left) <= Cardinality(three)
    BY <2>1, <2>4, FS_Subset
  <2>6. Cardinality(left) \in Nat
    BY <1>4, FS_CardinalityType
  <2> QED BY <1>3, <2>2, <2>3, <2>4, <2>5, <2>6
<1> QED BY <1>1, <1>3, <1>4, <1>5, <1>6

(* A fetch that is answered has a step less, and one that arrives or fails *)
(* has none.                                                               *)
LEMMA FetchGoesOn ==
    ASSUME Bounded, NEW n \in Ns, Settle(n)
    PROVE  FetchSteps' \in Nat /\ FetchSteps' <= FetchSteps - 1
<1>1. PICK x \in fetches : Answer(x) \/ Deliver(x) \/ FailFetch(x)
  BY DEF Settle
<1>2. IsFiniteSet(fetches) /\ IsFiniteSet(Unanswered)
  BY StepsTyped DEF Bounded
<1>3. /\ IsFiniteSet(fetches \ {x}) /\ Cardinality(fetches) \in Nat
      /\ Cardinality(fetches \ {x}) = Cardinality(fetches) - 1
  BY <1>2, OneLess
<1>4. CASE Answer(x)
  <2>1. PICK y : fetches' = (fetches \ {x}) \cup {y} /\ y.answered /\ ~x.answered
    <3>1. [x EXCEPT !.answered = TRUE, !.rows = Filtered(Table, x.filter)].answered
      BY <1>4 DEF Answer
    <3> QED BY <1>4, <3>1 DEF Answer
  <2>2. Cardinality(fetches') \in Nat /\ Cardinality(fetches') <= Cardinality(fetches)
    <3> DEFINE rest == fetches \ {x}
    <3>1. /\ Cardinality(rest \cup {y}) \in Nat /\ Cardinality(rest) \in Nat
          /\ Cardinality(rest \cup {y}) <= Cardinality(rest) + 1
      BY <1>3, OneMore
    <3> QED BY <1>3, <2>1, <3>1
  <2>3. x \in Unanswered /\ Unanswered' \subseteq Unanswered \ {x}
    BY <2>1 DEF Unanswered
  <2>4. /\ IsFiniteSet(Unanswered \ {x}) /\ Cardinality(Unanswered) \in Nat
        /\ Cardinality(Unanswered \ {x}) = Cardinality(Unanswered) - 1
    BY <1>2, <2>3, OneLess
  <2>5. /\ Cardinality(Unanswered') \in Nat
        /\ Cardinality(Unanswered') <= Cardinality(Unanswered) - 1
    BY <2>3, <2>4, NoMore
  <2> QED BY <1>3, <2>2, <2>4, <2>5 DEF FetchSteps, Unanswered
<1>5. CASE Deliver(x) \/ FailFetch(x)
  <2>1. fetches' = fetches \ {x}
    BY <1>5 DEF Deliver, FailFetch
  <2>2. Unanswered' \subseteq Unanswered
    BY <2>1 DEF Unanswered
  <2>3. /\ Cardinality(Unanswered') \in Nat /\ Cardinality(Unanswered) \in Nat
        /\ Cardinality(Unanswered') <= Cardinality(Unanswered)
    BY <1>2, <2>2, NoMore
  <2>4. Cardinality(fetches') \in Nat /\ Cardinality(fetches') = Cardinality(fetches) - 1
    BY <1>2, <1>3, <2>1, OneLess
  <2> QED BY <1>3, <2>3, <2>4 DEF FetchSteps, Unanswered
<1> QED BY <1>1, <1>4, <1>5

(* A new fetch has two.                                                    *)
LEMMA FetchStarts ==
    ASSUME Bounded, NEW f, StartFetch(f)
    PROVE  FetchSteps' \in Nat /\ FetchSteps' <= FetchSteps + 2
<1>1. PICK x : fetches' = fetches \cup {x}
  BY DEF StartFetch
<1>2. IsFiniteSet(fetches) /\ IsFiniteSet(Unanswered)
  BY StepsTyped DEF Bounded
<1>3. /\ Cardinality(fetches') \in Nat /\ Cardinality(fetches) \in Nat
      /\ Cardinality(fetches') <= Cardinality(fetches) + 1
  BY <1>1, <1>2, OneMore
<1>4. Unanswered' \subseteq Unanswered \cup {x}
  BY <1>1 DEF Unanswered
<1>5. /\ IsFiniteSet(Unanswered \cup {x}) /\ Cardinality(Unanswered) \in Nat
      /\ Cardinality(Unanswered \cup {x}) <= Cardinality(Unanswered) + 1
      /\ Cardinality(Unanswered \cup {x}) \in Nat
  BY <1>2, OneMore
<1>6. /\ Cardinality(Unanswered') \in Nat
      /\ Cardinality(Unanswered') <= Cardinality(Unanswered \cup {x})
  BY <1>4, <1>5, NoMore
<1> QED BY <1>3, <1>5, <1>6 DEF FetchSteps, Unanswered

(* Every step leaves fewer steps, and never less than none.                *)
LEMMA StepUsesUp ==
    ASSUME Bounded, HandlersOK, Next
    PROVE  StepsLeft' \in 0 .. StepsLeft - 1
<1>1. PICK a \in Nat : a = Cardinality(StepsAhead)
  BY StepsTyped
<1>2. PICK b \in Nat : b = FetchSteps
  BY StepsTyped
<1>3. PICK c \in 0 .. MaxMoves : c = moves
  BY DEF Bounded
<1>4. MaxMoves \in Nat
  BY BoundsAssumption
(* What a step adds and takes away, part by part.                          *)
<1>5. ASSUME NEW d \in Nat, NEW e \in Nat, NEW m \in c .. MaxMoves,
             Cardinality(StepsAhead') = d, FetchSteps' = e, moves' = m,
             d + e + 3 * c < a + b + 3 * m
      PROVE  StepsLeft' \in 0 .. StepsLeft - 1
  <2>1. StepsLeft' = d + e + 3 * (MaxMoves - m)
    BY <1>5 DEF StepsLeft
  <2>2. StepsLeft = a + b + 3 * (MaxMoves - c)
    BY <1>1, <1>2, <1>3 DEF StepsLeft
  <2> QED BY <1>4, <1>5, <2>1, <2>2
<1>6. pc' = pc => Cardinality(StepsAhead') = a
  BY <1>1 DEF StepsAhead
<1>7. fetches' = fetches => FetchSteps' = b
  BY <1>2 DEF FetchSteps
<1>8. ASSUME NEW n \in Ns, Settle(n) PROVE StepsLeft' \in 0 .. StepsLeft - 1
  <2>1. Cardinality(StepsAhead') = a /\ moves' = c
    BY <1>3, <1>6, <1>8 DEF Settle, Answer, Deliver, FailFetch, handlerVars
  <2>2. PICK e \in Nat : e = FetchSteps' /\ e < b
    BY <1>2, <1>8, FetchGoesOn
  <2> QED BY <1>5, <2>1, <2>2
<1>9. ASSUME NEW f, StartFetch(f)
      PROVE  \E e \in Nat : e = FetchSteps' /\ e <= b + 2
  BY <1>2, <1>9, FetchStarts
<1>10. ASSUME NEW f, ChooseFilter(f) PROVE StepsLeft' \in 0 .. StepsLeft - 1
  <2>1. Cardinality(StepsAhead') = a /\ moves' = c + 1 /\ c + 1 \in c .. MaxMoves
    BY <1>3, <1>4, <1>6, <1>10 DEF ChooseFilter, handlerVars
  <2>2. PICK e \in Nat : e = FetchSteps' /\ e <= b + 2
    BY <1>9, <1>10 DEF ChooseFilter
  <2>3. a + e + 3 * c < a + b + 3 * (c + 1)
    <3>1. PICK m \in Int : m = 3 * c
      BY <1>4
    <3>2. 3 * (c + 1) = m + 3
      BY <1>4, <3>1
    <3>3. e <= b + 2
      BY <2>2
    <3>4. a + e + m < a + b + (m + 3)
      BY <3>3
    <3> QED BY <3>1, <3>2, <3>4
  <2> QED BY <1>5, <2>1, <2>2, <2>3
<1>11. ASSUME NEW t, Write(t) PROVE StepsLeft' \in 0 .. StepsLeft - 1
  <2>1. Cardinality(StepsAhead') = a /\ moves' = c + 1 /\ c + 1 \in c .. MaxMoves
    BY <1>3, <1>4, <1>6, <1>11 DEF Write, handlerVars
  <2>2. FetchSteps' = b /\ a + b + 3 * c < a + b + 3 * (c + 1)
    BY <1>3, <1>7, <1>11 DEF Write, fetchVars
  <2> QED BY <1>5, <2>1, <2>2
<1>12. ASSUME NEW h \in Handlers, NEW state, GoesOn(h, state)
       PROVE  \E d \in Nat : /\ d = Cardinality(StepsAhead') /\ d <= a - 1
                             /\ StepsOf(state) = 0 /\ StepsOf(pc[h]) >= 3 => d <= a - 3
  <2>1. Cardinality(StepsAhead') \in Nat
    BY <1>12, HandlerGoesOn, FS_CardinalityType
  <2>2. /\ Cardinality(StepsAhead') <= a - 1
        /\ StepsOf(state) = 0 /\ StepsOf(pc[h]) >= 3 =>
               Cardinality(StepsAhead') <= a - 3
    BY <1>1, <1>12, HandlerGoesOn
  <2> QED BY <2>1, <2>2
<1>13. ASSUME NEW h \in Handlers, NEW state, GoesOn(h, state), UNCHANGED <<fetches, moves>>
       PROVE  StepsLeft' \in 0 .. StepsLeft - 1
  <2>1. PICK d \in Nat : d = Cardinality(StepsAhead') /\ d <= a - 1
    BY <1>12, <1>13
  <2>2. FetchSteps' = b /\ moves' = c /\ d + b + 3 * c < a + b + 3 * c
    BY <1>3, <1>7, <1>13, <2>1
  <2> QED BY <1>3, <1>5, <2>1, <2>2
<1>14. ASSUME NEW h \in Handlers, NEW f, StartFetch(f), moves' = moves,
              pc' = [pc EXCEPT ![h] = "done"],
              pc[h] \in {"refused", "applied", "waiting"}
       PROVE  StepsLeft' \in 0 .. StepsLeft - 1
  <2>1. /\ StepsOf("done") = 0 /\ StepsOf(pc[h]) \in 3..4
        /\ GoesOn(h, "done")
    BY <1>14 DEF StepsOf, GoesOn
  <2>2. PICK d \in Nat : d = Cardinality(StepsAhead') /\ d <= a - 3
    BY <1>12, <1>14, <2>1
  <2>3. PICK e \in Nat : e = FetchSteps' /\ e <= b + 2
    BY <1>9, <1>14
  <2>4. moves' = c /\ d + e + 3 * c < a + b + 3 * c
    BY <1>3, <1>14, <2>2, <2>3
  <2> QED BY <1>3, <1>5, <2>2, <2>3, <2>4
<1>15. /\ StepsOf("idle") = 7 /\ StepsOf("sent") = 6 /\ StepsOf("loaded") = 5
       /\ StepsOf("applied") = 4 /\ StepsOf("waiting") = 3
       /\ StepsOf("refused") = 3 /\ StepsOf("done") = 0
  BY DEF StepsOf
<1>16. ASSUME NEW h \in Handlers, Proceed(h)
       PROVE  StepsLeft' \in 0 .. StepsLeft - 1
  <2>1. CASE Load(h)
    <3>1. GoesOn(h, "loaded")
      BY <1>15, <2>1 DEF Load, GoesOn
    <3> QED BY <1>13, <2>1, <3>1 DEF Load, fetchVars
  <2>2. CASE Save(h)
    <3>1. GoesOn(h, "applied")
      BY <1>15, <2>2 DEF Save, GoesOn
    <3> QED BY <1>13, <2>2, <3>1 DEF Save, fetchVars
  <2>3. CASE Refuse(h)
    <3>1. GoesOn(h, "refused")
      BY <1>15, <2>3 DEF Refuse, GoesOn
    <3> QED BY <1>13, <2>3, <3>1 DEF Refuse, fetchVars
  <2>4. CASE Return(h)
    <3>1. GoesOn(h, "waiting")
      BY <1>15, <2>4 DEF Return, GoesOn
    <3> QED BY <1>13, <2>4, <3>1 DEF Return, fetchVars
  <2>5. CASE Fire(h)
    BY <1>14, <2>5 DEF Fire, AfterTimer
  <2>6. CASE Catch(h) /\ UndoneByFetching(h)
    BY <1>14, <2>6 DEF Catch
  <2>7. CASE Catch(h) /\ ~UndoneByFetching(h)
    <3>1. GoesOn(h, "done")
      BY <1>15, <2>7 DEF Catch, GoesOn
    <3> QED BY <1>13, <2>7, <3>1 DEF Catch, fetchVars
  <2> QED BY <1>16, <2>1, <2>2, <2>3, <2>4, <2>5, <2>6, <2>7 DEF Proceed
<1>17. ASSUME NEW h \in Handlers, NEW kind, NEW o, Begin(h, kind, o)
       PROVE  StepsLeft' \in 0 .. StepsLeft - 1
  <2>1. GoesOn(h, "sent")
    BY <1>15, <1>17 DEF Begin, GoesOn
  <2> QED BY <1>13, <1>17, <2>1 DEF Begin, fetchVars
<1> QED BY <1>8, <1>10, <1>11, <1>16, <1>17 DEF Next, Delete, Edit, Create

(* The list's traffic runs out: every step uses up one of a number that is *)
(* settled at first, whatever answers come in whatever order.              *)
THEOREM TrafficIsBounded == Spec => TrafficRunsOut
<1>1. IInv => HandlersOK
  BY Zenon DEF IInv, TypeOK, HandlersOK
<1>2. IInv /\ Bounded /\ [Next]_vars => [StepsLeft' \in 0 .. StepsLeft - 1]_vars
  BY <1>1, StepUsesUp
<1> QED
  BY <1>2, InitIInv, NextIInv, InitBounded, NextBounded, PTL DEF Spec, TrafficRunsOut

-----------------------------------------------------------------------------
(* The numbers that tell fetches apart never run out, so that their bound  *)
(* keeps nobody from starting one: each is due to a change of the filter   *)
(* or to a handler that is done, but for the first.                        *)

Ended == {h \in Handlers : pc[h] = "done"}

Accounted == Cardinality(fetches) <= 1 + moves + Cardinality(Ended)

AlwaysFree ==
    /\ moves < MaxMoves => Unused # {}
    /\ \A h \in Handlers : pc[h] # "done" => Unused # {}

LEMMA EndedFinite ==
    /\ IsFiniteSet(Ended) /\ Cardinality(Ended) \in Nat
    /\ Cardinality(Ended) <= Cardinality(Handlers)
    /\ \A h \in Handlers : pc[h] # "done" => Cardinality(Ended) < Cardinality(Handlers)
<1>1. /\ IsFiniteSet(Ended) /\ Cardinality(Ended) \in Nat
      /\ Cardinality(Ended) <= Cardinality(Handlers)
      /\ Cardinality(Handlers) \in Nat
  BY BoundsAssumption, NoMore DEF Ended
<1>2. Cardinality(Ended) = Cardinality(Handlers) => Ended = Handlers
  BY BoundsAssumption, FS_Subset DEF Ended
<1> QED BY <1>1, <1>2 DEF Ended

LEMMA FreeNumber ==
    ASSUME NEW F, IsFiniteSet(F), NEW N \in Nat, Cardinality(F) <= N
    PROVE  0 .. N \ {x.n : x \in F} # {}
<1> DEFINE S == {x.n : x \in F}
<1>1. IsFiniteSet(S) /\ Cardinality(S) <= Cardinality(F)
  <2>1. PICK f : f = [x \in F |-> x.n]
    OBVIOUS
  <2>2. /\ f \in [F -> S]
        /\ \A t \in S : \E x \in F : f[x] = t
    BY <2>1
  <2>3. f \in Surjection(F, S)
    BY <2>2, Zenon DEF Surjection
  <2> QED BY <2>3, FS_Surjection
<1>2. Cardinality(0 .. N) = N + 1
  BY FS_Interval
<1>3. Cardinality(S) \in Nat /\ Cardinality(F) \in Nat
  BY <1>1, FS_CardinalityType
<1> HIDE DEF S
<1>4. 0 .. N \subseteq S => N + 1 <= Cardinality(S)
  BY <1>1, <1>2, FS_Subset
<1>5. ~(0 .. N \subseteq S)
  BY <1>1, <1>3, <1>4
<1> QED BY <1>5 DEF S

LEMMA AccountedIsFree == Bounded /\ Accounted => AlwaysFree
<1> SUFFICES ASSUME Bounded, Accounted PROVE AlwaysFree
  OBVIOUS
<1>1. PICK c \in Nat : c = Cardinality(Handlers)
  BY BoundsAssumption, FS_CardinalityType
<1>2. PICK m \in Nat : m = MaxMoves
  BY BoundsAssumption
<1>3. Cardinality(fetches) <= m + c => Unused # {}
  <2>1. Ns = 0 .. m + c
    BY <1>1, <1>2 DEF Ns
  <2> QED BY <1>1, <1>2, <2>1, FreeNumber DEF Bounded, Unused
<1>4. Cardinality(fetches) \in Nat
  BY FS_CardinalityType DEF Bounded
<1>5. Cardinality(fetches) <= 1 + moves + Cardinality(Ended) /\ moves \in 0 .. m
  BY <1>2 DEF Bounded, Accounted
<1>6. moves < MaxMoves => Cardinality(fetches) <= m + c
  BY <1>1, <1>2, <1>4, <1>5, EndedFinite
<1>7. \A h \in Handlers : pc[h] # "done" => Cardinality(fetches) <= m + c
  BY <1>1, <1>2, <1>4, <1>5, EndedFinite
<1> QED BY <1>3, <1>6, <1>7 DEF AlwaysFree

LEMMA NextAccounted ==
    ASSUME Bounded, Bounded', HandlersOK, Accounted, [Next]_vars
    PROVE  Accounted'
<1>1. PICK f \in Nat : f = Cardinality(fetches)
  BY FS_CardinalityType DEF Bounded
<1>2. PICK g \in Nat : g = Cardinality(Ended)
  BY EndedFinite
<1>3. moves \in Nat /\ moves' \in Nat /\ f <= 1 + moves + g
  BY <1>1, <1>2 DEF Bounded, Accounted
<1>4. /\ Cardinality(fetches') \in Nat
      /\ \A h : IsFiniteSet(Ended \cup {h})
  BY EndedFinite, FS_CardinalityType, FS_AddElement DEF Bounded
<1>5. Ended \subseteq Ended' => Cardinality(Ended') \in Nat /\ Cardinality(Ended') >= g
  <2>1. Ended' \subseteq Handlers
    BY DEF Ended
  <2>2. IsFiniteSet(Ended')
    BY <2>1, BoundsAssumption, NoMore
  <2> QED BY <1>2, <2>2, NoMore
<1>6. ASSUME Ended \subseteq Ended', moves' >= moves, Cardinality(fetches') <= f
      PROVE  Accounted'
  BY <1>3, <1>4, <1>5, <1>6 DEF Accounted
<1>7. ASSUME NEW k, StartFetch(k) PROVE Cardinality(fetches') <= f + 1
  BY <1>1, <1>7, OneMore DEF StartFetch, Bounded
<1>8. ASSUME NEW n \in Ns, Settle(n) PROVE Accounted'
  <2>1. PICK x \in fetches : Answer(x) \/ Deliver(x) \/ FailFetch(x)
    BY <1>8 DEF Settle
  <2>2. pc' = pc /\ moves' = moves
    BY <2>1 DEF Answer, Deliver, FailFetch, handlerVars
  <2>3. PICK rest : rest = fetches \ {x}
    OBVIOUS
  <2>4. IsFiniteSet(rest) /\ Cardinality(rest) \in Nat /\ Cardinality(rest) = f - 1
    BY <1>1, <2>3, OneLess DEF Bounded
  <2>5. fetches' = rest \/ \E y : fetches' = rest \cup {y}
    BY <2>1, <2>3 DEF Answer, Deliver, FailFetch
  <2>6. Cardinality(fetches') <= f
    <3>1. CASE fetches' = rest
      BY <2>4, <3>1
    <3>2. ASSUME NEW y, fetches' = rest \cup {y} PROVE Cardinality(fetches') <= f
      <4>1. Cardinality(rest \cup {y}) <= Cardinality(rest) + 1
        BY <2>4, OneMore
      <4> QED BY <1>4, <2>4, <3>2, <4>1
    <3> QED BY <2>5, <3>1, <3>2
  <2> QED BY <1>3, <1>6, <2>2, <2>6 DEF Ended
<1>9. ASSUME NEW k \in Cities \cup {All}, ChooseFilter(k) PROVE Accounted'
  <2>1. Cardinality(fetches') <= f + 1 /\ moves' = moves + 1
    BY <1>7, <1>9 DEF ChooseFilter
  <2>2. Cardinality(Ended') = g
    BY <1>2, <1>9 DEF ChooseFilter, Ended, handlerVars
  <2> QED BY <1>3, <1>4, <2>1, <2>2 DEF Accounted
<1>10. ASSUME NEW h \in Handlers, pc[h] # "done", moves' = moves,
              pc' = [pc EXCEPT ![h] = "done"], Cardinality(fetches') <= f + 1
       PROVE  Accounted'
  <2>1. Ended' = Ended \cup {h} /\ h \notin Ended
    BY <1>10 DEF Ended, HandlersOK
  <2>2. Cardinality(Ended') = g + 1
    BY <1>2, <2>1, EndedFinite, FS_AddElement
  <2> QED BY <1>3, <1>4, <1>10, <2>2 DEF Accounted
<1>11. ASSUME NEW h \in Handlers, Proceed(h) PROVE Accounted'
  <2>1. CASE Load(h) \/ Save(h) \/ Refuse(h) \/ Return(h)
    <3>1. /\ fetches' = fetches /\ moves' = moves /\ pc[h] # "done"
          /\ \A k \in Handlers \ {h} : pc'[k] = pc[k]
      BY <2>1 DEF Load, Save, Refuse, Return, HandlersOK, fetchVars
    <3>2. Ended \subseteq Ended'
      BY <3>1 DEF Ended
    <3> QED BY <1>1, <1>3, <1>6, <3>1, <3>2
  <2>2. CASE Fire(h)
    BY <1>7, <1>10, <2>2 DEF Fire, AfterTimer
  <2>3. CASE Catch(h)
    <3>1. Cardinality(fetches') <= f + 1
      BY <1>1, <1>7, <2>3 DEF Catch, fetchVars
    <3> QED BY <1>10, <2>3, <3>1 DEF Catch
  <2> QED BY <1>11, <2>1, <2>2, <2>3 DEF Proceed
<1>12. ASSUME NEW h \in Handlers, NEW kind, NEW o, Begin(h, kind, o)
       PROVE  Accounted'
  <2>1. Ended \subseteq Ended'
    BY <1>12 DEF Begin, Ended, HandlersOK
  <2> QED BY <1>1, <1>3, <1>6, <1>12, <2>1 DEF Begin, fetchVars
<1>13. ASSUME NEW t, Write(t) PROVE Accounted'
  BY <1>1, <1>3, <1>6, <1>13 DEF Write, Ended, handlerVars, fetchVars
<1>14. CASE UNCHANGED vars
  BY <1>1, <1>3, <1>6, <1>14 DEF vars, Ended, handlerVars, fetchVars
<1> QED
  BY <1>8, <1>9, <1>11, <1>12, <1>13, <1>14 DEF Next, Delete, Edit, Create

(* Whoever is to start a fetch finds a number for it: the fetches that the *)
(* model has names for are all there can be.                               *)
THEOREM NumbersSuffice == Spec => []AlwaysFree
<1>1. Init => Accounted
  <2> SUFFICES ASSUME Init PROVE Accounted
    OBVIOUS
  <2>1. PICK x : fetches = {x}
    BY DEF Init
  <2>2. Cardinality(fetches) = 1 /\ moves = 0
    BY <2>1, FS_Singleton DEF Init
  <2> QED BY <2>2, EndedFinite DEF Accounted
<1>2. IInv => HandlersOK
  BY Zenon DEF IInv, TypeOK, HandlersOK
<1>3. IInv /\ Bounded /\ Accounted /\ [Next]_vars => Bounded' /\ Accounted'
  BY <1>2, NextBounded, NextAccounted
<1> QED
  BY <1>1, <1>3, InitIInv, NextIInv, InitBounded, AccountedIsFree, PTL DEF Spec

=============================================================================
