---------------------------- MODULE EnrichedOrders ----------------------------
(***************************************************************************)
(* The pages of enriched orders (GET /enriched_orders,                     *)
(* backend/src/enriched-orders/enriched-orders.service.ts): a read-through *)
(* cache in Redis over a count and a page that are two SELECTs outside any *)
(* transaction.  The requests that write orders tell the cache nothing:    *)
(* an entry goes when its time to live is over, when somebody clears all   *)
(* caches, or when somebody invalidates a pattern of keys, which           *)
(* ProductionCacheService (backend/src/cache/production-cache.service.ts)  *)
(* does behind the back of the request that asked for it.                  *)
(*                                                                         *)
(* The cache is enabled, and pages are sorted as they are by default.  A   *)
(* query stands for all that generateCacheKey gives one key.  That no two  *)
(* with different filters are among them takes that no value holds a       *)
(* colon, with which the parts of a key are joined.  A hit returns the     *)
(* entry and changes nothing: it is no action here.                        *)
(***************************************************************************)
EXTENDS Integers, Sequences, FiniteSets, Functions

CONSTANTS
    Ids,        \* the orders there may be
    FirstTables, \* the states the orders table may be in at first
    OrderTime,  \* the column the pages are sorted by, latest first
    Contents,   \* what the other columns of a row may hold
    Filters,    \* what a query may ask for
    Selects,    \* the rows, with their contents, that each filter lets through
    Queries,    \* page, limit and filter of the queries; also the cache keys
    MaxLimit,   \* "Max 100 items per page"
    Requests,   \* requests that may run at once
    Sweeps,     \* invalidations of a pattern that may run at once
    Patterns,   \* the patterns they are asked for
    Finds,      \* the keys whose names in Redis each pattern finds
    KeyPrefix,  \* what Redis has before every key: REDIS_KEY_PREFIX, which is
                \* "oms_cache" unless it is set
    MaxWrites   \* bound on the changes to the orders table

(* ioredis prefixes no pattern, so that "enriched_orders:*", which the tag *)
(* "orders" stands for, finds nothing: a pattern with an empty set in      *)
(* Finds.                                                                  *)
ASSUME FindsAssumption  == Finds \in [Patterns -> SUBSET Queries]
ASSUME IdsAssumption    == IsFiniteSet(Ids) /\ OrderTime \in [Ids -> Nat]
ASSUME FilterAssumption == Selects \in [Filters -> SUBSET (Ids \X Contents)]
ASSUME QueryAssumption  ==
    Queries \subseteq [page : Nat \ {0}, limit : Nat \ {0}, filter : Filters]
ASSUME TablesAssumption ==
    FirstTables \subseteq UNION {[S -> Contents] : S \in SUBSET Ids}
ASSUME BoundsAssumption == MaxLimit \in Nat \ {0} /\ MaxWrites \in Nat

VARIABLES
    was,        \* the states of the orders table so far, the present one last
    cached,     \* the keys that have an entry
    entry,      \* the entries of those keys
    pc,         \* where each request is
    query,      \* its query
    result,     \* what it has read so far
    sweep,      \* where each invalidation is
    pattern,    \* its pattern
    steady,     \* the keys it finds that have existed since the scan began
    ever,       \* those that have existed at some time since
    keysToDelete, \* cleanKeys, what is left to delete
    doomed      \* history: the keys whose entry its pattern found at the start

tableVars == <<was>>
cacheVars == <<cached, entry>>
getVars   == <<pc, query, result>>
sweepVars == <<sweep, pattern, steady, ever, keysToDelete, doomed>>
vars == <<was, cacheVars, getVars, sweepVars>>

-----------------------------------------------------------------------------
(* The orders table and its pages.                                         *)

Tables == UNION {[S -> Contents] : S \in SUBSET Ids}

Table == was[Len(was)]

(* WHERE, of the count and of the page alike.                              *)
Where(t, f) == Restrict(t, {o \in DOMAIN t : <<o, t[o]>> \in Selects[f]})

(* The rows in an order the database may return them in: of rows with the  *)
(* same order_time, any may come first.                                    *)
Sortings(t) ==
    {s \in [1 .. Cardinality(DOMAIN t) -> DOMAIN t] :
        /\ IsInjective(s)
        /\ \A i, j \in DOMAIN s : i < j => OrderTime[s[i]] >= OrderTime[s[j]]}

Limit(q) == IF q.limit < MaxLimit THEN q.limit ELSE MaxLimit

(* sanitizeQuery of the controller, which caps the limit before the        *)
(* service does: all keys have the limit of their pages.                   *)
Sanitized(q) == [q EXCEPT !.limit = Limit(q)]

ASSUME SanitizedAssumption == \A q \in Queries : Sanitized(q) \in Queries

(* Mutant: pages overlap by a row.                                         *)
OffsetOverlapping(q) ==
    IF q.page = 1 THEN 0 ELSE (q.page - 1) * Limit(q) - 1

Offset(q) == (q.page - 1) * Limit(q)

(* LIMIT and OFFSET.                                                       *)
Slice(s, q) ==
    SubSeq(s, Offset(q) + 1,
           IF Offset(q) + Limit(q) < Len(s) THEN Offset(q) + Limit(q) ELSE Len(s))

(* The pages a query may be answered with in a state of the table.         *)
Pages(t, q) ==
    {[i \in DOMAIN p |-> [id |-> p[i], content |-> t[p[i]]]] :
        p \in {Slice(s, q) : s \in Sortings(Where(t, q.filter))}}

(* Mutant: the last, short page is forgotten.                              *)
TotalPagesRoundedDown(total, q) == total \div Limit(q)

(* Math.ceil(totalItems / limit).                                          *)
TotalPages(total, q) == (total + Limit(q) - 1) \div Limit(q)

HasNext(total, q) == q.page < TotalPages(total, q)

(* What a request has when it has read nothing; the last three are history: *)
(* the states of the table it began in, counted in and read its page in.   *)
Unread == [total |-> 0, rows |-> <<>>, began |-> 1, countedAt |-> 1, readAt |-> 1]

(* The query of a request that is not there.                               *)
NoQuery == [page |-> 0, limit |-> 0, filter |-> "none"]

Init ==
    /\ was \in {<<t>> : t \in FirstTables}
    /\ cached = {}
    /\ entry = [q \in Queries |-> Unread]
    /\ pc = [r \in Requests |-> "idle"]
    /\ query = [r \in Requests |-> NoQuery]
    /\ result = [r \in Requests |-> Unread]
    /\ sweep = [i \in Sweeps |-> "idle"]
    /\ pattern \in [Sweeps -> Patterns]
    /\ steady = [i \in Sweeps |-> {}]
    /\ ever = [i \in Sweeps |-> {}]
    /\ keysToDelete = [i \in Sweeps |-> {}]
    /\ doomed = [i \in Sweeps |-> {}]

(* Other requests insert, change or remove one row.                        *)
Write(t) ==
    /\ Len(was) <= MaxWrites
    /\ t # Table
    /\ \E o \in Ids : Restrict(t, DOMAIN t \ {o}) = Restrict(Table, DOMAIN Table \ {o})
    /\ was' = Append(was, t)
    /\ UNCHANGED <<cacheVars, getVars, sweepVars>>

-----------------------------------------------------------------------------
(* How the sweeps see the keys change: the entries that the given keys had *)
(* are gone, and these are the keys that now exist.                        *)
SweepsSee(gone, keys) ==
    /\ cached' = keys
    /\ steady' = [i \in Sweeps |-> steady[i] \cap keys]
    /\ ever' = [i \in Sweeps |-> IF sweep[i] = "scanning"
                                 THEN ever[i] \cup (keys \cap Finds[pattern[i]])
                                 ELSE {}]
    /\ doomed' = [i \in Sweeps |-> doomed[i] \ gone]
    /\ UNCHANGED <<sweep, pattern, keysToDelete>>

-----------------------------------------------------------------------------
(* getEnrichedOrders.                                                      *)

(* Nothing is found under the key.  A get that fails may come out as a     *)
(* miss, too, while there is an entry: that is left out.                   *)
Miss(r, q) ==
    /\ pc[r] = "idle"
    /\ Sanitized(q) \notin cached
    /\ pc' = [pc EXCEPT ![r] = "counting"]
    /\ query' = [query EXCEPT ![r] = Sanitized(q)]
    /\ result' = [result EXCEPT ![r] = [Unread EXCEPT !.began = Len(was)]]
    /\ UNCHANGED <<was, cacheVars, sweepVars>>

(* Mutant: the planner's estimate, for a table it has not analysed yet.    *)
TotalItemsEstimated(t, q) == -1

(* parseInt(countResult[0].total).                                         *)
TotalItems(t, q) == Cardinality(DOMAIN Where(t, q.filter))

Count(r) ==
    /\ pc[r] = "counting"
    /\ pc' = [pc EXCEPT ![r] = "reading"]
    /\ result' = [result EXCEPT ![r].total = TotalItems(Table, query[r]),
                                ![r].countedAt = Len(was)]
    /\ UNCHANGED <<was, cacheVars, query, sweepVars>>

ReadPage(r) ==
    /\ pc[r] = "reading"
    /\ pc' = [pc EXCEPT ![r] = "storing"]
    /\ \E rows \in Pages(Table, query[r]) :
           result' = [result EXCEPT ![r].rows = rows, ![r].readAt = Len(was)]
    /\ UNCHANGED <<was, cacheVars, query, sweepVars>>

(* Mutant: the key leaves the page out.                                    *)
CacheKeyWithoutPage(q) ==
    CHOOSE k \in Queries : k.limit = q.limit /\ k.filter = q.filter

(* generateCacheKey: page, limit and every filter.                         *)
CacheKey(q) == q

(* The end of a request.                                                   *)
Leave(r) ==
    /\ pc' = [pc EXCEPT ![r] = "idle"]
    /\ query' = [query EXCEPT ![r] = NoQuery]
    /\ result' = [result EXCEPT ![r] = Unread]

(* The entry is stored, whatever has happened since its page was read.     *)
Store(r) ==
    LET k == CacheKey(query[r]) IN
    /\ pc[r] = "storing"
    /\ Leave(r)
    /\ entry' = [entry EXCEPT ![k] = result[r]]
    /\ SweepsSee({k}, cached \cup {k})
    /\ UNCHANGED was

(* A statement or the store fails, or the process dies: the request is     *)
(* answered with an error or not at all.                                   *)
Fail(r) ==
    /\ pc[r] # "idle"
    /\ Leave(r)
    /\ UNCHANGED <<was, cacheVars, sweepVars>>

-----------------------------------------------------------------------------
(* How entries go.                                                         *)

(* Mutant: entries are stored without a time to live.                      *)
MayExpireNever(q) == FALSE

MayExpire(q) == q \in cached

Expire(q) ==
    /\ MayExpire(q)
    /\ entry' = [entry EXCEPT ![q] = Unread]
    /\ SweepsSee({q}, cached \ {q})
    /\ UNCHANGED <<was, getVars>>

(* DELETE /cache/clear.                                                    *)
ClearAllCaches ==
    /\ cached # {}
    /\ entry' = [q \in Queries |-> Unread]
    /\ SweepsSee(cached, {})
    /\ UNCHANGED <<was, getVars>>

(* invalidatePattern: the scan is started and the request answered.        *)
StartScan(i, p) ==
    LET found == Finds[p] \cap cached IN
    /\ sweep[i] \in {"idle", "done"}
    /\ sweep' = [sweep EXCEPT ![i] = "scanning"]
    /\ pattern' = [pattern EXCEPT ![i] = p]
    /\ steady' = [steady EXCEPT ![i] = found]
    /\ ever' = [ever EXCEPT ![i] = found]
    /\ doomed' = [doomed EXCEPT ![i] = found]
    /\ UNCHANGED <<was, cacheVars, getVars, keysToDelete>>

(* Mutant: the keys of the first reply are taken for all.                  *)
MayReturnSome(i, keys) == keys \subseteq ever[i]

(* What Redis promises of SCAN: a key that existed throughout is returned, *)
(* one that existed for a part may be.                                     *)
MayReturn(i, keys) == steady[i] \subseteq keys /\ keys \subseteq ever[i]

(* The name of a key in Redis.                                             *)
Name(q) == [prefix |-> KeyPrefix, key |-> q]

(* "Remove key prefix before deletion": the ten characters "oms_cache:".   *)
(* Names that begin otherwise stay as they are.  Only with this prefix is  *)
(* what comes out the key again, and a key at all.                         *)
CleanKey(name) == IF name.prefix = "oms_cache:" THEN name.key ELSE name

(* The stream ends.                                                        *)
EndScan(i) ==
    /\ sweep[i] = "scanning"
    /\ sweep' = [sweep EXCEPT ![i] = "deleting"]
    /\ \E keys \in SUBSET Queries :
           /\ MayReturn(i, keys)
           /\ keysToDelete' = [keysToDelete EXCEPT
                                  ![i] = {CleanKey(Name(q)) : q \in keys}]
    /\ steady' = [steady EXCEPT ![i] = {}]
    /\ ever' = [ever EXCEPT ![i] = {}]
    /\ UNCHANGED <<was, cacheVars, getVars, pattern, doomed>>

(* del, one key after the other.  The entry it deletes may be a newer one, *)
(* and of what is no key it deletes nothing.                               *)
DeleteKey(i, k) ==
    /\ sweep[i] = "deleting"
    /\ k \in keysToDelete[i]
    /\ keysToDelete' = [keysToDelete EXCEPT ![i] = @ \ {k}]
    /\ entry' = [q \in Queries |-> IF q = k THEN Unread ELSE entry[q]]
    /\ cached' = cached \ {k}
    /\ steady' = [j \in Sweeps |-> steady[j] \ {k}]
    /\ doomed' = [j \in Sweeps |-> doomed[j] \ {k}]
    /\ UNCHANGED <<was, getVars, sweep, pattern, ever>>

EndSweep(i) ==
    /\ sweep[i] = "deleting"
    /\ keysToDelete[i] = {}
    /\ sweep' = [sweep EXCEPT ![i] = "done"]
    /\ UNCHANGED <<was, cacheVars, getVars, pattern, steady, ever, keysToDelete,
                   doomed>>

(* The stream or a deletion fails, to which nobody listens, or the process *)
(* dies.                                                                   *)
FailSweep(i) ==
    /\ sweep[i] \in {"scanning", "deleting"}
    /\ sweep' = [sweep EXCEPT ![i] = "idle"]
    /\ steady' = [steady EXCEPT ![i] = {}]
    /\ ever' = [ever EXCEPT ![i] = {}]
    /\ keysToDelete' = [keysToDelete EXCEPT ![i] = {}]
    /\ doomed' = [doomed EXCEPT ![i] = {}]
    /\ UNCHANGED <<was, cacheVars, getVars, pattern>>

-----------------------------------------------------------------------------

Proceed(r) == Count(r) \/ ReadPage(r) \/ Store(r) \/ Fail(r)

Next ==
    \/ \E t \in Tables : Write(t)
    \/ \E r \in Requests : Proceed(r) \/ \E q \in Queries : Miss(r, q)
    \/ \E q \in Queries : Expire(q)
    \/ ClearAllCaches
    \/ \E i \in Sweeps :
           \/ \E p \in Patterns : StartScan(i, p)
           \/ EndScan(i)
           \/ \E q \in Queries : DeleteKey(i, CleanKey(Name(q)))
           \/ EndSweep(i)
           \/ FailSweep(i)

Spec == Init /\ [][Next]_vars

(* Statements and Redis answer or fail, and Redis forgets what has expired. *)
Fairness ==
    /\ \A r \in Requests : WF_vars(Proceed(r))
    /\ \A q \in Queries : WF_vars(Expire(q))

FairSpec == Spec /\ Fairness

-----------------------------------------------------------------------------

Versions == 1 .. MaxWrites + 1

Result == [total : Nat, rows : Seq([id : Ids, content : Contents]),
           began : Versions, countedAt : Versions, readAt : Versions]

TypeOK ==
    /\ was \in Seq(Tables) /\ Len(was) \in Versions
    /\ cached \subseteq Queries
    /\ entry \in [Queries -> Result]
    /\ pc \in [Requests -> {"idle", "counting", "reading", "storing"}]
    /\ query \in [Requests -> Queries \cup {NoQuery}]
    /\ result \in [Requests -> Result]
    /\ sweep \in [Sweeps -> {"idle", "scanning", "deleting", "done"}]
    /\ pattern \in [Sweeps -> Patterns]
    /\ steady \in [Sweeps -> SUBSET Queries]
    /\ ever \in [Sweeps -> SUBSET Queries]
    /\ keysToDelete \in [Sweeps -> SUBSET {CleanKey(Name(q)) : q \in Queries}]
    /\ doomed \in [Sweeps -> SUBSET Queries]

(* Whatever writes, expirations, clears and sweeps come in between, an     *)
(* entry answers the query it is stored under: its total is the count, and *)
(* its rows the page, of states the table was in when the request that     *)
(* filled it had begun, the count's not the later one.                     *)
EntriesWereTrue ==
    \A q \in cached : LET e == entry[q] IN
        /\ e.began <= e.countedAt /\ e.countedAt <= e.readAt
        /\ e.readAt <= Len(was)
        /\ e.total = Cardinality(DOMAIN Where(was[e.countedAt], q.filter))
        /\ e.rows \in Pages(was[e.readAt], q)

(* If nothing was written between the two SELECTs, an entry announces a    *)
(* next page exactly when there are rows behind its own.                   *)
NextPageIsThere ==
    \A q \in cached : entry[q].countedAt = entry[q].readAt =>
        (HasNext(entry[q].total, q) <=>
            Offset(q) + Len(entry[q].rows) < entry[q].total)

Tied(t, o) == \E u \in DOMAIN t \ {o} : OrderTime[u] = OrderTime[o]

(* Pages of one size and filter read in the same state of the table fit    *)
(* together: the rows of the earlier are not older than those of the       *)
(* later, and a row is on both only if another has the same order_time.    *)
PagesFit ==
    \A p, q \in cached :
        /\ p.page < q.page
        /\ p.limit = q.limit /\ p.filter = q.filter
        /\ entry[p].readAt = entry[q].readAt
        => \A a \in Range(entry[p].rows), b \in Range(entry[q].rows) :
               /\ OrderTime[a.id] >= OrderTime[b.id]
               /\ a.id = b.id => Tied(Where(was[entry[q].readAt], q.filter), a.id)

(* "Invalidates cache entries matching the specified pattern": when a      *)
(* sweep has ended, no entry that its pattern found is left, whatever was  *)
(* stored, deleted and scanned meanwhile.  This hangs on KeyPrefix: with   *)
(* the one that the code cuts off it holds, and with the default it fails. *)
SweptEntriesAreGone ==
    \A i \in Sweeps : sweep[i] = "done" => doomed[i] = {}

Fresh(q) ==
    /\ entry[q].total = Cardinality(DOMAIN Where(Table, q.filter))
    /\ entry[q].rows \in Pages(Table, q)

(* The writers tell the cache nothing, and a request under way may store   *)
(* an old page after they have stopped; but when they have, sooner or      *)
(* later every entry shows the table as it is, and it stays so.            *)
StalePagesGo == <>[](\A q \in cached : Fresh(q))

=============================================================================
