----------------------------- MODULE CacheWarming -----------------------------
(***************************************************************************)
(* CacheWarmingService (backend/src/cache/cache-warming.service.ts) with   *)
(* the reads and writes it makes through ProductionCacheService.  Three    *)
(* kinds of callers fill the same keys: warmupCriticalData (the timer at   *)
(* bootstrap and POST /cache/warmup), which works through all jobs by      *)
(* priority in concurrent batches and lets nobody else in meanwhile;       *)
(* backgroundRefresh (the cron, every 30 minutes), one key after the       *)
(* other; and warmupSpecific (POST /cache/warmup/:dataType), one key.      *)
(*                                                                         *)
(* A loader catches the failure of its query and returns the empty list,   *)
(* which is cached and, [] being truthy, found in the cache like any other *)
(* result: the model need not tell the two apart.  Cache reads and writes  *)
(* catch their failures.                                                   *)
(***************************************************************************)
EXTENDS Integers, Sequences, FiniteSets, Functions

CONSTANTS
    Jobs,         \* getWarmupJobs, sorted by priority, highest first
    Background,   \* those of priority 8 and more, in the same order
    BatchSize,
    Warmers,      \* calls of warmupCriticalData that may be made at once
    Refreshers,   \* calls of backgroundRefresh
    Specifics     \* calls of warmupSpecific

Keys    == Range(Jobs)
Callers == Warmers \cup Refreshers \cup Specifics

ASSUME JobsAssumption ==
    /\ Jobs \in Seq(Keys) /\ Background \in Seq(Keys)
    /\ \A i, j \in DOMAIN Jobs : Jobs[i] = Jobs[j] => i = j
ASSUME BatchAssumption == BatchSize \in Nat \ {0}
ASSUME CallersAssumption ==
    /\ Warmers \cap Refreshers = {} /\ Warmers \cap Specifics = {}
    /\ Refreshers \cap Specifics = {}

VARIABLES
    cached,     \* the keys for which something is cached
    closing,    \* the background keys whose entry is close to its expiration
    isWarming,  \* the flag of warmupCriticalData
    pc,         \* where each call is
    at,         \* the job a call has come to, for a warmer its batch's first
    task,       \* per call, how far it is with each key
    faulty      \* whether queries and Redis may fail and the process may die

vars == <<cached, closing, isWarming, pc, at, task, faulty>>

Tasks == {"none", "loading", "loaded", "settled"}

NoTasks == [k \in Keys |-> "none"]

Init ==
    /\ cached = {}
    /\ closing = {}
    /\ isWarming = FALSE
    /\ pc = [c \in Callers |-> "idle"]
    /\ at = [c \in Callers |-> 1]
    /\ task = [c \in Callers |-> NoTasks]
    /\ faulty = TRUE

-----------------------------------------------------------------------------
(* Loading a key and storing it, the same for all callers.                 *)

(* The query answers, or fails and the loader returns [].                  *)
Load(c, k) ==
    /\ task[c][k] = "loading"
    /\ task' = [task EXCEPT ![c][k] = "loaded"]
    /\ UNCHANGED <<cached, closing, isWarming, pc, at, faulty>>

StoreOk(c, k) ==
    /\ task[c][k] = "loaded"
    /\ cached' = cached \cup {k}
    /\ closing' = closing \ {k}
    /\ task' = [task EXCEPT ![c][k] = "settled"]
    /\ UNCHANGED <<isWarming, pc, at, faulty>>

(* Mutant: the promise of a write that fails never settles.                *)
StoreNeverSettles(c, k) ==
    /\ faulty
    /\ task[c][k] = "loaded"
    /\ task' = [task EXCEPT ![c][k] = "none"]
    /\ UNCHANGED <<cached, closing, isWarming, pc, at, faulty>>

(* setInCache logs the failure and returns.                                *)
StoreFails(c, k) ==
    /\ faulty
    /\ task[c][k] = "loaded"
    /\ task' = [task EXCEPT ![c][k] = "settled"]
    /\ UNCHANGED <<cached, closing, isWarming, pc, at, faulty>>

Fetching(c, k) == task[c][k] \in {"loading", "loaded"}

-----------------------------------------------------------------------------
(* warmupCriticalData.                                                     *)

(* jobs.slice(i, i + batchSize).                                           *)
Batch(i) == {Jobs[j] : j \in {j \in DOMAIN Jobs : i <= j /\ j < i + BatchSize}}

(* Mutant: the flag is set, but nobody looks at it.                        *)
MayWarmAnyway == TRUE

(* The flag is read and set without an await in between.  A call that      *)
(* finds it set returns at once and changes nothing.                       *)
MayWarm == ~isWarming

Warm(w) ==
    /\ pc[w] = "idle"
    /\ MayWarm
    /\ isWarming' = TRUE
    /\ pc' = [pc EXCEPT ![w] = "batch"]
    /\ at' = [at EXCEPT ![w] = 1]
    /\ task' = [task EXCEPT ![w] =
                   [k \in Keys |-> IF k \in Batch(1) THEN "loading" ELSE "none"]]
    /\ UNCHANGED <<cached, closing, faulty>>

(* Mutant: one settled job settles the batch.                              *)
SomeSettled(w) == \E k \in Batch(at[w]) : task[w][k] = "settled"

(* Promise.allSettled.                                                     *)
AllSettled(w) == \A k \in Batch(at[w]) : task[w][k] = "settled"

(* The delay after a batch that is not the last.                           *)
Pause(w) ==
    /\ pc[w] = "batch"
    /\ AllSettled(w)
    /\ at[w] + BatchSize <= Len(Jobs)
    /\ pc' = [pc EXCEPT ![w] = "pausing"]
    /\ UNCHANGED <<cached, closing, isWarming, at, task, faulty>>

NextBatch(w) ==
    LET i == at[w] + BatchSize IN
    /\ pc[w] = "pausing"
    /\ pc' = [pc EXCEPT ![w] = "batch"]
    /\ at' = [at EXCEPT ![w] = i]
    /\ task' = [task EXCEPT ![w] =
                   [k \in Keys |-> IF k \in Batch(i) THEN "loading" ELSE @[k]]]
    /\ UNCHANGED <<cached, closing, isWarming, faulty>>

(* After the last batch, finally.                                          *)
Finish(w) ==
    /\ pc[w] = "batch"
    /\ AllSettled(w)
    /\ at[w] + BatchSize > Len(Jobs)
    /\ isWarming' = FALSE
    /\ pc' = [pc EXCEPT ![w] = "idle"]
    /\ at' = [at EXCEPT ![w] = 1]
    /\ task' = [task EXCEPT ![w] = NoTasks]
    /\ UNCHANGED <<cached, closing, faulty>>

-----------------------------------------------------------------------------
(* backgroundRefresh.                                                      *)

Refresh(f) ==
    /\ pc[f] = "idle"
    /\ Background # <<>>
    /\ pc' = [pc EXCEPT ![f] = "checking"]
    /\ UNCHANGED <<cached, closing, isWarming, at, task, faulty>>

(* Go on to the next key, or end.                                          *)
Advance(f) ==
    /\ pc' = [pc EXCEPT ![f] = IF at[f] < Len(Background) THEN "checking" ELSE "idle"]
    /\ at' = [at EXCEPT ![f] = IF at[f] < Len(Background) THEN @ + 1 ELSE 1]

CheckHit(f) ==
    /\ pc[f] = "checking"
    /\ Background[at[f]] \in cached
    /\ Advance(f)
    /\ UNCHANGED <<cached, closing, isWarming, task, faulty>>

(* Mutant: an absent key is left for the next warmup.                      *)
CheckMissSkipped(f) ==
    /\ pc[f] = "checking"
    /\ Background[at[f]] \notin cached
    /\ Advance(f)
    /\ UNCHANGED <<cached, closing, isWarming, task, faulty>>

(* The key is absent, or the read failed and getFromCache returned null.   *)
CheckMiss(f) ==
    LET k == Background[at[f]] IN
    /\ pc[f] = "checking"
    /\ k \notin cached \/ faulty
    /\ pc' = [pc EXCEPT ![f] = "fetching"]
    /\ task' = [task EXCEPT ![f][k] = "loading"]
    /\ UNCHANGED <<cached, closing, isWarming, at, faulty>>

Refreshed(f) ==
    /\ pc[f] = "fetching"
    /\ task[f][Background[at[f]]] = "settled"
    /\ Advance(f)
    /\ task' = [task EXCEPT ![f] = NoTasks]
    /\ UNCHANGED <<cached, closing, isWarming, faulty>>

-----------------------------------------------------------------------------
(* warmupSpecific.                                                         *)

WarmSpecific(s, k) ==
    /\ pc[s] = "idle"
    /\ pc' = [pc EXCEPT ![s] = "fetching"]
    /\ task' = [task EXCEPT ![s][k] = "loading"]
    /\ UNCHANGED <<cached, closing, isWarming, at, faulty>>

SpecificWarmed(s) ==
    /\ pc[s] = "fetching"
    /\ \A k \in Keys : ~Fetching(s, k)
    /\ pc' = [pc EXCEPT ![s] = "idle"]
    /\ task' = [task EXCEPT ![s] = NoTasks]
    /\ UNCHANGED <<cached, closing, isWarming, at, faulty>>

-----------------------------------------------------------------------------
(* The world around.                                                       *)

(* Time passes over an entry: it comes close to its TTL, which only the    *)
(* background refresh could care about, then goes.                         *)
Age(k) ==
    /\ k \in Range(Background)
    /\ k \in cached \ closing
    /\ closing' = closing \cup {k}
    /\ UNCHANGED <<cached, isWarming, pc, at, task, faulty>>

Expire(k) ==
    /\ k \in cached
    /\ k \in closing \/ k \notin Range(Background)
    /\ cached' = cached \ {k}
    /\ closing' = closing \ {k}
    /\ UNCHANGED <<isWarming, pc, at, task, faulty>>

(* Mutant: the expirations are not cleared with the entries.               *)
ClearEntriesOnly ==
    /\ cached' = {}
    /\ UNCHANGED <<closing, isWarming, pc, at, task, faulty>>

(* clearAllCaches.                                                         *)
ClearAllCaches ==
    /\ cached' = {}
    /\ closing' = {}
    /\ UNCHANGED <<isWarming, pc, at, task, faulty>>

(* The process dies and starts again; Redis keeps the cache.               *)
Restart ==
    /\ faulty
    /\ isWarming' = FALSE
    /\ pc' = [c \in Callers |-> "idle"]
    /\ at' = [c \in Callers |-> 1]
    /\ task' = [c \in Callers |-> NoTasks]
    /\ UNCHANGED <<cached, closing, faulty>>

(* From some time on nothing fails any more.                               *)
Recover ==
    /\ faulty /\ faulty' = FALSE
    /\ UNCHANGED <<cached, closing, isWarming, pc, at, task>>

(* What a call does next when its turn comes.                              *)
Proceed(c) ==
    \/ \E k \in Keys : Load(c, k) \/ StoreOk(c, k) \/ StoreFails(c, k)
    \/ c \in Warmers /\ (Pause(c) \/ NextBatch(c) \/ Finish(c))
    \/ c \in Refreshers /\ (Refresh(c) \/ CheckHit(c) \/ CheckMiss(c) \/ Refreshed(c))
    \/ c \in Specifics /\ SpecificWarmed(c)

Next ==
    \/ \E c \in Callers : Proceed(c)
    \/ \E w \in Warmers : Warm(w)
    \/ \E s \in Specifics, k \in Keys : WarmSpecific(s, k)
    \/ \E k \in Keys : Age(k) \/ Expire(k)
    \/ ClearAllCaches \/ Restart \/ Recover

(* Queries and cache commands answer or fail, timers fire, settled         *)
(* promises resume their callers, and the cron comes round.                *)
Fairness == \A c \in Callers : WF_vars(Proceed(c))

Spec == Init /\ [][Next]_vars /\ Fairness

-----------------------------------------------------------------------------

TypeOK ==
    /\ cached \subseteq Keys /\ closing \subseteq cached
    /\ isWarming \in BOOLEAN /\ faulty \in BOOLEAN
    /\ pc \in [Callers -> {"idle", "batch", "pausing", "checking", "fetching"}]
    /\ at \in [Callers -> Nat \ {0}]
    /\ task \in [Callers -> [Keys -> Tasks]]

(* At most one warmup is under way, and the flag says whether one is, also *)
(* after failures and restarts.                                            *)
WarmingIsExclusive ==
    /\ \A v, w \in Warmers : pc[v] # "idle" /\ pc[w] # "idle" => v = w
    /\ isWarming <=> \E w \in Warmers : pc[w] # "idle"

(* "parallel batches to avoid overwhelming the database": warmups together *)
(* never have more than a batch of loads under way, all of one batch, and  *)
(* all jobs of the batches before it, of higher priority, are through.     *)
BatchesInPriorityOrder ==
    /\ Cardinality({k \in Keys : \E w \in Warmers : Fetching(w, k)}) <= BatchSize
    /\ \A w \in Warmers, i \in DOMAIN Jobs :
           Fetching(w, Jobs[i]) =>
               /\ at[w] <= i /\ i < at[w] + BatchSize
               /\ \A j \in 1..(at[w] - 1) : task[w][Jobs[j]] = "settled"

(* A warmup ends, and the next can begin.                                  *)
WarmingEnds == isWarming ~> ~isWarming

Unsettled(w) == {k \in Keys : task[w][k] # "settled"}
Unloaded(w)  == {k \in Keys : task[w][k] \in {"none", "loading"}}

(* What a warmup still has to do: a load and a write for every job, and a  *)
(* turn and a pause for every batch that may be left.                      *)
WorkLeft(w) ==
    Cardinality(Unsettled(w)) + Cardinality(Unloaded(w))
        + 2 * (Len(Jobs) + 1 - at[w]) + (IF pc[w] = "batch" THEN 1 ELSE 0)

(* Whatever happens to a warmup that is under way, a failed write included,*)
(* ends it or leaves it less to do: none goes round for ever.              *)
WarmupsAdvance ==
    [][\A w \in Warmers : pc[w] # "idle" =>
           \/ UNCHANGED <<pc[w], at[w], task[w]>>
           \/ pc'[w] = "idle"
           \/ WorkLeft(w)' \in 0 .. WorkLeft(w) - 1]_vars

(* Once nothing fails any more, each key the cron looks after is cached    *)
(* again and again, whatever expires or is cleared in between.             *)
RefreshKeepsWarm ==
    \A i \in DOMAIN Background :
        ~faulty ~> Background[i] \in cached

(* "Check if cache key exists and is close to expiration": the refresh     *)
(* does not pass over a key that it finds about to expire.                 *)
RefreshRenewsClosing ==
    [][\A f \in Refreshers : CheckHit(f) => Background[at[f]] \notin closing]_vars

=============================================================================
