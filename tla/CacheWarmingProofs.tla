-------------------------- MODULE CacheWarmingProofs --------------------------
(***************************************************************************)
(* Warmups of the cache exclude one another and keep to their batches, for *)
(* every list of jobs, batch size and set of callers.                      *)
(***************************************************************************)
EXTENDS CacheWarming, FiniteSetTheorems, TLAPS

(* How far a warmer is with each job: through with the batches before the  *)
(* one it has come to, at work on that one, not yet at the others.         *)
InStep(w) ==
    /\ pc[w] \in {"idle", "batch", "pausing"}
    /\ pc[w] = "idle" => \A k \in Keys : task[w][k] = "none"
    /\ pc[w] # "idle" =>
           \A i \in DOMAIN Jobs :
               /\ i < at[w] => task[w][Jobs[i]] = "settled"
               /\ i >= at[w] + BatchSize => task[w][Jobs[i]] = "none"
               /\ pc[w] = "pausing" /\ i < at[w] + BatchSize =>
                      task[w][Jobs[i]] = "settled"

IInv ==
    /\ TypeOK
    /\ WarmingIsExclusive
    /\ \A w \in Warmers : InStep(w)

(* A batch has its jobs only, and no two places have the same job.         *)
LEMMA BatchJobs ==
    ASSUME NEW i \in Nat \ {0}, NEW j \in DOMAIN Jobs
    PROVE  /\ Jobs[j] \in Keys
           /\ Jobs[j] \in Batch(i) <=> i <= j /\ j < i + BatchSize
BY JobsAssumption DEF Batch, Keys, Range

LEMMA KeysAreJobs ==
    ASSUME NEW k \in Keys
    PROVE  \E j \in DOMAIN Jobs : k = Jobs[j]
BY DEF Keys, Range

LEMMA JobPlaces == DOMAIN Jobs \subseteq Nat \ {0} /\ DOMAIN Jobs = 1..Len(Jobs)
BY JobsAssumption

LEMMA NoTasksTyped ==
    /\ NoTasks \in [Keys -> Tasks]
    /\ [c \in Callers |-> NoTasks] \in [Callers -> [Keys -> Tasks]]
<1>1. NoTasks \in [Keys -> Tasks]
  BY DEF NoTasks, Tasks
<1> QED BY <1>1

(* TypeOK in two parts: the flags, and the rest.                           *)
FlagsOK == isWarming \in BOOLEAN /\ faulty \in BOOLEAN

CallsOK ==
    /\ cached \subseteq Keys /\ closing \subseteq cached
    /\ pc \in [Callers -> {"idle", "batch", "pausing", "checking", "fetching"}]
    /\ at \in [Callers -> Nat \ {0}]
    /\ task \in [Callers -> [Keys -> Tasks]]

LEMMA TypeParts == (TypeOK <=> FlagsOK /\ CallsOK) /\ (TypeOK' <=> FlagsOK' /\ CallsOK')
BY Zenon DEF TypeOK, FlagsOK, CallsOK

(* Nothing is under way at the start.                                      *)
THEOREM InitIInv == Init => IInv
<1> SUFFICES ASSUME Init PROVE IInv
  OBVIOUS
<1>1. TypeOK
  <2>1. FlagsOK
    BY Zenon DEF Init, FlagsOK
  <2>2. CallsOK
    BY NoTasksTyped DEF Init, CallsOK
  <2> QED BY <2>1, <2>2, TypeParts
<1>2. WarmingIsExclusive
  BY DEF Init, WarmingIsExclusive, Callers
<1>3. \A w \in Warmers : InStep(w)
  BY DEF Init, InStep, Callers, NoTasks
<1> QED BY <1>1, <1>2, <1>3 DEF IInv

(* A step that is not a warmer's and leaves the warmers alone.             *)
LEMMA OthersIInv ==
    ASSUME IInv, TypeOK',
           \A w \in Warmers : pc'[w] = pc[w] /\ at'[w] = at[w] /\ task'[w] = task[w],
           isWarming' = isWarming
    PROVE  IInv'
<1>1. WarmingIsExclusive'
  BY DEF IInv, WarmingIsExclusive
<1>2. \A w \in Warmers : InStep(w)'
  BY DEF IInv, InStep
<1> QED BY <1>1, <1>2 DEF IInv

(* A load or a write of any caller makes one more task loaded or settled.  *)
LEMMA TaskIInv ==
    ASSUME IInv, NEW c \in Callers, NEW k \in Keys, NEW t \in {"loaded", "settled"},
           Fetching(c, k), task' = [task EXCEPT ![c][k] = t],
           TypeOK', UNCHANGED <<isWarming, pc, at>>
    PROVE  IInv'
<1>1. WarmingIsExclusive'
  BY DEF IInv, WarmingIsExclusive
<1>2. ASSUME NEW w \in Warmers PROVE InStep(w)'
  <2>1. InStep(w) /\ w \in Callers /\ at[w] \in Nat \ {0}
    BY DEF IInv, Callers, TypeOK
  <2>2. CASE w # c
    BY <2>1, <2>2 DEF InStep, IInv, TypeOK
  <2>3. CASE w = c
    <3>1. /\ task'[w][k] = t
          /\ \A l \in Keys \ {k} : task'[w][l] = task[w][l]
      BY <2>3 DEF IInv, TypeOK
    <3>2. pc[w] # "idle" /\ task[w][k] \notin {"none", "settled"}
      BY <2>1, <2>3 DEF Fetching, InStep
    <3>3. \A j \in DOMAIN Jobs : Jobs[j] \in Keys
      BY BatchJobs, JobPlaces DEF Keys, Range
    <3>4. ASSUME NEW j \in DOMAIN Jobs
          PROVE  /\ j < at[w] => task'[w][Jobs[j]] = "settled"
                 /\ j >= at[w] + BatchSize => task'[w][Jobs[j]] = "none"
                 /\ pc[w] = "pausing" /\ j < at[w] + BatchSize =>
                        task'[w][Jobs[j]] = "settled"
      <4>1. CASE Jobs[j] = k
        <5>1. /\ ~(j < at[w]) /\ ~(j >= at[w] + BatchSize)
              /\ ~(pc[w] = "pausing" /\ j < at[w] + BatchSize)
          BY <2>1, <3>2, <4>1 DEF InStep
        <5> QED BY <5>1
      <4>2. CASE Jobs[j] # k
        BY <2>1, <3>1, <3>2, <3>3, <4>2 DEF InStep
      <4> QED BY <4>1, <4>2
    <3> QED BY <2>1, <3>2, <3>4 DEF InStep
  <2> QED BY <2>2, <2>3
<1> QED BY <1>1, <1>2 DEF IInv

(* A warmer begins, goes on or ends.                                       *)
LEMMA WarmerIInv ==
    ASSUME IInv, NEW w \in Warmers,
           Warm(w) \/ Pause(w) \/ NextBatch(w) \/ Finish(w)
    PROVE  IInv'
<1>0. w \in Callers /\ TypeOK /\ InStep(w) /\ BatchSize \in Nat \ {0}
  BY BatchAssumption DEF IInv, Callers
<1>1. /\ TypeOK' /\ pc' = [pc EXCEPT ![w] = pc'[w]]
      /\ at' = [at EXCEPT ![w] = at'[w]] /\ task' = [task EXCEPT ![w] = task'[w]]
  <2>1. CASE Warm(w)
    BY <1>0, <2>1 DEF Warm, TypeOK, Tasks
  <2>2. CASE Pause(w)
    BY <1>0, <2>2 DEF Pause, TypeOK
  <2>3. CASE NextBatch(w)
    <3>1. at[w] + BatchSize \in Nat \ {0}
      BY <1>0 DEF TypeOK
    <3>2. [k \in Keys |-> IF k \in Batch(at[w] + BatchSize) THEN "loading"
                          ELSE task[w][k]] \in [Keys -> Tasks]
      BY <1>0 DEF TypeOK, Tasks
    <3>3. /\ at' = [at EXCEPT ![w] = at[w] + BatchSize]
          /\ pc' = [pc EXCEPT ![w] = "batch"]
          /\ task' = [task EXCEPT ![w] =
                         [k \in Keys |-> IF k \in Batch(at[w] + BatchSize)
                                         THEN "loading" ELSE task[w][k]]]
          /\ UNCHANGED <<cached, closing, isWarming, faulty>>
      BY <1>0, <2>3 DEF NextBatch, TypeOK
    <3>4. FlagsOK'
      BY <1>0, <3>3, Zenon DEF FlagsOK, TypeOK
    <3>5. CallsOK'
      BY <1>0, <3>1, <3>2, <3>3 DEF CallsOK, TypeOK
    <3>6. TypeOK'
      BY <3>4, <3>5, TypeParts
    <3> QED BY <1>0, <3>3, <3>6 DEF TypeOK
  <2>4. CASE Finish(w)
    <3>1. FlagsOK'
      BY <1>0, <2>4, Zenon DEF Finish, FlagsOK, TypeOK
    <3>2. CallsOK'
      BY <1>0, <2>4, NoTasksTyped DEF Finish, CallsOK, TypeOK
    <3>3. TypeOK'
      BY <3>1, <3>2, TypeParts
    <3> QED BY <1>0, <2>4, <3>3 DEF Finish, TypeOK
  <2> QED BY <2>1, <2>2, <2>3, <2>4
<1>2. \A v \in Warmers \ {w} : v \in Callers /\ pc'[v] = pc[v] /\ InStep(v)'
  <2> SUFFICES ASSUME NEW v \in Warmers \ {w}
               PROVE  v \in Callers /\ pc'[v] = pc[v] /\ InStep(v)'
    OBVIOUS
  <2>1. v \in Callers /\ pc'[v] = pc[v] /\ at'[v] = at[v] /\ task'[v] = task[v]
    BY <1>0, <1>1 DEF Callers, TypeOK
  <2> QED BY <2>1 DEF IInv, InStep
<1>3. WarmingIsExclusive'
  BY <1>0, <1>1, <1>2
     DEF IInv, WarmingIsExclusive, TypeOK, Warm, MayWarm, Pause, NextBatch, Finish
<1>4. InStep(w)'
  <2>1. CASE Warm(w)
    <3>1. /\ pc'[w] = "batch" /\ at'[w] = 1
          /\ \A k \in Keys : task'[w][k] = IF k \in Batch(1) THEN "loading" ELSE "none"
      BY <1>0, <2>1 DEF Warm, TypeOK
    <3> QED BY <1>0, <3>1, BatchJobs, JobPlaces DEF InStep
  <2>2. CASE Pause(w)
    <3>1. /\ pc[w] = "batch" /\ pc'[w] = "pausing" /\ at'[w] = at[w]
          /\ task'[w] = task[w] /\ at[w] \in Nat \ {0}
          /\ \A k \in Batch(at[w]) : task[w][k] = "settled"
      BY <1>0, <2>2 DEF Pause, AllSettled, TypeOK
    <3> QED BY <1>0, <3>1, BatchJobs, JobPlaces DEF InStep
  <2>3. CASE NextBatch(w)
    <3> DEFINE i == at[w] + BatchSize
    <3>1. /\ pc[w] = "pausing" /\ pc'[w] = "batch" /\ at'[w] = i
          /\ i \in Nat \ {0}
          /\ \A k \in Keys : task'[w][k] = IF k \in Batch(i) THEN "loading"
                                           ELSE task[w][k]
      BY <1>0, <2>3 DEF NextBatch, TypeOK
    <3>2. ASSUME NEW j \in DOMAIN Jobs
          PROVE  /\ j < i => task'[w][Jobs[j]] = "settled"
                 /\ j >= i + BatchSize => task'[w][Jobs[j]] = "none"
      <4>1. /\ j \in Nat /\ Jobs[j] \in Keys
            /\ Jobs[j] \in Batch(i) <=> i <= j /\ j < i + BatchSize
        BY <3>1, BatchJobs, JobPlaces
      <4>2. /\ j < i => task[w][Jobs[j]] = "settled"
            /\ j >= i => task[w][Jobs[j]] = "none"
        BY <1>0, <3>1 DEF InStep
      <4>3. i \in Nat /\ BatchSize \in Nat
        BY <1>0, <3>1
      <4> HIDE DEF i
      <4> QED BY <3>1, <4>1, <4>2, <4>3
    <3> QED BY <3>1, <3>2 DEF InStep
  <2>4. CASE Finish(w)
    BY <1>0, <2>4 DEF Finish, TypeOK, NoTasks, InStep
  <2> QED BY <2>1, <2>2, <2>3, <2>4
<1> QED BY <1>1, <1>2, <1>4, <1>3 DEF IInv

(* Every step keeps the invariant.                                         *)
THEOREM StepIInv == IInv /\ [Next]_vars => IInv'
<1> SUFFICES ASSUME IInv, [Next]_vars PROVE IInv'
  OBVIOUS
<1>0. TypeOK
  BY DEF IInv
<1>1. ASSUME NEW c \in Callers, NEW k \in Keys, Load(c, k) PROVE IInv'
  <2>1. TypeOK'
    BY <1>0, <1>1 DEF Load, TypeOK, Tasks
  <2> QED BY <1>1, <2>1, TaskIInv DEF Load, Fetching
<1>2. ASSUME NEW c \in Callers, NEW k \in Keys, StoreOk(c, k) \/ StoreFails(c, k)
      PROVE  IInv'
  <2>1. TypeOK'
    BY <1>0, <1>2 DEF StoreOk, StoreFails, TypeOK, Tasks
  <2> QED BY <1>2, <2>1, TaskIInv DEF StoreOk, StoreFails, Fetching
<1>3. ASSUME NEW w \in Warmers, Warm(w) \/ Pause(w) \/ NextBatch(w) \/ Finish(w)
      PROVE  IInv'
  BY <1>3, WarmerIInv
<1>4. ASSUME NEW f \in Refreshers,
             Refresh(f) \/ CheckHit(f) \/ CheckMiss(f) \/ Refreshed(f)
      PROVE  IInv'
  <2>1. f \in Callers /\ f \notin Warmers
    BY CallersAssumption DEF Callers
  <2>2. TypeOK'
    <3>1. CASE Refresh(f)
      BY <1>0, <2>1, <3>1 DEF Refresh, TypeOK
    <3>2. CASE CheckHit(f)
      BY <1>0, <2>1, <3>2 DEF CheckHit, Advance, TypeOK
    <3>3. CASE CheckMiss(f)
      BY <1>0, <2>1, <3>3 DEF CheckMiss, TypeOK, Tasks
    <3>4. CASE Refreshed(f)
      BY <1>0, <2>1, <3>4 DEF Refreshed, Advance, TypeOK, NoTasks, Tasks
    <3> QED BY <1>4, <3>1, <3>2, <3>3, <3>4
  <2>3. \A w \in Warmers : pc'[w] = pc[w] /\ at'[w] = at[w] /\ task'[w] = task[w]
    BY <1>0, <1>4, <2>1 DEF Refresh, CheckHit, CheckMiss, Refreshed, Advance, TypeOK, Callers
  <2> QED BY <1>4, <2>2, <2>3, OthersIInv
        DEF Refresh, CheckHit, CheckMiss, Refreshed
<1>5. ASSUME NEW s \in Specifics, SpecificWarmed(s) \/ \E k \in Keys : WarmSpecific(s, k)
      PROVE  IInv'
  <2>1. s \in Callers /\ s \notin Warmers
    BY CallersAssumption DEF Callers
  <2>2. TypeOK'
    <3>1. UNCHANGED <<cached, closing, isWarming, at, faulty>>
      BY <1>5 DEF SpecificWarmed, WarmSpecific
    <3>2. pc' \in [Callers -> {"idle", "batch", "pausing", "checking", "fetching"}]
      BY <1>0, <1>5, <2>1 DEF SpecificWarmed, WarmSpecific, TypeOK
    <3>3. task' \in [Callers -> [Keys -> Tasks]]
      <4>1. CASE SpecificWarmed(s)
        BY <1>0, <2>1, <4>1, NoTasksTyped DEF SpecificWarmed, TypeOK
      <4>2. CASE \E k \in Keys : WarmSpecific(s, k)
        BY <1>0, <2>1, <4>2 DEF WarmSpecific, TypeOK, Tasks
      <4> QED BY <1>5, <4>1, <4>2
    <3> QED BY <1>0, <3>1, <3>2, <3>3 DEF TypeOK
  <2>3. \A w \in Warmers : pc'[w] = pc[w] /\ at'[w] = at[w] /\ task'[w] = task[w]
    BY <1>0, <1>5, <2>1 DEF SpecificWarmed, WarmSpecific, TypeOK, Callers
  <2> QED BY <1>5, <2>2, <2>3, OthersIInv DEF SpecificWarmed, WarmSpecific
<1>6. CASE (\E k \in Keys : Age(k) \/ Expire(k)) \/ ClearAllCaches \/ Recover
  <2>1. TypeOK'
    <3>1. FlagsOK'
      BY <1>0, <1>6, Zenon
         DEF Age, Expire, ClearAllCaches, Recover, FlagsOK, TypeOK
    <3>2. CallsOK'
      BY <1>0, <1>6 DEF Age, Expire, ClearAllCaches, Recover, CallsOK, TypeOK
    <3> QED BY <3>1, <3>2, TypeParts
  <2>2. UNCHANGED <<isWarming, pc, at, task>>
    BY <1>6 DEF Age, Expire, ClearAllCaches, Recover
  <2> QED BY <2>1, <2>2, OthersIInv
<1>7. CASE Restart
  <2>1. TypeOK'
    <3>1. FlagsOK'
      BY <1>0, <1>7, Zenon DEF Restart, FlagsOK, TypeOK
    <3>2. CallsOK'
      BY <1>0, <1>7, NoTasksTyped DEF Restart, CallsOK, TypeOK
    <3> QED BY <3>1, <3>2, TypeParts
  <2>2. WarmingIsExclusive'
    BY <1>7 DEF Restart, WarmingIsExclusive, Callers
  <2>3. \A w \in Warmers : InStep(w)'
    BY <1>7 DEF Restart, InStep, Callers, NoTasks
  <2> QED BY <2>1, <2>2, <2>3 DEF IInv
<1>8. CASE UNCHANGED vars
  BY <1>0, <1>8, OthersIInv DEF vars, TypeOK
<1> QED BY <1>1, <1>2, <1>3, <1>4, <1>5, <1>6, <1>7, <1>8 DEF Next, Proceed

(* A batch has as many places as its size.                                 *)
LEMMA IntervalSize ==
  ASSUME NEW a \in Nat, NEW n \in Nat \ {0}
  PROVE  IsFiniteSet(a .. (a + n - 1)) /\ Cardinality(a .. (a + n - 1)) = n
<1> DEFINE b == a + n - 1
<1>1. a \in Int /\ b \in Int /\ ~(a > b) /\ b - a + 1 = n
  OBVIOUS
<1> HIDE DEF b
<1>2. IsFiniteSet(a .. b) /\ Cardinality(a .. b) = b - a + 1
  BY <1>1, FS_Interval
<1> QED BY <1>1, <1>2 DEF b

(* The loads under way are of one batch.                                   *)
LEMMA InStepInBatches == IInv => BatchesInPriorityOrder
<1> SUFFICES ASSUME IInv PROVE BatchesInPriorityOrder
  OBVIOUS
<1>0. TypeOK /\ WarmingIsExclusive /\ BatchSize \in Nat \ {0}
  BY BatchAssumption DEF IInv
<1>1. ASSUME NEW w \in Warmers, NEW i \in DOMAIN Jobs, Fetching(w, Jobs[i])
      PROVE  /\ pc[w] # "idle"
             /\ at[w] <= i /\ i < at[w] + BatchSize
             /\ \A j \in 1..(at[w] - 1) : task[w][Jobs[j]] = "settled"
  <2>1. InStep(w) /\ at[w] \in Nat \ {0} /\ i \in Nat /\ Jobs[i] \in Keys
    BY <1>0, JobPlaces DEF IInv, TypeOK, Callers, Keys, Range
  <2>2. task[w][Jobs[i]] \notin {"none", "settled"}
    BY <1>1 DEF Fetching
  <2>3. pc[w] # "idle" /\ at[w] <= i /\ i < at[w] + BatchSize
    BY <1>0, <2>1, <2>2 DEF InStep
  <2>4. ASSUME NEW j \in 1..(at[w] - 1) PROVE task[w][Jobs[j]] = "settled"
    <3>1. j \in DOMAIN Jobs /\ j < at[w]
      BY <2>1, <2>3, JobPlaces, JobsAssumption
    <3> QED BY <2>1, <2>3, <3>1 DEF InStep
  <2> QED BY <2>3, <2>4
<1>2. Cardinality({k \in Keys : \E w \in Warmers : Fetching(w, k)}) <= BatchSize
  <2> DEFINE F == {k \in Keys : \E w \in Warmers : Fetching(w, k)}
  <2>1. CASE F = {}
    BY <1>0, <2>1, FS_EmptySet
  <2>2. CASE F # {}
    <3>1. PICK w \in Warmers : pc[w] # "idle"
      BY <1>1, <2>2, KeysAreJobs
    <3> DEFINE I == at[w]..(at[w] + BatchSize - 1)
               place == [k \in F |-> CHOOSE i \in DOMAIN Jobs : k = Jobs[i]]
    <3>2. at[w] \in Nat \ {0}
      BY <1>0 DEF TypeOK, Callers
    <3>3. ASSUME NEW k \in F
          PROVE  place[k] \in I /\ Jobs[place[k]] = k
      <4>1. place[k] \in DOMAIN Jobs /\ k = Jobs[place[k]]
        BY KeysAreJobs
      <4>2. PICK v \in Warmers : Fetching(v, k)
        OBVIOUS
      <4>3. v = w
        BY <1>0, <1>1, <3>1, <4>1, <4>2 DEF WarmingIsExclusive
      <4> QED BY <1>0, <1>1, <3>2, <4>1, <4>2, <4>3, JobPlaces
    <3>4. IsFiniteSet(I) /\ Cardinality(I) = BatchSize
      BY <1>0, <3>2, IntervalSize
    <3> HIDE DEF I, F, place
    <3>5. \A k, l \in F : place[k] = place[l] => k = l
      BY <3>3
    <3>6. place \in [F -> I]
      BY <3>3 DEF place
    <3>7. place \in Injection(F, I)
      BY <3>5, <3>6 DEF Injection, IsInjective
    <3> QED BY <3>4, <3>7, FS_Injection DEF ExistsInjection, F
  <2> QED BY <2>1, <2>2
<1> QED BY <1>1, <1>2 DEF BatchesInPriorityOrder

(* The invariant holds of the service whatever fails or restarts.          *)
THEOREM Invariance == Spec => []IInv
BY InitIInv, StepIInv, PTL DEF Spec

(* What is close to its expiration is cached, and calls are typed.         *)
THEOREM TypeCorrect == Spec => []TypeOK
BY Invariance, PTL DEF IInv

(* No two warmups at a time, and the flag tells the truth.                 *)
THEOREM WarmupsExclude == Spec => []WarmingIsExclusive
BY Invariance, PTL DEF IInv

(* Warmups keep to their batches, in the order of priority.                *)
THEOREM WarmupsKeepToBatches == Spec => []BatchesInPriorityOrder
BY Invariance, InStepInBatches, PTL

-----------------------------------------------------------------------------
(* A warmup that is under way comes to its end, if its steps are taken.    *)

(* A warmer turns to batches that there are, and starts all jobs of one.   *)
OnTrack(w) ==
    /\ pc[w] # "idle" => at[w] <= Len(Jobs) + 1
    /\ pc[w] = "pausing" => at[w] + BatchSize <= Len(Jobs)
    /\ pc[w] = "batch" => \A k \in Batch(at[w]) : task[w][k] # "none"

Tracked == \A w \in Warmers : OnTrack(w)

(* One job of a warmup comes one load or write further.                    *)
TaskGoesOn(w, k, t) ==
    /\ \/ task[w][k] = "loading" /\ t = "loaded"
       \/ task[w][k] = "loaded" /\ t = "settled"
    /\ task'[w] = [task[w] EXCEPT ![k] = t]
    /\ pc'[w] = pc[w] /\ at'[w] = at[w]

(* All that a step can do to a warmer.                                     *)
LEMMA WarmerSteps ==
    ASSUME TypeOK, [Next]_vars, NEW w \in Warmers
    PROVE  \/ UNCHANGED <<pc[w], at[w], task[w]>>
           \/ pc'[w] = "idle"
           \/ Warm(w)
           \/ Pause(w)
           \/ NextBatch(w)
           \/ \E k \in Keys, t \in Tasks : TaskGoesOn(w, k, t)
<1>0. w \in Callers
  BY DEF Callers
<1>1. ASSUME NEW c \in Callers, NEW k \in Keys,
             Load(c, k) \/ StoreOk(c, k) \/ StoreFails(c, k)
      PROVE  \/ UNCHANGED <<pc[w], at[w], task[w]>>
             \/ \E l \in Keys, t \in Tasks : TaskGoesOn(w, l, t)
  <2>1. PICK t \in Tasks : /\ task' = [task EXCEPT ![c][k] = t]
                           /\ \/ task[c][k] = "loading" /\ t = "loaded"
                              \/ task[c][k] = "loaded" /\ t = "settled"
                           /\ UNCHANGED <<pc, at>>
    BY <1>1 DEF Load, StoreOk, StoreFails, Tasks
  <2>2. CASE c # w
    BY <1>0, <2>1, <2>2 DEF TypeOK
  <2>3. CASE c = w
    <3>1. TaskGoesOn(w, k, t)
      BY <1>0, <2>1, <2>3 DEF TaskGoesOn, TypeOK
    <3> QED BY <3>1
  <2> QED BY <2>2, <2>3
<1>2. ASSUME NEW v \in Warmers, v # w,
             Warm(v) \/ Pause(v) \/ NextBatch(v) \/ Finish(v)
      PROVE  UNCHANGED <<pc[w], at[w], task[w]>>
  BY <1>0, <1>2 DEF Warm, Pause, NextBatch, Finish, TypeOK
<1>3. Finish(w) => pc'[w] = "idle"
  BY <1>0 DEF Finish, TypeOK
<1>4. ASSUME NEW f \in Refreshers,
             Refresh(f) \/ CheckHit(f) \/ CheckMiss(f) \/ Refreshed(f)
      PROVE  UNCHANGED <<pc[w], at[w], task[w]>>
  <2>1. f # w
    BY CallersAssumption
  <2> QED BY <1>0, <1>4, <2>1
          DEF Refresh, CheckHit, CheckMiss, Refreshed, Advance, TypeOK
<1>5. ASSUME NEW s \in Specifics, SpecificWarmed(s) \/ \E k \in Keys : WarmSpecific(s, k)
      PROVE  UNCHANGED <<pc[w], at[w], task[w]>>
  <2>1. s # w
    BY CallersAssumption
  <2> QED BY <1>0, <1>5, <2>1 DEF SpecificWarmed, WarmSpecific, TypeOK
<1>6. CASE (\E k \in Keys : Age(k) \/ Expire(k)) \/ ClearAllCaches \/ Recover
           \/ UNCHANGED vars
  BY <1>6 DEF Age, Expire, ClearAllCaches, Recover, vars
<1>7. CASE Restart
  BY <1>0, <1>7 DEF Restart
<1> QED BY <1>1, <1>2, <1>3, <1>4, <1>5, <1>6, <1>7 DEF Next, Proceed

LEMMA InitTracked == Init => Tracked
BY DEF Init, Tracked, OnTrack, Callers

LEMMA NextTracked == IInv /\ Tracked /\ [Next]_vars => Tracked'
<1> SUFFICES ASSUME IInv, Tracked, [Next]_vars, NEW w \in Warmers
             PROVE  OnTrack(w)'
  BY DEF Tracked
<1>0. /\ w \in Callers /\ TypeOK /\ TypeOK' /\ OnTrack(w) /\ InStep(w)
      /\ BatchSize \in Nat \ {0} /\ Len(Jobs) \in Nat
      /\ at[w] \in Nat \ {0}
  BY StepIInv, BatchAssumption, JobsAssumption DEF IInv, Tracked, TypeOK, Callers
<1>1. CASE UNCHANGED <<pc[w], at[w], task[w]>>
  BY <1>0, <1>1 DEF OnTrack
<1>2. CASE pc'[w] = "idle"
  BY <1>2 DEF OnTrack
<1>3. CASE Warm(w)
  <2>1. /\ pc'[w] = "batch" /\ at'[w] = 1
        /\ \A k \in Keys : task'[w][k] = IF k \in Batch(1) THEN "loading" ELSE "none"
    BY <1>0, <1>3 DEF Warm, TypeOK
  <2>2. Batch(1) \subseteq Keys
    BY DEF Batch, Keys, Range
  <2> QED BY <1>0, <2>1, <2>2 DEF OnTrack
<1>4. CASE Pause(w)
  <2>1. /\ pc'[w] = "pausing" /\ at'[w] = at[w]
        /\ at[w] + BatchSize <= Len(Jobs)
    BY <1>0, <1>4 DEF Pause, TypeOK
  <2> QED BY <1>0, <2>1 DEF OnTrack
<1>5. CASE NextBatch(w)
  <2>1. PICK i \in Nat : i = at[w] + BatchSize
    BY <1>0
  <2>2. /\ pc[w] = "pausing" /\ pc'[w] = "batch" /\ at'[w] = i
        /\ \A k \in Keys : k \in Batch(i) => task'[w][k] = "loading"
    BY <1>0, <1>5, <2>1 DEF NextBatch, TypeOK
  <2>3. Batch(i) \subseteq Keys
    BY DEF Batch, Keys, Range
  <2>4. i <= Len(Jobs)
    BY <1>0, <2>1, <2>2 DEF OnTrack
  <2> QED BY <1>0, <2>1, <2>2, <2>3, <2>4 DEF OnTrack
<1>6. ASSUME NEW k \in Keys, NEW t \in Tasks, TaskGoesOn(w, k, t)
      PROVE  OnTrack(w)'
  <2>1. /\ t # "none" /\ pc'[w] = pc[w] /\ at'[w] = at[w]
        /\ \A l \in Keys : task'[w][l] = IF l = k THEN t ELSE task[w][l]
    BY <1>0, <1>6 DEF TaskGoesOn, TypeOK
  <2>2. Batch(at[w]) \subseteq Keys
    BY DEF Batch, Keys, Range
  <2> QED BY <1>0, <2>1, <2>2 DEF OnTrack
<1> QED BY <1>0, <1>1, <1>2, <1>3, <1>4, <1>5, <1>6, WarmerSteps

(* The keys are no more than the places of the list.                       *)
LEMMA KeysFinite == IsFiniteSet(Keys)
<1>1. PICK n \in Nat : n = Len(Jobs)
  BY JobsAssumption
<1>2. IsFiniteSet(1..n)
  BY <1>1, FS_Interval
<1>3. /\ Jobs \in [1..n -> Keys]
      /\ \A k \in Keys : \E i \in 1..n : Jobs[i] = k
  BY <1>1, JobsAssumption, JobPlaces, KeysAreJobs
<1>4. Jobs \in Surjection(1..n, Keys)
  BY <1>3, Zenon DEF Surjection
<1> QED BY <1>2, <1>4, FS_Surjection

(* A smaller set of keys has no more, and fewer where one has gone.        *)
LEMMA FewerKeys ==
    ASSUME NEW S, S \subseteq Keys, NEW T, T \subseteq S
    PROVE  /\ Cardinality(T) \in Nat /\ Cardinality(S) \in Nat
           /\ Cardinality(T) <= Cardinality(S)
           /\ T # S => Cardinality(T) <= Cardinality(S) - 1
<1>1. IsFiniteSet(S)
  BY KeysFinite, FS_Subset
<1>2. PICK n \in Nat : n = Cardinality(S)
  BY <1>1, FS_CardinalityType
<1>3. PICK m \in Nat : m = Cardinality(T)
  BY <1>1, FS_Subset, FS_CardinalityType
<1>4. m <= n /\ (m = n => S = T)
  BY <1>1, <1>2, <1>3, FS_Subset
<1> QED BY <1>2, <1>3, <1>4

LEMMA StepAdvances ==
    ASSUME IInv, Tracked, Tracked', [Next]_vars, NEW w \in Warmers, pc[w] # "idle"
    PROVE  \/ UNCHANGED <<pc[w], at[w], task[w]>>
           \/ pc'[w] = "idle"
           \/ WorkLeft(w)' \in 0 .. WorkLeft(w) - 1
<1>0. /\ w \in Callers /\ TypeOK /\ TypeOK'
      /\ at[w] \in Nat \ {0} /\ at'[w] \in Nat \ {0}
      /\ OnTrack(w) /\ OnTrack(w)'
      /\ BatchSize \in Nat \ {0}
      /\ InStep(w)
  BY StepIInv, BatchAssumption DEF IInv, TypeOK, Tracked, Callers
<1>1. PICK n \in Nat : n = Len(Jobs)
  BY JobsAssumption
<1>2. PICK a \in Nat : a = at[w]
  BY <1>0
<1>3. PICK a2 \in Nat : a2 = at'[w]
  BY <1>0
<1>4. PICK u \in Nat, l \in Nat : u = Cardinality(Unsettled(w)) /\ l = Cardinality(Unloaded(w))
  BY FewerKeys DEF Unsettled, Unloaded
<1>5. PICK u2 \in Nat, l2 \in Nat :
          u2 = Cardinality(Unsettled(w)') /\ l2 = Cardinality(Unloaded(w)')
  <2>1. Unsettled(w)' \subseteq Keys /\ Unloaded(w)' \subseteq Keys
    BY DEF Unsettled, Unloaded
  <2> QED BY <2>1, FewerKeys
<1>6. PICK b \in {0, 1} : b = IF pc[w] = "batch" THEN 1 ELSE 0
  OBVIOUS
<1>7. PICK b2 \in {0, 1} : b2 = IF pc'[w] = "batch" THEN 1 ELSE 0
  OBVIOUS
<1>8. /\ WorkLeft(w) = u + l + 2 * (n + 1 - a) + b
      /\ a <= n + 1
  BY <1>0, <1>1, <1>2, <1>4, <1>6 DEF WorkLeft, OnTrack
<1>9. WorkLeft(w)' = u2 + l2 + 2 * (n + 1 - a2) + b2
  BY <1>1, <1>3, <1>5, <1>7 DEF WorkLeft
<1>10. pc'[w] # "idle" => a2 <= n + 1
  BY <1>0, <1>1, <1>3 DEF OnTrack
<1>11. ASSUME pc'[w] # "idle", NEW d \in Nat, NEW d2 \in Nat,
              d = u + l + 2 * (n + 1 - a) + b,
              d2 = u2 + l2 + 2 * (n + 1 - a2) + b2, d2 <= d - 1
       PROVE  WorkLeft(w)' \in 0 .. WorkLeft(w) - 1
  BY <1>8, <1>9, <1>11
<1>12. PICK d \in Nat : d = u + l + 2 * (n + 1 - a) + b
  BY <1>8
<1>13. ASSUME pc'[w] # "idle"
       PROVE  u2 + l2 + 2 * (n + 1 - a2) + b2 \in Nat
  BY <1>10, <1>13
<1>14. CASE Pause(w)
  <2>1. pc[w] = "batch" /\ pc'[w] = "pausing" /\ at'[w] = at[w] /\ task'[w] = task[w]
    BY <1>0, <1>14 DEF Pause, TypeOK
  <2>2. u2 = u /\ l2 = l
    BY <1>4, <1>5, <2>1 DEF Unsettled, Unloaded
  <2>3. u2 + l2 + 2 * (n + 1 - a2) + b2 <= d - 1
    BY <1>2, <1>3, <1>6, <1>7, <1>12, <2>1, <2>2
  <2> QED BY <1>11, <1>12, <1>13, <2>1, <2>3
<1>15. CASE NextBatch(w)
  <2>1. /\ pc[w] = "pausing" /\ pc'[w] = "batch" /\ at'[w] = at[w] + BatchSize
        /\ \A k \in Keys : task'[w][k] = IF k \in Batch(at[w] + BatchSize) THEN "loading"
                                         ELSE task[w][k]
    BY <1>0, <1>15 DEF NextBatch, TypeOK
  <2>2. ASSUME NEW k \in Batch(at[w] + BatchSize) PROVE k \in Keys /\ task[w][k] = "none"
    <3>1. PICK j \in DOMAIN Jobs : k = Jobs[j] /\ at[w] + BatchSize <= j
      BY DEF Batch
    <3> QED BY <1>0, <2>1, <3>1, JobPlaces DEF InStep, Keys, Range
  <2>3. Unsettled(w)' = Unsettled(w) /\ Unloaded(w)' = Unloaded(w)
    BY <2>1, <2>2 DEF Unsettled, Unloaded
  <2>4. u2 = u /\ l2 = l
    BY <1>4, <1>5, <2>3
  <2>5. a2 >= a + 1 /\ b = 0 /\ b2 = 1
    BY <1>0, <1>2, <1>3, <1>6, <1>7, <2>1
  <2>6. 2 * (n + 1 - a2) + b2 <= 2 * (n + 1 - a) + b - 1
    BY <2>5
  <2>7. u2 + l2 + 2 * (n + 1 - a2) + b2 <= d - 1
    BY <1>12, <2>4, <2>6
  <2> QED BY <1>11, <1>12, <1>13, <2>1, <2>7
<1>16. ASSUME NEW k \in Keys, NEW t \in Tasks, TaskGoesOn(w, k, t)
       PROVE  WorkLeft(w)' \in 0 .. WorkLeft(w) - 1
  <2>1. /\ pc'[w] = pc[w] /\ at'[w] = at[w]
        /\ \A m \in Keys : task'[w][m] = IF m = k THEN t ELSE task[w][m]
        /\ \/ task[w][k] = "loading" /\ t = "loaded"
           \/ task[w][k] = "loaded" /\ t = "settled"
    BY <1>0, <1>16 DEF TaskGoesOn, TypeOK
  <2>2. /\ Unsettled(w)' \subseteq Unsettled(w) /\ Unloaded(w)' \subseteq Unloaded(w)
        /\ Unsettled(w)' # Unsettled(w) \/ Unloaded(w)' # Unloaded(w)
    <3>1. CASE task[w][k] = "loading" /\ t = "loaded"
      <4>1. k \in Unloaded(w) /\ k \notin Unloaded(w)'
        BY <2>1, <3>1 DEF Unloaded
      <4>2. Unsettled(w)' \subseteq Unsettled(w) /\ Unloaded(w)' \subseteq Unloaded(w)
        BY <2>1, <3>1 DEF Unloaded, Unsettled
      <4> QED BY <4>1, <4>2
    <3>2. CASE task[w][k] = "loaded" /\ t = "settled"
      <4>1. k \in Unsettled(w) /\ k \notin Unsettled(w)'
        BY <2>1, <3>2 DEF Unsettled
      <4>2. Unsettled(w)' \subseteq Unsettled(w) /\ Unloaded(w)' \subseteq Unloaded(w)
        BY <2>1, <3>2 DEF Unloaded, Unsettled
      <4> QED BY <4>1, <4>2
    <3> QED BY <2>1, <3>1, <3>2
  <2>3. u2 <= u /\ (Unsettled(w)' # Unsettled(w) => u2 <= u - 1)
    <3>1. Unsettled(w) \subseteq Keys
      BY DEF Unsettled
    <3> QED BY <1>4, <1>5, <2>2, <3>1, FewerKeys
  <2>4. l2 <= l /\ (Unloaded(w)' # Unloaded(w) => l2 <= l - 1)
    <3>1. Unloaded(w) \subseteq Keys
      BY DEF Unloaded
    <3> QED BY <1>4, <1>5, <2>2, <3>1, FewerKeys
  <2>5. a2 = a /\ b2 = b
    BY <1>2, <1>3, <1>6, <1>7, <2>1
  <2>6. u2 + l2 <= u + l - 1
    BY <2>2, <2>3, <2>4
  <2>7. u2 + l2 + 2 * (n + 1 - a2) + b2 <= d - 1
    BY <1>12, <2>5, <2>6
  <2>8. pc'[w] # "idle"
    BY <2>1
  <2> QED BY <1>11, <1>12, <1>13, <2>7, <2>8
<1>17. ~Warm(w)
  BY DEF Warm
<1> QED BY <1>0, <1>14, <1>15, <1>16, <1>17, WarmerSteps

(* Nothing that happens to a warmup sets it back.                          *)
THEOREM WarmupsComeToAnEnd == Spec => WarmupsAdvance
<1>1. IInv /\ Tracked /\ [Next]_vars =>
          [\A w \in Warmers : pc[w] # "idle" =>
               \/ UNCHANGED <<pc[w], at[w], task[w]>>
               \/ pc'[w] = "idle"
               \/ WorkLeft(w)' \in 0 .. WorkLeft(w) - 1]_vars
  BY NextTracked, StepAdvances
<1> QED
  BY <1>1, InitIInv, StepIInv, InitTracked, NextTracked, PTL DEF Spec, WarmupsAdvance

(* A warmup that is at a batch has a load or a write under way, or may go  *)
(* on to the next batch or to its end: it never waits for a job that nobody *)
(* has started.                                                            *)
WarmupsGoOn ==
    \A w \in Warmers : pc[w] = "batch" =>
        AllSettled(w) \/ \E k \in Batch(at[w]) : Fetching(w, k)

THEOREM WarmupsNeverWaitInVain == Spec => []WarmupsGoOn
<1>1. TypeOK /\ Tracked => WarmupsGoOn
  <2> SUFFICES ASSUME TypeOK, Tracked, NEW w \in Warmers, pc[w] = "batch",
                      NEW k \in Batch(at[w]), task[w][k] # "settled"
               PROVE  Fetching(w, k)
    BY DEF WarmupsGoOn, AllSettled
  <2>1. k \in Keys /\ w \in Callers /\ task[w][k] # "none"
    BY DEF Batch, Keys, Range, Callers, Tracked, OnTrack
  <2> QED BY <2>1 DEF Fetching, TypeOK, Tasks
<1> QED
  BY <1>1, TypeCorrect, InitIInv, StepIInv, InitTracked, NextTracked, PTL DEF Spec

=============================================================================
