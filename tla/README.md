# Saddle OMS: a TLA+ development

Saddle OMS manages the orders of a saddle manufacturer: a NestJS backend
(`src/backend/src`) on PostgreSQL and Redis, and a Next.js frontend
(`src/frontend`). This directory holds TLA+ modules that model the parts of it
where state, concurrency and failure meet, the configurations with which TLC
checks them, and proofs of their properties for TLAPS. `PROJECT.json` maps every
definition to the lines it models, and lists the runs, the mutants that show
each property can fail, the hazards of the code and the theorems.

To repeat a run or a proof:

    tlc -workers 2 -config MCOrderService.cfg MCOrderService
    tlapm OrderServiceProofs.tla

## 1. The system

| part | state | operations | interacts with |
|---|---|---|---|
| Order aggregate (`orders/domain/order.ts`, value objects) | one order: status, priority, staff, amounts, dates, measurements | `create`, `changeStatus`, `cancel`, payments, assignments, dates | loaded and stored by the order repository |
| Order service (`orders/order.service.ts`) | the `orders` table | `create`, `update`, `cancel`, `remove`, finders | PostgreSQL through TypeORM; called by the controller |
| Order lines (`order-lines/order-line.service.ts`) | the `order_line` table | `create`, `bulkCreate`, `update`, `remove`, `resequence`, `calculateOrderTotal` | PostgreSQL through TypeORM |
| Cache warming (`cache/cache-warming.service.ts`) | `isWarming`; keys in Redis | `warmupCriticalData`, `backgroundRefresh`, `warmupSpecific` | `ProductionCacheService`, database, timer, cron, management controller |
| Cache sweeps (`cache/production-cache.service.ts`) | keys in Redis | `invalidatePattern`, `clearAllCaches` | Redis, management controller |
| Cache invalidation (`cache/cache-invalidation.service.ts`, `processors/`) | a BullMQ queue; keys in Redis | immediate and queued invalidation, refresh of materialized views, retries | Redis, database, management controller |
| Enriched orders (`enriched-orders/`) | result pages in Redis; the column `order_status` and the table `log` | read-through with a TTL; `updateOrderStatus` | reads what the order service writes, is told of nothing |
| Audit log (`audit-logging/`) | the table `audit_logs` | interceptor after every mutating request | order controller, for the previous status |
| Authentication, sessions (`auth/`, `session/`) | session rows, of which this build creates none | refresh, logout, password reset | users, JWT |
| Behaviors (`behaviors/`) | registered hooks, version histories | ordered before and after hooks | called by no entity service today |
| Order repository, search | none | filter queries | PostgreSQL |
| Factories (`factories/factory.service.ts`) | the `factories` table | create, update, soft delete, list by city | PostgreSQL; the frontend's list |
| Customers, comments, warehouses, fitters, catalogue | one table each | create, update, soft delete, (warehouses) restore | PostgreSQL |
| Entity lists of the frontend (`hooks/useEntityData.ts`, `components/Factories.tsx`) | the rows held, loading, error, filter | fetch, refetch, optimistic changes, delete, edit, create | the REST API |
| Row level security, mail, files, health, monitoring | little or none | I/O, wiring | |

What is hard:

* **Concurrency.** Node runs one piece of code at a time, but every `await` lets
  other requests in. A handler reads a row, changes its copy and calls
  `repository.save`, which itself is a SELECT, a comparison and an UPDATE of the
  differing columns. There is no transaction around the two, no lock, no version
  column, and several backend processes may run.
* **Partial failure.** `resequence` saves lines one at a time; the cache layer
  swallows its failures; a loader turns a failed query into an empty list.
* **Ordering.** Callers fill the same cache keys without coordination; answers
  to the frontend come in any order; a scan for keys to delete ends, and deletes,
  after the request for it was answered.
* **Stale reads.** The old status of a log entry, the page of a cache entry, the
  filter of a refetch: each is read before an await and used after it.
* **Time.** Estimated dates against the clock, entries against their TTL.

What makes the parts correct, as far as the code can promise it:

* *aggregate*: the books balance; nothing leaves the workshop uninspected; dates
  match the status; a finished order is frozen;
* *service and lines*: a race may lose a write but must not invent one, must
  write related columns together, must leave other rows alone; a request that
  runs alone loses nothing;
* *warming*: one warm-up at a time, bounded load, highest priority first, each
  warm-up ends, expired entries come back;
* *status trail*: the log leads from an order's first status to its present one,
  or at least names it; the audit entry names the status that was replaced;
* *enriched orders*: an entry was true since its request began, its pagination is
  right, a sweep deletes what it was asked to (which it does only under a key
  prefix that is not the default one), old pages go;
* *lists*: at rest, a list is not loading, has no optimistic change left and shows
  an error or rows the table has had since the last fetches; it comes to rest.

## 2. The modules

| module | what it is |
|---|---|
| `OrderStatus` | statuses, transition table, predicates of the two value objects |
| `OrderContract` | abstract: what an order promises to an outsider, its stage and the amount owing |
| `OrderLifecycle` | the aggregate, one action per method |
| `MCOrderLifecycle` | its instance for TLC |
| `OrderLifecycleProofs` | its theorems |
| `TypeOrmSave` | what the services rely on of TypeORM's `save` (external) |
| `AtomicOrders` | abstract: what a client of the order service may count on |
| `OrderService`, `MCOrderService`, `OrderServiceProofs` | the live path of orders |
| `AtomicLines` | abstract: the same for a single line of an order |
| `OrderLines`, `MCOrderLines`, `OrderLinesProofs` | the lines of an order |
| `CacheWarming`, `MCCacheWarming`, `CacheWarmingProofs` | warming the cache |
| `StatusTrail`, `MCStatusTrail`, `StatusTrailProofs` | an order's two statuses, the table `log` and the audit log |
| `EnrichedOrders`, `MCEnrichedOrders`, `EnrichedOrdersProofs` | the pages of orders in the cache, and the sweeps of it |
| `EntityList`, `MCEntityList`, `EntityListProofs` | the list of factories in the frontend, and the service behind it |

### OrderLifecycle

The variables are the fields of `Order`, with `now` for the clock and `inspected`
as a history variable. A method that throws changes nothing, so an action's
guard is the negation of the conditions that throw. Amounts are integers: the
columns are `decimal(10,2)`, and an integer stands for a number of cents.
`updatedAt` is not modelled, since nothing reads it. Note that this
aggregate and the service below are two implementations of the same order: the
REST path goes through the service, which consults neither the transition table
nor the cap on payments.

`OrderContract` is what a customer sees: the stage (workshop, transit,
delivered, returned, cancelled) only moves forward, a cancelled or returned
order stays so, and the amount owing only goes down. `HonoursContract` says
that the aggregate implements it under the mapping `stage <- Stage`,
`owing <- balanceOwing`.

### OrderService and TypeOrmSave

A request is `idle`, then `loaded` (it has found its row and changed its copy,
which happens with no `await` in between), `saving` (the SELECT of `save` has
compared), and `done`; `removing` stands between `findOne` and `softDelete`;
`failed` is a 404, a failing statement or a crash. `Commit` writes only the
columns that `Compare` found to differ. What exactly is lost in a race hangs on
this, so it is modelled: two payments that both start from 0 are one payment
afterwards, but a change of status and a payment merge.

History variables record what the properties speak of: the payments offered and
committed per order, whether two requests ever overlapped, whether somebody set
the total, and, per request, whether another held its order with it (`crowded`).

`AtomicOrders` is what a client may count on. Each request is one step there, on
the row as it is at that moment: a column that the body gives is set, flag and
balance follow, every other column stays. Only while requests race for an order
may its row change otherwise. `LoneRequestsAreAtomic` says that the service
implements it, with the rows of the table for `rows` and the orders that some
crowded request holds for `contended`. It says more than `LoneRequestsLoseNothing`,
which speaks of orders that never saw an overlap: here a request that comes when a
race is over is atomic again, and the race itself reaches no other order.

### OrderLines

The same statements over lines; a resequence goes round `loaded`, `saving` for
each id of its list that names a line it has read (`NextPlace` passes over the
others) and ends with the read of its answer. `asked` records, per line, the
price and the deletion last asked for by a request that completed.

`AtomicLines` promises of a single line what `AtomicOrders` does of an order. The
unit is the line and not the order, because a resequence is not atomic and
nothing in the code claims that it is: it moves one line after the other. What
may be claimed is that each of these moves is whole, changes the place and
nothing else, starts from the line's present price and deletion, and holds also
while others race for the order's other lines. `crowded` records, per request,
the lines another held with it.

### CacheWarming

A warm-up keeps a task per key (`loading`, `loaded`, `settled`), so that the jobs
of a batch run concurrently; `at` is its place in the list. `closing` are the
entries about to expire. `faulty` says whether queries, Redis and the process may
fail; `Recover` ends the failures, as liveness has to assume. Loaders never
throw, because they turn a failure into an empty list, and the empty list is
cached and found like any other (`[]` is truthy): the model does not tell them
apart. `WorkLeft` counts what a warm-up still has to do: a load and a write per
job, a turn and a pause per batch that may be left.

### StatusTrail

A row has two statuses: the text `status`, set by PATCH and cancel through
`OrderService`, and the number `order_status`, set by `updateOrderStatus`, which
also writes the table `log`. Nothing keeps the two in agreement, so no property
relates them. A PATCH with a status is `peeked` (the controller's own `findOne`
has left its context on the request), `loaded`, `saving` and `answered`, as in
`OrderService`; an update of the number is `read`, `updated`, `answered`; `done`
is after the interceptor's INSERT, for which nobody waits. The entity a PATCH
saves has the number too: if another request has changed it meanwhile, `save`
finds a difference and writes the old one back, with no entry.

History: whether two requests of an order overlapped, whether an entry was
lost (`skipped`), and the text that stood in the row a PATCH wrote to. Orders
begin as the order service creates them. The database takes no text for the
integer columns of the audit log; `Accepts` says so.

### EnrichedOrders

The model keeps every state the table was in (`was`), and an entry the numbers of
those its request began, counted and read its page in, so that properties can say
when an entry was true. Rows with the same `order_time` may come in any order, so
a page is a set of possible ones (`Pages`). `buildWhereConditions` is `Where`:
which rows with which contents a filter lets through is a constant (`Selects`), the
same for the count and the page, as the code puts one text into both statements.
The controller cleans a query before the service sees it (`Sanitized`), so that a
limit above the maximum has the key of the maximum. A query is its own key, on
the assumption that no value holds the colon the parts are joined with. Redis
promises of a SCAN that keys which exist throughout are returned: a sweep has
`steady` keys, which it must find, and `ever` keys, which it may; `doomed` are
those whose entry is still the one it was asked to delete. What a pattern finds
is a constant (`Finds`): `enriched_orders:*`, which the tag `orders` stands for,
finds nothing, since ioredis prefixes no pattern, and `*enriched_orders*` all. What
the scan returns are names (`Name`), keys with the configured prefix before them,
and `invalidatePattern` makes keys of them again by cutting off the literal
`oms_cache:` (`CleanKey`). The prefix is the constant `KeyPrefix`: `oms_cache`
by default (`config/redis.config.ts:30`), so that nothing is cut off and `del` is
asked for keys that do not exist. Only if `REDIS_KEY_PREFIX` is set to
`oms_cache:` does a sweep delete what it finds. A hit changes nothing and is no
action. A `get` that fails may come out as a miss while there is an entry; this is
left out, and no property depends on it.

### EntityList

A fetch is in flight, then answered, then delivered or failed, independently of
all others: no code cancels one. A handler changes the list and is then `sent`. A
deletion is served by `FactoryService.remove`: `loaded` (its `findOne`), `applied`
(its `save`), `waiting` for the 100 ms timer, `done`; `refused` stands for an
error answer or a lost request, and an answer may be lost after `applied`. The
refetch has the filter of the render its handler was made in.

**Edits and creations are always refused.** `updateSupplier` and `createSupplier`
(`services/suppliers.ts:268` and `:174`) post a bundle to `/save`. No controller of
this backend has that route: all routes lie under `/api` (`main.ts:44`), and
factories are changed by PATCH and POST under `/api/v1/factories`. `Served` says
so. What the handlers do after an answer that is no error (the second optimistic
change, the timer) is therefore out of reach for these two and not modelled; what is
left of an edit is an optimistic change that has to be undone, of a creation
nothing. `FactoryService.update` and `create` are reached by other clients only,
whose changes are `Write`.

History: a *run* of fetches lasts from the first one to the moment none is under
way. `since` is the state of the table in which the present or last run began,
`asked` the filters it asked for, `overlapped` whether two of its fetches were
under way at once. `saved` is the last state due to a deletion whose handler has an
answer or an error. `StepsLeft` counts the steps the list has before it: those of
its handlers and fetches, and three for every change the user or another may still
make.

Abstractions: of a factory the city, of the filters the one for cities, which
matches whole names (the code's `ILIKE` matches parts); no more rows than fit on a
page, since the list takes the rows of its page for the total and never offers
another; the count and the page of one answer are one step, as this list uses no
count; a row under edit is one the list shows when the user saves; a change by
another user is one row in one statement.

## 3. What is checked

### order_lifecycle (pass, about 300,000 states)

Amounts -1 to 3, ids 0 and 7, dates 0 to 3 and a clock from 1 to 3. A total of 3
can be paid in one, two or three payments and be overshot, ids and amounts can be
refused, each date can lie before, at and after the clock. Statuses and
priorities are complete. The clock is the only bound on behaviour: the run
includes every sequence of calls of any length.

* `PaymentBalances`: paid and owed add up to the total and stay in range.
* `NeverShipsUninspected`: ready, shipped, delivered or returned only after an
  inspection later than the last production.
* `DeliveryIsDated`: dated exactly when delivered, never in the future.
* `OverdueOnlyByTime`: no call makes an order overdue.
* `FinishedIsFrozen`: five guards together freeze a finished order.
* `HonoursContract`: the refinement.

`cancel` asks a predicate of its own and not the transition table: it takes an
order from `shipped_to_customer` to `cancelled`, which `STATUS_TRANSITIONS` does not
list although `OrderStatus` says that it enforces the transitions. `HonoursContract`
allows it: an order in transit may be cancelled there.

### order_service (pass, about 480,000 states)

One order and four requests: rows share no column, so a second order would only
multiply the states. Four requests let three race while a fourth runs whole
between two statements of another. The DTOs contain a status, priorities on both
sides of urgent, a payment, a new total, and both at once.

* `BalanceTracksDeposit`: while nobody sets the total, the two columns belong
  together in spite of every race, since they differ from the row together.
* `NoPaymentCountedTwice`: deposits on record never exceed those offered.
* `LoneRequestsLoseNothing`: without an overlap, the deposit is exactly the sum
  of the committed payments, and urgent means urgent.
* `DeletedIsGone`: a deleted order whose earlier readers have ended stays as it
  is, and no request gets hold of it again. It is weaker than one would wish: a
  reader that has not ended can write `deletedAt = null` back.
* `LoneRequestsAreAtomic`: the refinement of `AtomicOrders`. Four requests are
  enough for a race of two or three, and a request after it has ended.

### order_balance (violation)

A PATCH with a total and no deposit leaves the old balance: the equation the
migration guide asserts of every order fails after one request.

### order_lines (pass, about 530,000 states)

Two orders, three lines, three requests; the lists name every line, one line
twice, or a line that may belong to the other order. Symmetry over requests.

* `LoneRequestsKeepTheTotal`: no price or deletion is undone, also when a
  resequence stops half way.
* `LoneResequencePlaces`: the lines passed are where the list has them last.
* `OtherOrdersUntouched`: ids of another order's lines reach nothing there.
* `DeletedIsGone`: as for orders.
* `LoneChangesAreAtomic`: the refinement of `AtomicLines`. Two requests can race
  for one line while the third has another of the same order.

### order_lists (violation)

A list with a line twice has the right length and is accepted.

### cache_warming (pass, about 87,000 states, liveness, deadlock checked)

Three jobs in batches of two (a full batch, a short one and a pause in between),
the first two of them refreshed by the cron; two warm-ups, the cron and a
single-key warm-up.

* `WarmingIsExclusive`, `BatchesInPriorityOrder` (safety).
* `WarmupsAdvance`: every step that touches a warm-up under way, failed writes and
  cleared caches included, ends it or leaves it less to do (`WorkLeft`).
* `WarmingEnds`: a warm-up ends. `RefreshKeepsWarm`: once failures have ended,
  each background key is cached again and again.

Fairness is weak fairness of each caller's next step (`Proceed`): queries and
Redis commands answer or fail, timers fire, the event loop resumes a settled
promise, and the cron comes round. It promises nothing of operators (`Warm`,
`WarmSpecific`, `ClearAllCaches`), of expirations, crashes or recovery. The order
and line services claim no liveness: nothing in their paths retries, so nothing
must happen eventually.

### cache_renewal (violation)

The refresh passes over an entry it finds about to expire, although its comment
speaks of such entries.

### status_trail (pass, about 800,000 states)

Statements may fail and processes die at every step. The ids include an order
that was deleted and one that never was, the names one that the table `statuses`
does not have.

* `LoneRequestsLeaveATrail`: without overlaps and lost entries, each entry starts
  where the one before ended and the last leads to the number in the row,
  whatever PATCHes and cancels save in between.
* `StatusIsAccountedFor`: with overlaps, the number is still one the log names, or
  that a request about to write its entry has put there.
* `LoneContextIsWhatWasReplaced`: the status handed to the interceptor is the one
  that the save replaced.

### status_audit (violation)

The same system with nothing failing. One PATCH that sets a status has no entry
once its interceptor is through: the context is the text `pending`, the column an
integer, and the error is only warned of.

### enriched_orders (pass, about 213,000 states, liveness, deadlock checked)

Three orders, two of the same second, and the first two pages of those that are
new, of two rows each; the second page is also asked for by a limit above the
maximum. Two requests run at a time, and a sweep. One write takes an order away
or changes its status: the filter lets one, two or three orders through, so that a
page is full or not and the next one there or not. Two requests suffice for one to
store an older page over a newer one, and one write for a count and a page to
disagree.

* `EntriesWereTrue`: an entry's total and rows are the count and the page of states
  since its request began, in this order. The two need not be the same state.
* `NextPageIsThere`: if nothing was written between the SELECTs, a next page is
  announced exactly when rows are behind this one.
* `PagesFit`: two pages of one state and filter are in order, and share a row only
  if another has the same time, for which the code has no tie-breaker.
* `SweptEntriesAreGone`: an ended sweep has deleted the entries its pattern found at
  the start, and if their keys are there, they have newer ones. This run sets
  `KeyPrefix` to `oms_cache:`, the only one with which sweeps work; the next run has
  the default.
* `StalePagesGo`: after the last write, sooner or later every entry shows the table
  and goes on to. Weak fairness of a request's next step (statements and Redis
  answer or fail) and of expirations (every entry is stored with a TTL). Nothing
  is assumed of sweeps and clears.

### cache_sweep (violation)

The same system with the key prefix that is configured by default, `oms_cache`. One
request stores a page, a sweep finds it and ends, and the page is still there:
`SweptEntriesAreGone` fails. The controller says of the operation that it
"Invalidates cache entries matching the specified pattern", and
`cache.integration.spec.ts:115-132` expects the entries of a pattern gone.

### entity_list (pass, about 74,000 states, liveness)

Two factories in two cities, two handlers of any kind, and one change of the
filter or of the table by another user: two handlers and the first fetch give
every order of three answers. A deletion can meet an edit, another deletion, a new
filter or a change by somebody else at each of its statements.

* `LoadingMeansFetching`: the list says it loads only while a fetch is under way,
  and whenever one is, unless two overlap.
* `QuietListIsRight`: at rest, the list shows an error and nothing, or the rows of
  one state of the table that is no older than its last run of fetches (`Brought`).
  So no row of a refused edit is left in it, no deletion that failed, and nothing that
  an answer from an earlier run brought, whatever overlapped or failed. In which of
  the run's states and with which of its filters an overlap leaves it is open, as
  nothing ties an answer to its request. If the run's fetches did not overlap, its
  state has all deletions that the user was answered; and if no filter changed under
  a handler, the rows are those of the list's own filter.
* `TrafficRunsOut`: every step takes at least one from `StepsLeft`, so no fetch and
  no failure starts others without end.
* `TrafficEnds`: all comes to rest, with no more user actions. Weak fairness of each
  fetch and each handler: requests are answered or fail, and timers fire.

Deadlock checking is off only where each request is served once, or the user's
actions are bounded, and the system stops when all have been.

## 4. What is proved

The constants are arbitrary under the named assumptions: any number of orders,
requests, jobs and callers, any DTOs that validation lets through.

**OrderLifecycleProofs.** The invariant adds to the checked ones what makes them
inductive: an order in quality control has been inspected, an order before
shipping has no delivery date. From it follow type correctness, the three
invariants, the two action properties and the refinement.

**OrderServiceProofs.** The properties of the table are not inductive, because a
copy in a request's hands decides what the table will hold. The invariant
therefore speaks of every holder: its copy's deposit is covered by the payments
offered (`Backed`); its balance belongs to its deposit, and the dirty set has
both columns or the two rows agree on them (`BalancedHolder`); and a holder that
is alone has a copy that is the row plus its own change (`LoneHolder`). A `Commit`
then maps these facts to the row, and any other step that changes a row makes
either no holder or an overlap.

`ImplementsAtomicOrders` needs an invariant of its own, `CrowdOK`, because
`LoneHolder` ends for good with an order's first overlap. It says of every holder
that is not crowded that it is the only one, and that its copy is what its one
statement makes of the row as it is now (`WholeHolder`), however many races the
order has been through. Its `Commit` is then one of the steps of `AtomicOrders`;
what a crowded holder writes is a step of the race, and so is every step that
changes only who holds what.

**OrderLinesProofs.** As for orders, the invariant speaks of the holders: a
request owns rows of its order only (`Owns`) and stands at one of them
(`InList`); if it is alone, its copies are the rows with its own price (`Fresh`),
and the lines it has passed stand in their places (`Places`). Two frame lemmas
(`KeepHolder`, `OthersKeep`) say when a step leaves the other holders' facts
alone; each action then speaks of its own request only. That the loop of
`resequence` skips no line it holds (`NextPlaceFacts`) rests on the well-foundedness
of the naturals. That the total is kept follows from the rows by equality of the
functions summed, so nothing need be known of the sum.

`ImplementsAtomicLines` follows the plan of the orders, with lines for orders
(`CrowdOK`, `WholeLine`): a line that its holder does not count as crowded has no
other holder, and the copy of it is the present row with an update's body applied,
or, in the other requests, has the present row's price and deletion. A request
may hold crowded and uncrowded lines at once, so each `Commit` is a step of the
line it saves and of no other.

**CacheWarmingProofs.** The invariant says where each warm-up's tasks can stand
(`InStep`): those before `at` are settled, those of the batch are under way,
those after are untouched. The bound on the load is an injection of the keys
under way into `at .. at + BatchSize - 1`.

`WarmupsComeToAnEnd` is the part of termination that is a matter of steps:
`WorkLeft` is a natural number that every step of a warm-up lowers. It needs to
know what a batch that has been gone through leaves behind (`Tracked`), and that
taking a job from a finite set lowers its size. `WarmupsNeverWaitInVain` is the
other part: a warm-up at a batch has a load or a write under way or may go on. What
is missing for `WarmingEnds` is only that steps that may be taken are, the
fairness that the model assumes and TLC works with.

**StatusTrailProofs.** The invariant speaks of the requests under way: the number
an update has read, and that a PATCH holds in its copy, is one the log names, or
one that a request still to write its entry has put into the row; and if the
request is alone, it is the row's own. A save that writes an older number back
then stays inside the log, and the entry of a lone update starts where the log
ended. The contexts need the same of the text.

**EnrichedOrdersProofs.** What a request has read so far is true of the states it
was read in (`Counted`, `Filled`), and those states do not change, since writes
only append. A sweep's doomed keys are steady while it scans and found when it
deletes (`Sweeping`). `NextPageIsThere` then is arithmetic: the length of a slice
(`SliceOf`), and that rounding up gives a page for every row and none without one
(`NextPage`). `PagesFit` compares two sortings, since the database may sort ties
otherwise each time: if what comes earlier in one were older than what comes later
in the other, more rows would precede it there than there is room for before it
here (`EarlierIsNotOlder`, by the pigeonhole principle in `Crowded`).

What sweeps do hangs on the key prefix, and there is a theorem for either case.
`SweepsDelete` assumes that it is the one the code cuts off (`PrefixIsCutOff`);
`OtherPrefixesDeleteNothing` says that under every other one, the default among
them, no deletion of a sweep takes an entry. Both rest on `KeysComeOut`: a name
becomes its key again in the first case, and no key at all in the second.

**EntityListProofs.** The property speaks of a list at rest; the invariant says of
every list how it gets there. `Held`: the rows are of a state since the run began,
or there is an error and none, or a fetch is under way or a handler owes one
(`Pending`), which replaces them. `Coming`: what an answer holds is such a state too.
`UpToDate`: the run began after the last deletion with an answer, unless a timer is
still to start another or fetches overlap. `Asked`: without overlaps and strays, the
run asks for the list's filter only. At rest the alternatives of `Held` and `UpToDate`
that speak of something under way fall away, and what is left is
`QuietListIsRight`.

`TrafficIsBounded` shows for any number of factories, handlers and changes that
each step takes at least one from `StepsLeft`. The proof counts two finite sets,
the steps handlers have ahead and the fetches with those still unanswered; each
kind of step moves a known number of elements. `NumbersSuffice` is about the model
rather than the code: fetches take their numbers from a finite set, and a handler
or filter that is to fetch always finds one, so that the bound hides no behaviour.

Only model-checked: liveness (`WarmingEnds`, `RefreshKeepsWarm`, `StalePagesGo`,
`TrafficEnds`), which is out of the prover's reach (for the first and the last, the
variants above are proved in its place), and the five violated statements.

## 5. Plan

The plan of the core is carried out. What could come next, by what it would add:

1. The list of orders in the frontend, with its paging and search over
   `EnrichedOrders`: the stale page of the server under the stale answer of the
   client.
2. Versions of the data in `CacheWarming`, whose three callers race over one key
   as the requests of `EnrichedOrders` do over a page.
3. The mapper between the rows of `OrderService` and the aggregate, when something
   loads one into the other.

## 6. What is not modelled

* **Sessions.** This build creates no session row: the call in the password login
  is commented out (`auth/auth.service.ts:114`), and `validateSocialLogin`, which
  has one, is called by nobody. Refresh, logout and reset act on nothing.
* **CacheInvalidationService and its queue.** The keys it deletes are written
  nowhere, its patterns are handed to `del` as they stand, the views it refreshes
  are created by no migration, and its decorators are used nowhere.
* **Behaviors.** Nothing outside `behaviors/` calls the manager.
* **Row level security** is not imported by the application and is SQL.
* **Mail, files, health, monitoring, migrations** are I/O and wiring; the frontend's
  pages and forms present what its lists hold.
* **The other entities** repeat the read, change and save of the order service over
  rows without related columns.
* **Search** builds one statement each time, and what that selects is SQL's to say,
  as it is of the filters of enriched orders, which are a constant of the model.

Inside the modelled parts, columns that no property relates to another are left
out, and so are the finders, which change nothing; each module's header and the
notes in `PROJECT.json` name them.
