------------------------------- MODULE EntityList -------------------------------
(***************************************************************************)
(* A list of the frontend: useEntityData                                   *)
(* (frontend/hooks/useEntityData.ts) as frontend/components/Factories.tsx  *)
(* uses it, with the requests of frontend/services/suppliers.ts, over the  *)
(* factories of the backend (backend/src/factories/factory.service.ts).    *)
(* A fetch is started by a change of the filter and at the end of every    *)
(* handler but that of a failed creation; nothing cancels one, and answers *)
(* come in any order.  Handlers change the list before they have asked the *)
(* server, and put it right with a fetch afterwards, 100 ms after an       *)
(* answer and at once after a failure.  That fetch has the filter of the   *)
(* render the handler was made in.                                         *)
(*                                                                         *)
(* A deletion is a DELETE that FactoryService.remove serves.  An edit and  *)
(* a creation are a POST to /save, a route that no controller of the       *)
(* backend has: they are refused, and what the handlers do with the answer *)
(* of one that succeeds is out of reach.                                   *)
(*                                                                         *)
(* Of a factory the model has its city, of the filters the one for cities. *)
(* There are no more factories than fit on a page: the component counts    *)
(* the rows of its page for the total, so it never offers a second one.    *)
(***************************************************************************)
EXTENDS Integers, Sequences, FiniteSets, Functions

CONSTANTS
    Ids,        \* the factories there may be
    Cities,
    FirstTables, \* the factories there may be at first, with their cities
    Handlers,   \* the deletions, edits and creations, each made once
    MaxMoves    \* bound on the changes of the filter and those by other users

All == "all"    \* no filter

ASSUME CitiesAssumption == All \notin Cities
ASSUME TablesAssumption ==
    FirstTables \subseteq UNION {[S -> Cities] : S \in SUBSET Ids}
ASSUME BoundsAssumption == IsFiniteSet(Handlers) /\ MaxMoves \in Nat

VARIABLES
    was,        \* the states of the factories table so far, the present one last
    data,       \* the rows the hook holds
    loading,
    error,
    filter,
    fetches,    \* the fetches under way
    pc,         \* where each handler is
    change,     \* what it is about
    \* history
    moves,      \* how often the filter was changed, or the table by another user
    saved,      \* the last state due to a deletion that the handler has an answer
                \* to, or an error
    since,      \* the state in which the present or last run of fetches began:
                \* a run ends when none is under way
    asked,      \* the filters that the fetches of the run asked for
    overlapped, \* whether one of them was started while another was under way
    strayed     \* whether the filter ever changed while a handler was under way

listVars    == <<data, loading, error, filter>>
handlerVars == <<pc, change>>
fetchVars   == <<fetches, since, asked, overlapped>>
vars == <<was, listVars, fetchVars, handlerVars, moves, saved, strayed>>

-----------------------------------------------------------------------------

Tables == UNION {[S -> Cities] : S \in SUBSET Ids}

Table == was[Len(was)]

NoRows == [o \in {} |-> All]

Matches(city, f) == f = All \/ city = f

(* The rows of a table, or of a list, that a filter lets through.          *)
Filtered(t, f) == Restrict(t, {o \in DOMAIN t : Matches(t[o], f)})

(* What the table shows: the component filters what it holds once more.    *)
Shown == Filtered(data, filter)

(* There are never more fetches than these: the first, one by every change *)
(* of the filter and one by every handler.                                 *)
Ns == 0 .. MaxMoves + Cardinality(Handlers)

(* The numbers that tell the fetches under way apart.                      *)
Unused == Ns \ {x.n : x \in fetches}

(* A fetch: sent, or answered by the server with the rows of its filter.   *)
Sent(f) ==
    [n |-> CHOOSE n \in Unused : TRUE, filter |-> f, answered |-> FALSE,
     rows |-> NoRows]

NoChange == [kind |-> "none", id |-> 0, filter |-> All, at |-> 0]

Working(h) == pc[h] \notin {"idle", "done"}

Init ==
    /\ was \in {<<t>> : t \in FirstTables}
    /\ data = NoRows
    /\ loading = TRUE
    /\ error = FALSE
    /\ filter = All
    /\ fetches = {[n |-> 0, filter |-> All, answered |-> FALSE, rows |-> NoRows]}
    /\ pc = [h \in Handlers |-> "idle"]
    /\ change = [h \in Handlers |-> NoChange]
    /\ moves = 0
    /\ saved = 1
    /\ since = 1
    /\ asked = {All}
    /\ overlapped = FALSE
    /\ strayed = FALSE

-----------------------------------------------------------------------------
(* fetchData.                                                              *)

StartFetch(f) ==
    /\ Unused # {}
    /\ loading' = TRUE
    /\ error' = FALSE
    /\ fetches' = fetches \cup {Sent(f)}
    /\ overlapped' = (fetches # {})
    /\ IF fetches = {} THEN since' = Len(was) /\ asked' = {f}
                       ELSE since' = since /\ asked' = asked \cup {f}

(* The server answers with the rows as they are.                           *)
Answer(x) ==
    /\ x \in fetches /\ ~x.answered
    /\ fetches' = (fetches \ {x}) \cup
           {[x EXCEPT !.answered = TRUE, !.rows = Filtered(Table, x.filter)]}
    /\ UNCHANGED <<was, listVars, since, asked, overlapped, handlerVars, moves,
                   saved, strayed>>

(* The answer arrives: setData, finally setLoading(false).                 *)
Deliver(x) ==
    /\ x \in fetches /\ x.answered
    /\ fetches' = fetches \ {x}
    /\ data' = x.rows
    /\ loading' = FALSE
    /\ UNCHANGED <<was, error, filter, since, asked, overlapped, handlerVars,
                   moves, saved, strayed>>

(* Mutant: loading ends with the answers only.                             *)
LoadingAfterError == loading

(* finally.                                                                *)
LoadingAfterwards == FALSE

(* The request or its answer is lost, or the server fails.                 *)
FailFetch(x) ==
    /\ x \in fetches
    /\ fetches' = fetches \ {x}
    /\ data' = NoRows
    /\ error' = TRUE
    /\ loading' = LoadingAfterwards
    /\ UNCHANGED <<was, filter, since, asked, overlapped, handlerVars, moves,
                   saved, strayed>>

(* updateFilter; the effect fetches with the new filter.                   *)
ChooseFilter(f) ==
    /\ moves < MaxMoves
    /\ f # filter
    /\ filter' = f
    /\ moves' = moves + 1
    /\ StartFetch(f)
    /\ strayed' = (strayed \/ \E h \in Handlers : Working(h))
    /\ UNCHANGED <<was, data, handlerVars, saved>>

-----------------------------------------------------------------------------
(* handleDeleteSupplier, handleSaveSupplier, handleCreateSupplier.         *)

Begin(h, kind, o) ==
    /\ pc[h] = "idle"
    /\ pc' = [pc EXCEPT ![h] = "sent"]
    /\ change' = [change EXCEPT ![h] =
                     [kind |-> kind, id |-> o, filter |-> filter, at |-> 0]]
    /\ UNCHANGED <<was, loading, error, filter, fetchVars, moves, saved, strayed>>

(* The row goes from the list before the server is asked.                  *)
Delete(h, o) ==
    /\ o \in DOMAIN Shown
    /\ Begin(h, "delete", o)
    /\ data' = Restrict(data, DOMAIN data \ {o})

(* Mutant: the row gets the city that is filtered for.                     *)
WithCityOfFilter(o, c) == [u \in DOMAIN data |-> IF u = o THEN filter ELSE data[u]]

(* updateEntityOptimistically.                                             *)
WithCity(o, c) == [u \in DOMAIN data |-> IF u = o THEN c ELSE data[u]]

Edit(h, o, c) ==
    /\ o \in DOMAIN Shown
    /\ Begin(h, "edit", o)
    /\ data' = WithCity(o, c)

Create(h) ==
    /\ Begin(h, "create", 0)
    /\ UNCHANGED data

(* The table without the row.                                              *)
Changed(t, x) == Restrict(t, DOMAIN t \ {x.id})

(* The requests there is a route for.                                      *)
Served(kind) == kind = "delete"

(* The findOne of FactoryService.remove.                                   *)
Load(h) ==
    /\ pc[h] = "sent"
    /\ Served(change[h].kind)
    /\ change[h].id \in DOMAIN Table
    /\ pc' = [pc EXCEPT ![h] = "loaded"]
    /\ UNCHANGED <<was, listVars, fetchVars, change, moves, saved, strayed>>

(* Its save.                                                               *)
Save(h) ==
    /\ pc[h] = "loaded"
    /\ pc' = [pc EXCEPT ![h] = "applied"]
    /\ was' = Append(was, Changed(Table, change[h]))
    /\ change' = [change EXCEPT ![h].at = Len(was) + 1]
    /\ UNCHANGED <<listVars, fetchVars, moves, saved, strayed>>

(* There is no such route, "Factory not found", a statement that fails, or *)
(* a request that is lost.                                                 *)
Refuse(h) ==
    /\ pc[h] \in {"sent", "loaded"}
    /\ pc' = [pc EXCEPT ![h] = "refused"]
    /\ UNCHANGED <<was, listVars, fetchVars, change, moves, saved, strayed>>

Settled(h) == IF change[h].at > saved THEN change[h].at ELSE saved

(* The answer arrives: setTimeout.                                         *)
Return(h) ==
    /\ pc[h] = "applied"
    /\ pc' = [pc EXCEPT ![h] = "waiting"]
    /\ saved' = Settled(h)
    /\ UNCHANGED <<was, listVars, fetchVars, change, moves, strayed>>

(* Mutant: the timer is set again.                                         *)
AfterTimerAgain == "waiting"

AfterTimer == "done"

(* refetch(true), with the filter of the handler's render.                 *)
Fire(h) ==
    /\ pc[h] = "waiting"
    /\ pc' = [pc EXCEPT ![h] = AfterTimer]
    /\ change' = [change EXCEPT ![h] = NoChange]
    /\ StartFetch(change[h].filter)
    /\ UNCHANGED <<was, data, filter, moves, saved, strayed>>

(* Mutant: a failed edit is left in the list.                              *)
UndoneByFetchingDeletions(h) == change[h].kind = "delete"

(* A failed creation has changed nothing in the list.                      *)
UndoneByFetching(h) == change[h].kind # "create"

(* An error, also when only the answer was lost: refetch(true) at once.    *)
Catch(h) ==
    /\ pc[h] \in {"refused", "applied"}
    /\ pc' = [pc EXCEPT ![h] = "done"]
    /\ IF UndoneByFetching(h)
       THEN StartFetch(change[h].filter) /\ saved' = Settled(h)
       ELSE UNCHANGED <<loading, error, fetchVars, saved>>
    /\ change' = [change EXCEPT ![h] = NoChange]
    /\ UNCHANGED <<was, data, filter, moves, strayed>>

(* Other users, and a request of which the list has heard an error while   *)
(* the server was still at it.                                             *)
Write(t) ==
    /\ moves < MaxMoves
    /\ t # Table
    /\ \E o \in Ids : Restrict(t, DOMAIN t \ {o}) = Restrict(Table, DOMAIN Table \ {o})
    /\ was' = Append(was, t)
    /\ moves' = moves + 1
    /\ UNCHANGED <<listVars, fetchVars, handlerVars, saved, strayed>>

-----------------------------------------------------------------------------

Settle(n) == \E x \in fetches : x.n = n /\ (Answer(x) \/ Deliver(x) \/ FailFetch(x))

Proceed(h) == Load(h) \/ Save(h) \/ Refuse(h) \/ Return(h) \/ Fire(h) \/ Catch(h)

Next ==
    \/ \E n \in Ns : Settle(n)
    \/ \E f \in Cities \cup {All} : ChooseFilter(f)
    \/ \E h \in Handlers :
           \/ Proceed(h)
           \/ \E o \in Ids : Delete(h, o) \/ \E c \in Cities : Edit(h, o, c)
           \/ Create(h)
    \/ \E t \in Tables : Write(t)

Spec == Init /\ [][Next]_vars

(* Requests are answered or fail, and timers fire.                         *)
FairSpec ==
    /\ Spec
    /\ \A n \in Ns : WF_vars(Settle(n))
    /\ \A h \in Handlers : WF_vars(Proceed(h))

-----------------------------------------------------------------------------

Fetch == [n : Ns, filter : Cities \cup {All}, answered : BOOLEAN,
          rows : Tables]

Change == [kind : {"none", "delete", "edit", "create"}, id : Ids \cup {0},
           filter : Cities \cup {All}, at : Nat]

TypeOK ==
    /\ was \in Seq(Tables)
    /\ data \in Tables
    /\ loading \in BOOLEAN /\ error \in BOOLEAN
    /\ filter \in Cities \cup {All}
    /\ fetches \subseteq Fetch
    /\ pc \in [Handlers -> {"idle", "sent", "loaded", "refused", "applied", "waiting", "done"}]
    /\ change \in [Handlers -> Change]
    /\ moves \in Nat /\ saved \in Nat /\ since \in Nat
    /\ asked \subseteq Cities \cup {All}
    /\ overlapped \in BOOLEAN /\ strayed \in BOOLEAN

(* The list never loads for ever: while it says so, a fetch is under way.  *)
(* The converse needs a run of fetches that do not overlap, since the      *)
(* first answer of two ends the loading of both.                           *)
LoadingMeansFetching ==
    /\ loading => fetches # {}
    /\ ~overlapped => (fetches # {} => loading)

Quiet == fetches = {} /\ \A h \in Handlers : ~Working(h)

(* What a fetch of the last run may have brought, shown with the filter    *)
(* that the list now has.                                                  *)
Brought == {Filtered(Filtered(was[v], f), filter) : v \in since .. Len(was), f \in asked}

(* When all is quiet, no optimistic change is left, neither of a deletion  *)
(* nor of the edits that are always refused: the list shows an error and   *)
(* nothing else, or rows of one state of the table.  However the answers   *)
(* overtook one another, that state is no older than the run of fetches in *)
(* which they did; and if the fetches of the run did not overlap, it has   *)
(* all deletions the user was answered.  Rows can be missing, those that   *)
(* another filter had left out: only if fetches overlapped, or if the      *)
(* filter has changed while a handler was under way, whose fetch then asks *)
(* with the old one.                                                       *)
QuietListIsRight ==
    Quiet =>
        /\ Shown \in Brought \/ (error /\ data = NoRows)
        /\ ~overlapped => saved <= since
        /\ ~overlapped /\ ~strayed => asked = {filter}

(* How many more steps a handler may take, the fetch it ends with counted. *)
StepsOf(state) ==
    CASE state = "idle"    -> 7
      [] state = "sent"    -> 6
      [] state = "loaded"  -> 5
      [] state = "applied" -> 4
      [] state \in {"refused", "waiting"} -> 3
      [] state = "done"    -> 0

StepsAhead == {s \in Handlers \X (1..7) : s[2] <= StepsOf(pc[s[1]])}

(* Two steps of a fetch, one once it has been answered.                    *)
FetchSteps ==
    Cardinality(fetches) + Cardinality({x \in fetches : ~x.answered})

(* The steps the list has before it: those of the handlers and the         *)
(* fetches, and three of a change by somebody.                             *)
StepsLeft == Cardinality(StepsAhead) + FetchSteps + 3 * (MaxMoves - moves)

(* No retry feeds on itself: every step uses up one of a number that is    *)
(* settled when the page is opened, the fetches that handlers and filters  *)
(* start included, however the answers come.  So there is no endless       *)
(* traffic, and the rest of TrafficEnds is that nothing stops before.      *)
TrafficRunsOut == [][StepsLeft' \in 0 .. StepsLeft - 1]_vars

(* However many answers overlap and fail, the traffic ends with the user's *)
(* last action: no handler stays under way and no fetch starts another.    *)
TrafficEnds == <>[]Quiet

=============================================================================
