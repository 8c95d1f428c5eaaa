----------------------------- MODULE Dashboard ------------------------------
(***************************************************************************)
(* The log explorer of the dashboard (internal/ui/public/app.js): a table   *)
(* of rows in the browser, replaced by each answer of GET /api/v1/logs and  *)
(* extended by each log event of the stream, while entries are ingested,    *)
(* written and pruned and the user changes the filter.                     *)
(*                                                                         *)
(* Requests overlap: fetchLogs is called by a timer every four seconds, by  *)
(* the level selector, the Refresh button, the form, and 300 ms after the   *)
(* last key in the search field, and nothing orders their answers.  A row   *)
(* of the view is known by the id its entry has or will have in the table.  *)
(* Log events reach the browser in any order (handlers broadcast           *)
(* concurrently), or not at all (full queues, a reconnecting stream).       *)
(***************************************************************************)
EXTENDS LogQuery

CONSTANTS
    Levels,     \* values of the level selector; "" is all of them
    Searches,   \* values of the search field; "" is none
    Fetches,    \* bound: requests in flight at once
    MaxEntries, \* bound: entries accepted
    ViewLimit,  \* the limit fetchLogs asks for
    MaxView,    \* rows kept in the view
    MaxChanges, \* bound: changes of the filter and clicks on Refresh
    MaxFaults   \* bound: requests that fail

\* The view holds more rows than one answer brings (50 and 100 in app.js).
ASSUME DashAssumption ==
    /\ "" \in Levels /\ "" \in Searches
    /\ MaxEntries \in 0..MaxLogs /\ MaxChanges \in Nat /\ MaxFaults \in Nat
    /\ ViewLimit \in Int /\ MaxView \in Nat /\ LimitOf(ViewLimit) <= MaxView

VARIABLES
    queued,   \* accepted entries not yet written, in order
    events,   \* ids whose log event is on its way to the browser
    level,    \* the selector's value
    search,   \* the search field's value
    typed,    \* the debounce timer is running
    request,  \* request[s]: a fetch in flight
    view,     \* ids of the rows shown
    changes,  \* changes and clicks so far
    faults    \* failed requests so far

inputVars == <<level, search, typed, changes>>
pageVars  == <<inputVars, request, view, faults>>
dashVars  == <<tableVars, queued, events, pageVars>>

NoRequest == [at |-> "idle"]

IdsIn(found) == [i \in DOMAIN found |-> found[i].id]

Accepted == sent \o queued

-----------------------------------------------------------------------------
(* The server *)

\* HandleIngestLogs: an entry without a level or a service is given one, it is
\* enqueued, and as it then is it goes to every connected client.
Ingested(e) ==
    [e EXCEPT !.level = IF Empty(@) THEN Upper("INFO") ELSE @,
              !.service = IF Empty(@) THEN Lower("default") ELSE @]

Ingest(e) ==
    /\ Len(Accepted) < MaxEntries
    /\ queued' = Append(queued, Ingested(e))
    /\ events' = events \cup {Len(Accepted) + 1}
    /\ UNCHANGED <<tableVars, pageVars>>

\* The writer's worker, which keeps the order of the entries.
Flush ==
    /\ queued # <<>>
    /\ Write(Head(queued))
    /\ queued' = Tail(queued)
    /\ UNCHANGED <<events, pageVars>>

Answer(s) ==
    /\ request[s].at = "sent"
    /\ request' = [request EXCEPT ![s] =
           [at |-> "answered", logs |-> IdsIn(QueryLogs(request[s].filter, ViewLimit, 0))]]
    /\ UNCHANGED <<tableVars, queued, events, inputVars, view, faults>>

-----------------------------------------------------------------------------
(* The browser *)

FilterOf(l, w) == [NoFilter EXCEPT !.level = Upper(l), !.search = w]

\* fetchLogs up to its await, with the filter as it is at the call.
FetchWith(s, l, w) ==
    /\ request[s] = NoRequest
    /\ request' = [request EXCEPT ![s] = [at |-> "sent", filter |-> FilterOf(l, w)]]

\* Variant of Poll: there is no periodic refresh.
PollNever == FALSE /\ UNCHANGED dashVars

\* setInterval; also the form's timer, which calls the same function.
Poll ==
    /\ \E s \in Fetches : FetchWith(s, level, search)
    /\ UNCHANGED <<tableVars, queued, events, inputVars, view, faults>>

SelectLevel(l) ==
    /\ l # level /\ changes < MaxChanges
    /\ level' = l /\ changes' = changes + 1
    /\ \E s \in Fetches : FetchWith(s, l, search)
    /\ UNCHANGED <<tableVars, queued, events, search, typed, view, faults>>

\* Each input event restarts the timer.
Type(w) ==
    /\ w # search /\ changes < MaxChanges
    /\ search' = w /\ changes' = changes + 1
    /\ typed' = TRUE
    /\ UNCHANGED <<tableVars, queued, events, level, request, view, faults>>

Debounced ==
    /\ typed
    /\ typed' = FALSE
    /\ \E s \in Fetches : FetchWith(s, level, search)
    /\ UNCHANGED <<tableVars, queued, events, level, search, changes, view, faults>>

Refresh ==
    /\ changes < MaxChanges
    /\ changes' = changes + 1
    /\ \E s \in Fetches : FetchWith(s, level, search)
    /\ UNCHANGED <<tableVars, queued, events, level, search, typed, view, faults>>

\* Variant of Render: renderLogs puts the answer behind the rows there are.
RenderAppending(s) ==
    /\ request[s].at = "answered"
    /\ view' = view \o request[s].logs
    /\ request' = [request EXCEPT ![s] = NoRequest]
    /\ UNCHANGED <<tableVars, queued, events, inputVars, faults>>

\* The rest of fetchLogs: renderLogs replaces the rows, whatever filter the
\* request was made with.
Render(s) ==
    /\ request[s].at = "answered"
    /\ view' = request[s].logs
    /\ request' = [request EXCEPT ![s] = NoRequest]
    /\ UNCHANGED <<tableVars, queued, events, inputVars, faults>>

\* An answer that is not OK, or none: the view stays as it is.
FetchFails(s) ==
    /\ request[s] # NoRequest /\ faults < MaxFaults
    /\ faults' = faults + 1
    /\ request' = [request EXCEPT ![s] = NoRequest]
    /\ UNCHANGED <<tableVars, queued, events, inputVars, view>>

\* prependLiveLog's own filter: the level as sent, in upper case, and a search
\* that looks at the service too.
ShownLive(e) ==
    /\ level # "" => ToUpper(e.level) = Upper(level)
    /\ search # "" => {e.message, e.service.word} \cap Containing[search] # {}

PrependLiveLog(n) ==
    /\ n \in events
    /\ events' = events \ {n}
    /\ view' = IF ShownLive(Accepted[n])
               THEN LET rowsNow == <<n>> \o view IN
                    SubSeq(rowsNow, 1, IF Len(rowsNow) > MaxView THEN MaxView ELSE Len(rowsNow))
               ELSE view
    /\ UNCHANGED <<tableVars, queued, inputVars, request, faults>>

EventLost(n) ==
    /\ n \in events
    /\ events' = events \ {n}
    /\ UNCHANGED <<tableVars, queued, pageVars>>

-----------------------------------------------------------------------------

\* The page has loaded: setupSSE, then the first fetchLogs.
DashInit ==
    /\ TableInit
    /\ queued = <<>> /\ events = {}
    /\ level = "" /\ search = "" /\ typed = FALSE /\ changes = 0
    /\ \E first \in Fetches :
           request = [s \in Fetches |-> IF s = first THEN [at |-> "sent", filter |-> FilterOf("", "")]
                                      ELSE NoRequest]
    /\ view = <<>>
    /\ faults = 0

ServerStep ==
    \/ \E e \in Entries : Ingest(e)
    \/ Flush
    \/ PruneOldLogs /\ UNCHANGED <<queued, events, pageVars>>
    \/ Tick /\ UNCHANGED <<queued, events, pageVars>>
    \/ \E s \in Fetches : Answer(s)

BrowserStep ==
    \/ Poll
    \/ \E l \in Levels : SelectLevel(l)
    \/ \E w \in Searches : Type(w)
    \/ Debounced
    \/ Refresh
    \/ \E s \in Fetches : Render(s) \/ FetchFails(s)
    \/ \E n \in events : PrependLiveLog(n) \/ EventLost(n)

DashNext == ServerStep \/ BrowserStep

DashSpec == DashInit /\ [][DashNext]_dashVars

\* The writer's worker and the pruner run on timers, setInterval keeps firing,
\* every request is answered or fails (the server limits both directions to
\* 10 s), and the browser runs the continuation of each answer.  Nothing is
\* assumed of clients, of the user or of the stream.
DashFairness ==
    /\ WF_dashVars(Flush)
    /\ WF_dashVars(PruneOldLogs /\ UNCHANGED <<queued, events, pageVars>>)
    /\ WF_dashVars(Poll)
    /\ \A s \in Fetches : WF_dashVars(Answer(s)) /\ WF_dashVars(Render(s))

DashFairSpec == DashSpec /\ DashFairness

DashTypeOK ==
    /\ TableTypeOK
    /\ Len(Accepted) <= MaxLogs
    /\ \A i \in DOMAIN Accepted : Accepted[i] \in Entries \cup {Ingested(e) : e \in Entries}
    /\ events \subseteq 1..Len(Accepted)
    /\ level \in Levels /\ search \in Searches /\ typed \in BOOLEAN
    /\ \A s \in Fetches :
          \/ request[s] = NoRequest
          \/ request[s].at = "sent"
             /\ \E l \in Levels, w \in Searches : request[s].filter = FilterOf(l, w)
          \/ request[s].at = "answered"
             /\ Len(request[s].logs) <= LimitOf(ViewLimit)
             /\ \A i \in DOMAIN request[s].logs : request[s].logs[i] \in 1..Len(sent)
    /\ Len(view) <= MaxView
    /\ \A i \in DOMAIN view : view[i] \in 1..Len(Accepted)
    /\ changes \in 0..MaxChanges /\ faults \in 0..MaxFaults

-----------------------------------------------------------------------------

\* The rows the explorer should show: the first page of what was ever accepted
\* and has not expired, under the filter the user sees.
Wanted == IdsIn(QueryLogs(FilterOf(level, search), ViewLimit, 0))

(* A row is shown twice at most, and only if its own event arrived: once as *)
(* the latest answer brought it and once as a live row in front of that     *)
(* answer, until the next answer replaces both.                             *)
LiveOnce ==
    \A n \in 1..Len(Accepted) :
        Cardinality({i \in DOMAIN view : view[i] = n}) <= IF n \in events THEN 1 ELSE 2

(* Once nobody logs, types or clicks any more, everything accepted has been *)
(* written and the explorer shows exactly the first page of it under the   *)
(* filter in its inputs, and goes on doing so: answers that overtook each   *)
(* other, answers to an older filter, events that were lost, that came      *)
(* before their row was written or after it was fetched are all repaired.   *)
ViewSettles == <>[](queued = <<>> /\ view = Wanted)
=============================================================================
