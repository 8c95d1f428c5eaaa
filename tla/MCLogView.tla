----------------------------- MODULE MCLogView ------------------------------
(* The two readers of the log table for TLC: the dashboard, and a client that *)
(* pages.  One of them is there at a time; the other stays as it starts.     *)
EXTENDS LogPaging, Dashboard

VARIABLE reader

browserVars == <<queued, events, pageVars>>

MCEntry(l, s, m, t) == [level |-> l, service |-> s, message |-> m, ts |-> t]

\* Sent without a level, and with a level in lower case between spaces; one is
\* found by "d" in its message, the other has it in the name of its service.
MCEntries ==
    {MCEntry(Lower(""), Lower(""), "disk", 0),
     MCEntry([Lower("ERROR") EXCEPT !.padded = TRUE], Lower("db"), "boot", 1)}

MCContaining == [s \in {"d"} |-> {"disk", "db", "default"}]
MCWords      == {"", "INFO", "ERROR", "default", "db", "disk", "boot"}
MCLevels     == {"", "ERROR"}
MCSearches   == {"", "d"}

\* What the client may ask for.
MCFilters == {NoFilter, FilterOf("ERROR", "")}
MCLimits  == {1, MaxLimit + 1}

MCInit == reader \in {"browser", "client"} /\ DashInit /\ PagingInit

MCNext ==
    \/ reader = "browser" /\ DashNext /\ UNCHANGED <<reader, pagerVars>>
    \/ reader = "client" /\ PagingNext /\ UNCHANGED <<reader, browserVars>>

MCSpec ==
    /\ MCInit /\ [][MCNext]_<<reader, tableVars, browserVars, pagerVars>>
    /\ reader = "browser" => DashFairness

\* Stated and explained in Dashboard.
BrowserSettles == reader = "browser" => ViewSettles
=============================================================================
