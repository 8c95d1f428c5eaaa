------------------------------ MODULE LogQuery ------------------------------
(***************************************************************************)
(* The table system_logs as its readers see it (internal/storage/sqlite.go: *)
(* WriteBatch, QueryLogs, PruneOldLogs): what is stored of an entry, which  *)
(* rows a filter selects, and which of them a page holds.                   *)
(*                                                                         *)
(* A level or a service is a word together with how it is spelled.  Of a   *)
(* message, and of a service searched for, only the search terms it        *)
(* contains are told apart.  A row is known by its id, which counts the     *)
(* rows written; sent[id] is the entry it was written from.                *)
(***************************************************************************)
EXTENDS Integers, Sequences, FiniteSets

CONSTANTS
    Words,         \* what a level, a service or a message may say
    Entries,       \* entries that may be logged
    Containing,    \* Containing[s]: messages and services that contain s
    Retention,     \* age past which a row is pruned
    DefaultLimit,  \* rows of a page whose limit is missing or out of range
    MaxLimit,      \* largest limit obeyed
    MaxLogs,       \* bound: rows written
    MaxTime        \* bound: the clock stops here

\* How a level or a service may be spelled.
Texts == [word : Words, upper : BOOLEAN, padded : BOOLEAN]

ASSUME QueryAssumption ==
    /\ {"INFO", "default"} \subseteq Words
    /\ Entries \subseteq [level : Texts, service : Texts, message : Words, ts : 0..MaxTime]
    /\ Retention \in Nat /\ MaxLogs \in Nat /\ MaxTime \in Nat \ {0}
    /\ DefaultLimit \in Nat \ {0} /\ MaxLimit \in Nat

VARIABLES
    rows,  \* the table system_logs
    sent,  \* history: the entries written, in order of their ids
    now    \* wall clock

tableVars == <<rows, sent, now>>

Upper(w)    == [word |-> w, upper |-> TRUE, padded |-> FALSE]
Lower(w)    == [word |-> w, upper |-> FALSE, padded |-> FALSE]
ToUpper(s)   == [s EXCEPT !.upper = TRUE]
TrimSpace(s) == [s EXCEPT !.padded = FALSE]
Empty(s)     == s.word = "" /\ ~s.padded

\* LogFilter with every field left at its zero value.
NoFilter == [level |-> Upper(""), service |-> Lower(""), search |-> "", from |-> 0, to |-> MaxTime]

-----------------------------------------------------------------------------
(* WriteBatch *)

\* Variant of StoredLevel: the level is stored as it was sent.
StoredLevelAsSent(e) == IF Empty(e.level) THEN Upper("INFO") ELSE e.level

StoredLevel(e) ==
    LET l == ToUpper(TrimSpace(e.level)) IN IF Empty(l) THEN Upper("INFO") ELSE l

StoredService(e) ==
    LET s == TrimSpace(e.service) IN IF Empty(s) THEN Lower("default") ELSE s

\* Variant of RowOf: a timestamp that is missing stays so.
RowOfKeepingZero(e, id) ==
    [id |-> id, ts |-> e.ts,
     level |-> StoredLevel(e), service |-> StoredService(e), message |-> e.message]

\* ts is UnixMilli(); the epoch itself counts as "no timestamp".
RowOf(e, id) ==
    [id |-> id, ts |-> IF e.ts = 0 THEN now ELSE e.ts,
     level |-> StoredLevel(e), service |-> StoredService(e), message |-> e.message]

\* One entry of a batch.  The entries of a batch are in one transaction: no
\* query comes between them, which is one of the orders allowed here.
Write(e) ==
    /\ Len(sent) < MaxLogs
    /\ rows' = rows \cup {RowOf(e, Len(sent) + 1)}
    /\ sent' = Append(sent, e)
    /\ UNCHANGED now

PruneOldLogs ==
    /\ rows' = {r \in rows : r.ts >= now - Retention}
    /\ UNCHANGED <<sent, now>>

Tick ==
    /\ now < MaxTime
    /\ now' = now + 1
    /\ UNCHANGED <<rows, sent>>

-----------------------------------------------------------------------------
(* QueryLogs *)

Selects(f, r) ==
    /\ r.ts \in f.from..f.to
    /\ Empty(f.level) \/ r.level = ToUpper(f.level)
    /\ Empty(f.service) \/ r.service = f.service
    /\ f.search = "" \/ r.message \in Containing[f.search]

\* Variant of Before: ORDER BY timestamp.
BeforeOldestFirst(r, q) == r.ts < q.ts \/ (r.ts = q.ts /\ r.id < q.id)

\* ORDER BY timestamp DESC.  The query leaves the order of equal timestamps to
\* SQLite, which reads rows off an index on timestamp, equal ones by rowid.
Before(r, q) == r.ts > q.ts \/ (r.ts = q.ts /\ r.id < q.id)

\* The rows of S in that order.
Sorted(S) == CHOOSE s \in [1..Cardinality(S) -> S] : \A i, j \in DOMAIN s : i < j => Before(s[i], s[j])

LimitOf(limit) == IF limit <= 0 \/ limit > MaxLimit THEN DefaultLimit ELSE limit

\* Variant of QueryLogs: the offset counts the last row of the page before.
QueryLogsFromOffset(f, limit, offset) ==
    LET found == Sorted({r \in rows : Selects(f, r)})
        first == IF offset > 0 THEN offset ELSE 1
        last  == first + LimitOf(limit) - 1
    IN  SubSeq(found, first, IF last < Len(found) THEN last ELSE Len(found))

\* LIMIT and OFFSET; an offset that is not positive is left out of the query.
QueryLogs(f, limit, offset) ==
    LET found == Sorted({r \in rows : Selects(f, r)})
        first == IF offset > 0 THEN offset + 1 ELSE 1
        last  == first + LimitOf(limit) - 1
    IN  SubSeq(found, first, IF last < Len(found) THEN last ELSE Len(found))

-----------------------------------------------------------------------------

TableInit == rows = {} /\ sent = <<>> /\ now = 1

TableTypeOK ==
    /\ Len(sent) <= MaxLogs
    /\ now \in 1..MaxTime
    /\ \A r \in rows : r.id \in 1..Len(sent) /\ r.ts \in 1..MaxTime
    /\ \A r, q \in rows : r.id = q.id => r = q

(* A row is found by the level it was sent with, in upper or lower case,   *)
(* and by the service it was sent with, however either was padded with     *)
(* spaces: what WriteBatch makes of the fields and what QueryLogs makes of  *)
(* the filter agree.                                                       *)
FoundAsSent ==
    \A r \in rows :
        LET e == sent[r.id] IN
        /\ e.level.word # "" => \A l \in {Upper(e.level.word), Lower(e.level.word)} :
                                    Selects([NoFilter EXCEPT !.level = l], r)
        /\ e.service.word # "" => Selects([NoFilter EXCEPT !.service = TrimSpace(e.service)], r)
=============================================================================
