----------------------------- MODULE LogPaging ------------------------------
(***************************************************************************)
(* A client that reads the log page by page through GET /api/v1/logs        *)
(* (HandleQueryLogs in internal/api/handler.go) while rows are written and  *)
(* pruned.  The client is not part of the repository: it repeats one query, *)
(* adds the "count" of each answer to its offset and stops at an empty page.*)
(***************************************************************************)
EXTENDS LogQuery

CONSTANTS
    Filters,  \* filters a client may use
    Limits    \* limits it may ask for

ASSUME PagingAssumption == Limits \subseteq Int

VARIABLES
    pager,  \* where the client is
    query,  \* its filter and limit
    seen,   \* ids of the rows it was given
    offset, \* its next offset
    there,  \* history: ids of the rows its filter selected when it began
    began   \* history: rows written when it began

pagerVars == <<pager, query, seen, offset, there, began>>
pagingVars == <<tableVars, pagerVars>>

IdsOf(S) == {r.id : r \in S}

PagerStarts(f, limit) ==
    /\ pager = "new"
    /\ pager' = "reading"
    /\ query' = [filter |-> f, limit |-> limit]
    /\ there' = IdsOf({r \in rows : Selects(f, r)})
    /\ began' = Len(sent)
    /\ UNCHANGED <<tableVars, seen, offset>>

\* HandleQueryLogs.
PagerReads ==
    /\ pager = "reading"
    /\ LET page == QueryLogs(query.filter, query.limit, offset) IN
       /\ seen' = seen \cup IdsOf({page[i] : i \in DOMAIN page})
       /\ offset' = offset + Len(page)
       /\ pager' = IF page = <<>> THEN "done" ELSE "reading"
    /\ UNCHANGED <<tableVars, query, there, began>>

PagingInit ==
    /\ TableInit
    /\ pager = "new" /\ seen = {} /\ offset = 0 /\ there = {} /\ began = 0
    /\ query = [filter |-> NoFilter, limit |-> 0]

PagingNext ==
    \/ \E e \in Entries : Write(e) /\ UNCHANGED pagerVars
    \/ PruneOldLogs /\ UNCHANGED pagerVars
    \/ Tick /\ UNCHANGED pagerVars
    \/ \E f \in Filters, limit \in Limits : PagerStarts(f, limit)
    \/ PagerReads

PagingSpec == PagingInit /\ [][PagingNext]_pagingVars

(* A client that pages to the end is given every row that was there when it *)
(* began and still is: rows written between two pages push rows it has not  *)
(* seen further down, never up past its offset, and rows are only pruned    *)
(* from the far end of the order.  Nothing is promised about rows that come *)
(* later.                                                                  *)
PagingMissesNothing == pager = "done" => there \cap IdsOf(rows) \subseteq seen

(* Until a row is written, no page brings a row that an earlier one brought *)
(* (the client was given as many rows as its offset says, all different),   *)
(* even when rows are pruned between two pages.                             *)
PagedOnce == Len(sent) = began => Cardinality(seen) = offset
=============================================================================
