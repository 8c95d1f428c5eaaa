----------------------------- MODULE LogJournal -----------------------------
(***************************************************************************)
(* What the log pipeline promises to those who call Enqueue and to those   *)
(* who read the table.  Entries are accepted one by one while fewer than   *)
(* Capacity of them are unsettled.  They are settled in the order they     *)
(* were accepted, a group at a time, and a group is kept entirely or       *)
(* forfeited entirely.  Kept entries may later expire.  A crash can        *)
(* therefore cost at most Capacity accepted entries.                       *)
(***************************************************************************)
EXTENDS Integers, Sequences

CONSTANTS Entries, Capacity

VARIABLES
    accepted,  \* entries accepted so far, in order
    settled,   \* how many of them are kept or forfeited
    kept       \* the entries a reader can see

vars == <<accepted, settled, kept>>

Init ==
    /\ accepted = <<>>
    /\ settled = 0
    /\ kept = {}

Accept(e) ==
    /\ Len(accepted) - settled < Capacity
    /\ \A i \in 1..Len(accepted) : accepted[i] # e
    /\ accepted' = Append(accepted, e)
    /\ UNCHANGED <<settled, kept>>

\* The next n entries.
Group(n) == {accepted[i] : i \in (settled + 1)..(settled + n)}

Settle(n) ==
    /\ settled' = settled + n
    /\ \/ kept' = kept \cup Group(n)
       \/ kept' = kept
    /\ UNCHANGED accepted

Expire ==
    /\ \E gone \in SUBSET kept : kept' = kept \ gone
    /\ UNCHANGED <<accepted, settled>>

Next ==
    \/ \E e \in Entries : Accept(e)
    \/ \E n \in 1..(Len(accepted) - settled) : Settle(n)
    \/ Expire

Spec == Init /\ [][Next]_vars
=============================================================================
