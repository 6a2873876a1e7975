----------------------------- MODULE AuditedTable ------------------------------
(***************************************************************************)
(* What the outage table promises its readers, with no request in sight:   *)
(* rows are created, rewritten and buried by single indivisible steps, each *)
(* logged in the step that makes it; a buried row is never rewritten.  The *)
(* promise says nothing of which row a rewrite started from: the old side  *)
(* of an entry is any row, and burying twice is allowed.                   *)
(***************************************************************************)
EXTENDS Naturals, Sequences

CONSTANTS Ids, Rows, Users, NoRow

VARIABLES outages, deleted, audit

table == <<outages, deleted, audit>>

\* The log of outage i grows by one entry, which names operation, user and
\* outcome; its old side is some row, not necessarily the one replaced.
Logged(i, op, u, new) ==
    /\ Len(audit'[i]) = Len(audit[i]) + 1
    /\ LET e == audit'[i][Len(audit[i]) + 1]
       IN /\ e.op = op /\ e.user = u /\ e.new = new
          /\ e.old \in Rows \cup {NoRow}
          /\ audit' = [audit EXCEPT ![i] = Append(@, e)]

TableInit ==
    /\ outages = [i \in Ids |-> NoRow]
    /\ deleted = {}
    /\ audit = [i \in Ids |-> <<>>]

Appear(i, u) ==
    /\ outages[i] = NoRow
    /\ outages'[i] \in Rows
    /\ outages' = [outages EXCEPT ![i] = outages'[i]]
    /\ Logged(i, "CREATE", u, outages'[i])
    /\ UNCHANGED deleted

Rewrite(i, u) ==
    /\ outages[i] # NoRow
    /\ i \notin deleted
    /\ outages'[i] \in Rows
    /\ outages' = [outages EXCEPT ![i] = outages'[i]]
    /\ Logged(i, "UPDATE", u, outages'[i])
    /\ UNCHANGED deleted

Bury(i, u) ==
    /\ outages[i] # NoRow
    /\ deleted' = deleted \cup {i}
    /\ Logged(i, "DELETE", u, NoRow)
    /\ UNCHANGED outages

TableNext == \E i \in Ids, u \in Users : Appear(i, u) \/ Rewrite(i, u) \/ Bury(i, u)

TableSpec == TableInit /\ [][TableNext]_table
================================================================================
