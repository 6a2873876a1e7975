------------------------------ MODULE MCPingUpsert ------------------------------
(* Small instances of PingUpsert. *)
EXTENDS PingUpsert

CONSTANTS r1, r2, s1, s2

\* Both report of both sub-components, in the order of their names.
SameReports == [r \in Reporters |-> <<s1, s2>>]
================================================================================
