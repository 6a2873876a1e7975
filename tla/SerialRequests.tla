----------------------------- MODULE SerialRequests -----------------------------
(***************************************************************************)
(* OutageStore with a history of whether two requests were ever in progress *)
(* at the same time: some properties hold only of requests that follow each *)
(* other.                                                                   *)
(***************************************************************************)
EXTENDS OutageStore

VARIABLE overlapped

Overlapping == \E p, q \in Procs : p # q /\ req[p] # Idle /\ req[q] # Idle

SerialInit == Init /\ overlapped = FALSE

SerialNext == Next /\ overlapped' = (overlapped \/ Overlapping')

SerialSpec == SerialInit /\ [][SerialNext]_<<vars, overlapped>>

\* As long as requests followed each other, each audit entry starts from what the
\* previous one ended with.
SerialAuditChains == ~overlapped => AuditChains

\* As long as requests followed each other, a save (handlers.go, UpdateOutageJSON)
\* changes no field its request was not given.
SerialOnlyProvided == [][~overlapped => SavesKeepOtherFields]_vars
================================================================================
