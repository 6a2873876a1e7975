----------------------------- MODULE MCOutageStore -----------------------------
\* A small instance of OutageStore, with the history of overlaps.
EXTENDS SerialRequests, TLC

Open == [f \in Fields |->
           CASE f = "severity" -> "Degraded" [] f = "description" -> "text" [] OTHER -> ""]

MCNewOutages == {Open, [Open EXCEPT !["description"] = ""], [Open EXCEPT !["severity"] = ""]}

\* Escalate, reopen, confirm, and two bodies the handler refuses.
MCPatches == {("severity" :> "Down"),
              ("end_time" :> "") @@ ("confirmed_at" :> "set"),
              ("severity" :> "text"),
              ("description" :> "")}

Symmetry == Permutations(Ids) \cup Permutations(Procs) \cup Permutations(Users)
================================================================================
