------------------------------ MODULE MCDashboard ------------------------------
(* Small instances of Dashboard. *)
EXTENDS Dashboard, TLC

CONSTANTS m1, m2, s1, s2

Auto(m)   == [monitor |-> m, autoResolve |-> TRUE, requiresConfirmation |-> FALSE]
Manual(m) == [monitor |-> m, autoResolve |-> FALSE, requiresConfirmation |-> TRUE]
Unmonitored == [monitor |-> NoMonitor, autoResolve |-> FALSE, requiresConfirmation |-> FALSE]

\* One sub-component that changes hands: the second monitor may not resolve.
HandoverConfigs == {[s \in Subs |-> Auto(m1)], [s \in Subs |-> Manual(m2)]}

\* One whose outages are resolved automatically or not.
AutoManualConfigs == {[s \in Subs |-> Auto(m1)], [s \in Subs |-> Manual(m1)]}

\* One that is monitored or not.
OnOffConfigs == {[s \in Subs |-> Auto(m1)], [s \in Subs |-> Unmonitored]}

\* Two, of which one may disappear.
TwoConfigs == {[s \in Subs |-> Auto(m1)], [s \in Subs |-> IF s = s1 THEN Auto(m1) ELSE NotConfigured]}

Up(s)   == [sub |-> s, status |-> "Healthy", reasons |-> FALSE]
Down(s) == [sub |-> s, status |-> "Down", reasons |-> TRUE]

OneSubReports == {<<Up(s1)>>, <<Down(s1)>>}

\* Also those Process skips.
OddReports == OneSubReports \cup {<<[Down(s1) EXCEPT !.reasons = FALSE]>>,
                                  <<[Down(s1) EXCEPT !.status = "Invalid"]>>}

TwoSubReports == {<<Up(s1), Up(s2)>>, <<Down(s1), Up(s2)>>}

SlotSymmetry == Permutations(Slots) \cup Permutations(Handlers) \cup Permutations(Editors)
================================================================================
