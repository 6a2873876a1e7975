--------------------------- MODULE MCSlackReporting ----------------------------
(***************************************************************************)
(* Model values for SlackReporting: two channels and lists of them.         *)
(***************************************************************************)
EXTENDS SlackReporting

CONSTANTS everything, oncall  \* a channel for all outages and one for the worst

Entry(channel, severity) == [channel |-> channel, severity |-> severity]

\* Different thresholds, one channel with and without a threshold, the same channel
\* twice, no channel at all, and no such component.
SomeConfigs == {<<Entry(everything, "Degraded"), Entry(oncall, "Down")>>,
                <<Entry(oncall, "")>>,
                <<Entry(everything, "Degraded"), Entry(oncall, "Degraded"), Entry(everything, "Down")>>,
                <<>>,
                NoComponent}
================================================================================
