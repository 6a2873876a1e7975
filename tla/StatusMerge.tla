------------------------------- MODULE StatusMerge -------------------------------
(***************************************************************************)
(* How the component monitor turns the probe results of one sub-component  *)
(* into the status it reports: the most critical one, no status at all when *)
(* an error leaves room for doubt.  A result has a status and reasons, or    *)
(* an error.                                                                *)
(***************************************************************************)
EXTENDS OutageTypes, Sequences, SequencesExt

Omitted == [status |-> "omitted", reasons |-> <<>>]

Level(status) == GetSeverityLevel(ToSeverity(status))

Unhealthy(r) == r.status # "Healthy"

MoreCritical_LastFailure(worst, r) == IF Unhealthy(r) THEN r.status ELSE worst

MoreCritical(worst, r) == IF Level(r.status) > Level(worst) THEN r.status ELSE worst

AddReasons(reasons, r) == IF Unhealthy(r) THEN reasons \o r.reasons ELSE reasons

\* The members of a sequence that are in S, appended one after the other.
Select(S, seq) ==
    FoldLeft(LAMBDA kept, r : IF r \in S THEN Append(kept, r) ELSE kept, <<>>, seq)

NonErrored(group) == Select({r \in Range(group) : ~r.error}, group)

MergeStatusesForSubComponent_ErrorsIgnored(group) ==
    LET answers == NonErrored(group)
        worst   == FoldLeft(MoreCritical, "Healthy", answers)
    IN  IF answers = <<>>
          THEN Omitted
          ELSE [status |-> worst, reasons |-> IF worst = "Healthy" THEN <<>>
                                              ELSE FoldLeft(AddReasons, <<>>, answers)]

MergeStatusesForSubComponent(group) ==
    LET answers    == NonErrored(group)
        hasError   == \E i \in DOMAIN group : group[i].error
        allHealthy == \A i \in DOMAIN answers : ~Unhealthy(answers[i])
        worst      == FoldLeft(MoreCritical, "Healthy", answers)
    IN  IF (hasError /\ allHealthy) \/ answers = <<>>
          THEN Omitted
          ELSE [status |-> worst, reasons |-> IF worst = "Healthy" THEN <<>>
                                              ELSE FoldLeft(AddReasons, <<>>, answers)]
================================================================================
