------------------------------ MODULE JUnitProber ------------------------------
(***************************************************************************)
(* The JUnit prober of the component monitor judges a sub-component by the  *)
(* last runs of a Prow job.  It learns of them from objects in a bucket,    *)
(* one GET after the other, while the job goes on: builds start, upload     *)
(* their results and finish between any two of them.                        *)
(***************************************************************************)
EXTENDS Integers, Sequences, FiniteSets, FiniteSetsExt

CONSTANTS
    MaxBuilds,            \* bound: how many builds the job ever has
    HistoryRuns,          \* how many runs are judged
    FailedRunsThreshold,  \* how many must fail alike
    FailureSets,          \* the names of the test cases that fail in a run
    SortedNames,          \* all these names in the order of sort.Strings
    Faults                \* whether a GET may fail

\* A name is the sequence of its parts between commas; a test case may have none.
Nameless == <<>>

ASSUME JUnitAssumption ==
    /\ MaxBuilds \in Nat /\ HistoryRuns \in Nat \ {0}
    /\ FailedRunsThreshold \in 1..HistoryRuns
    /\ Faults \in BOOLEAN

ASSUME NamesAssumption ==
    /\ SortedNames \in Seq(Seq(STRING) \ {Nameless})
    /\ \A i, j \in DOMAIN SortedNames : SortedNames[i] = SortedNames[j] => i = j
    /\ \A F \in FailureSets : \A n \in F \ {Nameless} : \E i \in DOMAIN SortedNames : SortedNames[i] = n

VARIABLES
    build,      \* the bucket: build -> whether it is there and finished, and its results
    latestFile, \* latest-build.txt, 0 before the first build
    old,        \* builds up to this one started longer ago than maxAge
    probe,      \* the probe in progress, or the outcome of the last one
    moved,      \* history: a build has finished since the probe began
    excuse,     \* history: since it began there was a fault, builds overlapped or none could be found
    always,     \* history: ever since it began the last runs failed alike
    newest      \* history: the newest finished build when it began

vars == <<build, latestFile, old, probe, moved, excuse, always, newest>>

Builds   == 1..MaxBuilds

\* junit_canary.xml: the sum of the tests attributes, and the failing test cases.
Outcomes ==
    {[state |-> "finished", tests |-> 0, failing |-> {}]} \cup
    {[state |-> "finished", tests |-> 1, failing |-> F] : F \in FailureSets}

NotFinished(state) == [state |-> state, tests |-> 0, failing |-> {}]

Listed   == {b \in Builds : build[b].state # "none"}
Finished == {b \in Builds : build[b].state = "finished"}

\* The numerically largest ids.
Newest(n, S) == {b \in S : Cardinality({c \in S : c > b}) < n}

(***************************************************************************)
(* How a run is judged by its results.                                      *)
(***************************************************************************)
\* The names that aggregateJunitFromSuites collects.
FailedNames(b) == build[b].failing \ {Nameless}

JunitUnhealthy(b) == build[b].tests = 0 \/ FailedNames(b) # {}

Position(n) == CHOOSE i \in DOMAIN SortedNames : SortedNames[i] = n

\* Sorted and joined with commas, of which those in the names are not escaped: the parts
\* between the commas of the whole, each with the number of parts before it.
Joined(names) ==
    LET Parts       == UNION {{<<n, i>> : i \in DOMAIN n} : n \in names}
        Before(p, q) == \/ Position(p[1]) < Position(q[1])
                        \/ p[1] = q[1] /\ p[2] < q[2]
    IN  {<<Cardinality({q \in Parts : Before(q, p)}), p[1][p[2]]>> : p \in Parts}

JunitFailureSignature(b) ==
    IF build[b].tests = 0 THEN <<"zero tests">> ELSE <<"failed", Joined(FailedNames(b))>>

\* The size of the largest group of unhealthy runs with the same signature.
HighestCount(S) ==
    LET unhealthy == {b \in S : JunitUnhealthy(b)}
        Alike(b)  == {c \in unhealthy : JunitFailureSignature(c) = JunitFailureSignature(b)}
    IN  Max({0} \cup {Cardinality(Alike(b)) : b \in unhealthy})

(***************************************************************************)
(* What the README promises: a run without tests or with any failed test    *)
(* case counts, together with those of the last runs with the same pattern. *)
(***************************************************************************)
Red(b) == build[b].tests = 0 \/ build[b].failing # {}

SamePattern(b, c) ==
    IF build[b].tests = 0 THEN build[c].tests = 0
    ELSE build[c].tests # 0 /\ build[c].failing = build[b].failing

FailAlike(S) ==
    \E b \in S : Red(b) /\ Cardinality({c \in S : SamePattern(b, c)}) >= FailedRunsThreshold

Failing == FailAlike(Newest(HistoryRuns, Finished))

\* A build is unfinished although a newer one has started.
Overlapping == \E b \in Listed \ Finished, c \in Listed : b < c

\* Where a probe is: the object it reads next and what it has read.
Done == [pc |-> "done", verdict |-> "none", judged |-> {}]

Probing ==
    [pc : {"latest", "started", "finished", "previous", "startedPrevious", "list", "check",
           "fetch"},
     latest : Builds \cup {0},
     unfinished : Builds \cup {0},
     todo : SUBSET Builds,
     top : Builds \cup {0},
     ids : SUBSET Builds]

Verdicts == {"Healthy", "failing", "stale", "error"}

TypeOK ==
    /\ build \in [Builds -> Outcomes \cup {NotFinished("none"), NotFinished("running")}]
    /\ latestFile \in Builds \cup {0}
    /\ old \in Builds \cup {0}
    /\ probe \in Probing \cup [pc : {"done"}, verdict : Verdicts \cup {"none"}, judged : SUBSET Builds]
    /\ moved \in BOOLEAN /\ excuse \in BOOLEAN /\ always \in BOOLEAN
    /\ newest \in Builds \cup {0}

Init ==
    /\ build = [b \in Builds |-> NotFinished("none")]
    /\ latestFile = 0
    /\ old = 0
    /\ probe = Done
    /\ moved = FALSE /\ excuse = FALSE /\ always = FALSE
    /\ newest = 0

bucket  == <<build, latestFile, old>>
history == <<moved, excuse, always, newest>>

--------------------------------------------------------------------------------
(***************************************************************************)
(* The job: a prefix with started.json, latest-build.txt, the results and   *)
(* finished.json at the end.                                                *)
(***************************************************************************)
Observe ==
    /\ excuse' = (excuse \/ Overlapping')
    /\ always' = (always /\ Failing')
    /\ UNCHANGED <<probe, newest>>

StartBuild ==
    /\ \E b \in Builds \ Listed :
         /\ \A c \in Builds : c < b => c \in Listed
         /\ build' = [build EXCEPT ![b] = NotFinished("running")]
    /\ UNCHANGED <<latestFile, old, moved>>
    /\ Observe

UpdateLatest ==
    /\ Listed # {}
    /\ latestFile < Max(Listed)
    /\ latestFile' = Max(Listed)
    /\ UNCHANGED <<build, old, probe, history>>

FinishBuild ==
    /\ \E b \in Listed \ Finished, outcome \in Outcomes : build' = [build EXCEPT ![b] = outcome]
    /\ moved' = TRUE
    /\ UNCHANGED <<latestFile, old>>
    /\ Observe

Age ==
    /\ old + 1 \in Listed
    /\ old' = old + 1
    /\ UNCHANGED <<build, latestFile, probe, history>>

--------------------------------------------------------------------------------
(***************************************************************************)
(* The probe.                                                               *)
(***************************************************************************)
Answer(verdict, judged) ==
    probe' = [pc |-> "done", verdict |-> verdict, judged |-> judged]

Goto(pc) == probe' = [probe EXCEPT !.pc = pc]

At(pc) == probe.pc = pc /\ UNCHANGED <<bucket, history>>

BeginProbe ==
    /\ probe.pc = "done"
    /\ probe' = [pc |-> "latest", latest |-> 0, unfinished |-> 0, todo |-> {}, top |-> 0, ids |-> {}]
    /\ moved' = FALSE
    /\ excuse' = (Overlapping \/ Finished = {} \/ latestFile = 0)
    /\ always' = Failing
    /\ newest' = IF Finished = {} THEN 0 ELSE Max(Finished)
    /\ UNCHANGED bucket

FetchLatest ==
    /\ At("latest")
    /\ IF latestFile = 0 THEN Answer("error", {})
       ELSE probe' = [probe EXCEPT !.latest = latestFile, !.pc = "started"]

\* An old build is reported whatever its results.
CheckBuildStaleness ==
    /\ At("started")
    /\ IF probe.latest <= old THEN Answer("stale", {}) ELSE Goto("finished")

IsLatestFinished ==
    /\ At("finished")
    /\ IF probe.latest \in Finished THEN Goto("list")
       ELSE probe' = [probe EXCEPT !.unfinished = probe.latest, !.pc = "previous"]

FindPreviousBuildID ==
    /\ At("previous")
    /\ LET before == {b \in Listed : b < probe.latest}
       IN  IF before = {} THEN Answer("error", {})
           ELSE probe' = [probe EXCEPT !.latest = Max(before), !.pc = "startedPrevious"]

CheckPreviousStaleness ==
    /\ At("startedPrevious")
    /\ IF probe.latest <= old THEN Answer("stale", {}) ELSE Goto("list")

ListBuildIDs ==
    /\ At("list")
    /\ LET ids == Listed \cup {probe.latest}
       IN  probe' = IF HistoryRuns = 1
                      THEN [probe EXCEPT !.ids = {probe.latest}, !.pc = "fetch"]
                      ELSE [probe EXCEPT !.todo = ids, !.top = Max(ids), !.pc = "check"]

CheckNext_AllMustBeFinished ==
    /\ At("check")
    /\ probe.todo # {}
    /\ LET b == Max(probe.todo)
       IN  IF b \in Finished
             THEN probe' = [probe EXCEPT !.todo = @ \ {b}, !.ids = @ \cup {b}]
             ELSE Answer("error", {})

\* From the newest to the oldest; only the newest may be unfinished.
CheckNext ==
    /\ At("check")
    /\ probe.todo # {}
    /\ LET b == Max(probe.todo)
       IN  IF b \in Finished
             THEN probe' = [probe EXCEPT !.todo = @ \ {b}, !.ids = @ \cup {b}]
           ELSE IF b = probe.top
             THEN probe' = [probe EXCEPT !.todo = @ \ {b}]
           ELSE Answer("error", {})

SelectRuns_Oldest ==
    /\ At("check")
    /\ probe.todo = {}
    /\ IF probe.ids = {} THEN Answer("error", {})
       ELSE probe' = [probe EXCEPT !.ids = {b \in @ : Cardinality({c \in @ : c < b}) < HistoryRuns},
                                   !.pc = "fetch"]

\* The newest runs, without the build that was not finished before.
SelectRuns ==
    /\ At("check")
    /\ probe.todo = {}
    /\ IF probe.ids = {} THEN Answer("error", {})
       ELSE probe' = [probe EXCEPT !.ids = Newest(HistoryRuns, @) \ {probe.unfinished},
                                   !.pc = "fetch"]

Judge_AboveThreshold ==
    /\ At("fetch")
    /\ IF ~(probe.ids \subseteq Finished) THEN Answer("error", {})
       ELSE Answer(IF HighestCount(probe.ids) > FailedRunsThreshold THEN "failing" ELSE "Healthy",
                   probe.ids)

\* The results of a finished build do not change, so all are fetched in one step;
\* those of an unfinished one are not there.
Judge ==
    /\ At("fetch")
    /\ IF ~(probe.ids \subseteq Finished) THEN Answer("error", {})
       ELSE Answer(IF HighestCount(probe.ids) >= FailedRunsThreshold THEN "failing" ELSE "Healthy",
                   probe.ids)

FetchFails ==
    /\ Faults
    /\ probe.pc # "done"
    /\ Answer("error", {})
    /\ excuse' = TRUE
    /\ UNCHANGED <<bucket, moved, always, newest>>

Next ==
    \/ StartBuild
    \/ UpdateLatest
    \/ FinishBuild
    \/ Age
    \/ BeginProbe
    \/ FetchLatest
    \/ CheckBuildStaleness
    \/ IsLatestFinished
    \/ FindPreviousBuildID
    \/ CheckPreviousStaleness
    \/ ListBuildIDs
    \/ CheckNext
    \/ SelectRuns
    \/ Judge
    \/ FetchFails

Spec == Init /\ [][Next]_vars

--------------------------------------------------------------------------------
(***************************************************************************)
(* Properties.                                                              *)
(***************************************************************************)
Says(verdict) == probe.pc = "done" /\ probe.verdict = verdict

Judged == Says("Healthy") \/ Says("failing")

\* What the join has to keep apart for runs with different failures to count as different.
DistinctJoins == \A F, G \in FailureSets : Joined(F) = Joined(G) => F = G

\* If no build finishes while the prober looks at them, its verdict is the one of
\* the last HistoryRuns runs of the job, whichever builds start meanwhile and
\* however late latest-build.txt is.  It holds if every failing test case has a name and
\* DistinctJoins does: if "a,b" can fail as well as "a" and "b", they count as alike.
QuietVerdictsAreRight == (Judged /\ ~moved) => (Says("failing") <=> Failing)

\* The newest run that was finished when the probe began, or a newer one, is part
\* of every verdict.
NewestIsJudged == Judged => \E b \in probe.judged : b >= newest

\* A job whose builds follow each other, one of which has finished and is known, is always
\* judged, wherever the probe meets their starts and ends.
SequentialRunsAreJudged == Says("error") => excuse

\* "If K >= Y, the sub-component is unhealthy": a job whose last runs keep failing
\* alike throughout the probe is not reported healthy.
RepeatedFailureIsReported == Says("Healthy") => ~always
================================================================================
