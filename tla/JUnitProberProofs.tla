--------------------------- MODULE JUnitProberProofs ----------------------------
(***************************************************************************)
(* Theorems about JUnitProber for any number of builds, of runs judged and  *)
(* of test cases.                                                           *)
(***************************************************************************)
EXTENDS JUnitProber, FiniteSetTheorems, WellFoundedInduction, TLAPS

USE JUnitAssumption DEF JUnitAssumption

--------------------------------------------------------------------------------
(***************************************************************************)
(* Numbers: least and greatest elements.                                    *)
(***************************************************************************)

LEMMA LeastNatural ==
    ASSUME NEW S \in SUBSET Nat, S # {}
    PROVE  \E n \in S : \A m \in S : n <= m
<1> DEFINE R == OpToRel(<, Nat)
<1>1. IsWellFoundedOn(R, Nat)
  BY NatLessThanWellFounded
<1>2. \A x, y \in Nat : x < y => <<x, y>> \in R
  BY DEF OpToRel
<1> HIDE DEF R
<1>3. PICK n \in S : \A m \in S : ~(<<m, n>> \in R)
  BY <1>1, WFMin
<1>4. \A m \in S : ~(m < n)
  BY <1>2, <1>3
<1> QED
  BY <1>4

LEMMA MaxIsGreatest ==
    ASSUME NEW S \in SUBSET (0..MaxBuilds), S # {}
    PROVE  Max(S) \in S /\ \A m \in S : Max(S) >= m
<1> DEFINE T == {MaxBuilds - s : s \in S}
<1>1. T \in SUBSET Nat
  <2> SUFFICES ASSUME NEW s \in S PROVE MaxBuilds - s \in Nat
    OBVIOUS
  <2>1. s \in 0..MaxBuilds
    OBVIOUS
  <2> QED
    BY <2>1
<1>2. T # {}
  OBVIOUS
<1>3. PICK n \in T : \A m \in T : n <= m
  <2> HIDE DEF T
  <2> QED
    BY <1>1, <1>2, LeastNatural
<1>4. PICK x \in S : n = MaxBuilds - x
  BY <1>3
<1>5. ASSUME NEW y \in S PROVE x >= y
  <2>1. x \in 0..MaxBuilds /\ y \in 0..MaxBuilds
    OBVIOUS
  <2>2. MaxBuilds - x <= MaxBuilds - y
    BY <1>3, <1>4
  <2> QED
    BY <2>1, <2>2
<1> QED
  BY <1>5 DEF Max

LEMMA MaxOfBuilds ==
    ASSUME NEW S \in SUBSET Builds, S # {}
    PROVE  Max(S) \in S /\ Max(S) \in Builds /\ \A m \in S : Max(S) >= m
<1>1. S \in SUBSET (0..MaxBuilds)
  BY DEF Builds
<1> QED
  BY <1>1, MaxIsGreatest

LEMMA SetsOfBuilds ==
    ASSUME NEW S \in SUBSET Builds
    PROVE  IsFiniteSet(S) /\ Cardinality(S) \in 0..MaxBuilds
<1>1. IsFiniteSet(Builds) /\ Cardinality(Builds) = MaxBuilds
  <2>1. IsFiniteSet(1..MaxBuilds) /\ Cardinality(1..MaxBuilds) = IF 1 > MaxBuilds THEN 0 ELSE MaxBuilds - 1 + 1
    BY FS_Interval
  <2> QED
    BY <2>1 DEF Builds
<1>2. IsFiniteSet(S) /\ Cardinality(S) <= MaxBuilds
  BY <1>1, FS_Subset
<1> QED
  BY <1>2, FS_CardinalityType

--------------------------------------------------------------------------------
(***************************************************************************)
(* Types.                                                                   *)
(***************************************************************************)

LEMMA ProbingType ==
    ASSUME TypeOK, probe.pc # "done"
    PROVE  probe \in Probing
  BY DEF TypeOK

LEMMA AnswerType ==
    ASSUME NEW verdict \in Verdicts, NEW judged \in SUBSET Builds, Answer(verdict, judged)
    PROVE  probe' \in [pc : {"done"}, verdict : Verdicts \cup {"none"}, judged : SUBSET Builds]
  BY DEF Answer

LEMMA ListedAreBuilds == Listed \in SUBSET Builds /\ Finished \in SUBSET Listed
  BY DEF Listed, Finished

\* What the probe was sent to is there.
LatestIsListed ==
    /\ latestFile \in Listed \cup {0}
    /\ probe.pc \notin {"latest", "done"} => probe.latest \in Listed

LEMMA TypeStep == TypeOK /\ LatestIsListed /\ [Next]_vars => TypeOK'
<1> SUFFICES ASSUME TypeOK, LatestIsListed, [Next]_vars PROVE TypeOK'
  OBVIOUS
<1> DEFINE ProbeType == Probing \cup [pc : {"done"}, verdict : Verdicts \cup {"none"}, judged : SUBSET Builds]
<1>a. ASSUME UNCHANGED <<bucket, history>>, probe' \in ProbeType PROVE TypeOK'
  BY <1>a DEF TypeOK, bucket, history
<1>b. ASSUME NEW verdict \in Verdicts, NEW judged \in SUBSET Builds, Answer(verdict, judged)
      PROVE  probe' \in ProbeType
  BY <1>b, AnswerType
<1>c. ASSUME NEW w \in Probing, probe' = w PROVE probe' \in ProbeType
  BY <1>c
<1>d. "error" \in Verdicts /\ "stale" \in Verdicts /\ "failing" \in Verdicts /\ "Healthy" \in Verdicts
  BY DEF Verdicts
<1>e. Failing \in BOOLEAN /\ Failing' \in BOOLEAN /\ Overlapping \in BOOLEAN /\ Overlapping' \in BOOLEAN
  BY DEF Failing, FailAlike, Overlapping
<1>f. ASSUME Observe PROVE excuse' \in BOOLEAN /\ always' \in BOOLEAN /\ probe' = probe /\ newest' = newest
  BY <1>f, <1>e DEF Observe, TypeOK
<1>1. CASE StartBuild
  <2>1. build' \in [Builds -> Outcomes \cup {NotFinished("none"), NotFinished("running")}]
    BY <1>1 DEF StartBuild, TypeOK
  <2> QED
    BY <1>1, <1>f, <2>1 DEF StartBuild, TypeOK
<1>2. CASE UpdateLatest
  <2>1. Max(Listed) \in Builds
    BY <1>2, ListedAreBuilds, MaxOfBuilds DEF UpdateLatest
  <2> QED
    BY <1>2, <2>1 DEF UpdateLatest, TypeOK, history
<1>3. CASE FinishBuild
  <2>1. build' \in [Builds -> Outcomes \cup {NotFinished("none"), NotFinished("running")}]
    BY <1>3, ListedAreBuilds DEF FinishBuild, TypeOK
  <2> QED
    BY <1>3, <1>f, <2>1 DEF FinishBuild, TypeOK
<1>4. CASE Age
  BY <1>4, ListedAreBuilds DEF Age, TypeOK, history
<1>5. CASE BeginProbe
  <2>1. newest' \in Builds \cup {0}
    <3>1. Finished \in SUBSET Builds
      BY ListedAreBuilds
    <3>2. Finished # {} => Max(Finished) \in Builds
      BY <3>1, MaxOfBuilds
    <3> QED
      BY <1>5, <3>2 DEF BeginProbe
  <2>2. probe' \in Probing
    BY <1>5 DEF BeginProbe, Probing
  <2>3. excuse' \in BOOLEAN /\ always' \in BOOLEAN /\ moved' \in BOOLEAN
    BY <1>5, <1>e DEF BeginProbe
  <2> QED
    BY <1>5, <2>1, <2>2, <2>3 DEF BeginProbe, bucket, TypeOK
<1>6. CASE FetchLatest
  <2>1. probe \in Probing
    BY <1>6, ProbingType DEF FetchLatest, At
  <2>2. CASE latestFile = 0
    BY <1>6, <2>2, <1>a, <1>b, <1>d DEF FetchLatest, At
  <2>3. CASE latestFile # 0
    <3>1. [probe EXCEPT !.latest = latestFile, !.pc = "started"] \in Probing
      BY <2>1 DEF Probing, TypeOK
    <3> QED
      BY <1>6, <2>3, <3>1, <1>a, <1>c DEF FetchLatest, At
  <2> QED
    BY <2>2, <2>3
<1>7. CASE CheckBuildStaleness \/ CheckPreviousStaleness
  <2>1. probe \in Probing
    BY <1>7, ProbingType DEF CheckBuildStaleness, CheckPreviousStaleness, At
  <2>2. [probe EXCEPT !.pc = "finished"] \in Probing /\ [probe EXCEPT !.pc = "list"] \in Probing
    BY <2>1 DEF Probing
  <2>3. probe' \in ProbeType
    BY <1>7, <2>2, <1>b, <1>c, <1>d DEF CheckBuildStaleness, CheckPreviousStaleness, Goto
  <2> QED
    BY <1>7, <2>3, <1>a DEF CheckBuildStaleness, CheckPreviousStaleness, At
<1>8. CASE IsLatestFinished
  <2>1. probe \in Probing
    BY <1>8, ProbingType DEF IsLatestFinished, At
  <2>2. [probe EXCEPT !.pc = "list"] \in Probing /\ [probe EXCEPT !.unfinished = probe.latest, !.pc = "previous"] \in Probing
    BY <2>1 DEF Probing
  <2> QED
    BY <1>8, <2>2, <1>a, <1>c DEF IsLatestFinished, At, Goto
<1>9. CASE FindPreviousBuildID
  <2> DEFINE before == {b \in Listed : b < probe.latest}
  <2>1. probe \in Probing
    BY <1>9, ProbingType DEF FindPreviousBuildID, At
  <2>2. CASE before = {}
    BY <1>9, <2>2, <1>a, <1>b, <1>d DEF FindPreviousBuildID, At
  <2>3. CASE before # {}
    <3>0. before \in SUBSET Builds
      BY ListedAreBuilds
    <3>1. Max(before) \in Builds
      BY <2>3, <3>0, MaxOfBuilds
    <3>2. [probe EXCEPT !.latest = Max(before), !.pc = "startedPrevious"] \in Probing
      BY <2>1, <3>1 DEF Probing
    <3> QED
      BY <1>9, <2>3, <3>2, <1>a, <1>c DEF FindPreviousBuildID, At
  <2> QED
    BY <2>2, <2>3
<1>10. CASE ListBuildIDs
  <2> DEFINE ids == Listed \cup {probe.latest}
  <2>1. probe \in Probing
    BY <1>10, ProbingType DEF ListBuildIDs, At
  <2>2. probe.latest \in Listed
    BY <1>10 DEF ListBuildIDs, At, LatestIsListed
  <2>3. ids \in SUBSET Builds /\ ids # {}
    BY <2>2, ListedAreBuilds
  <2>4. Max(ids) \in Builds
    BY <2>3, MaxOfBuilds
  <2>5. /\ [probe EXCEPT !.ids = {probe.latest}, !.pc = "fetch"] \in Probing
        /\ [probe EXCEPT !.todo = ids, !.top = Max(ids), !.pc = "check"] \in Probing
    <3> HIDE DEF ids
    <3> QED
      BY <2>1, <2>2, <2>3, <2>4, ListedAreBuilds DEF Probing
  <2>6. probe' \in ProbeType
    BY <1>10, <2>5, <1>c DEF ListBuildIDs
  <2> QED
    BY <1>10, <2>6, <1>a DEF ListBuildIDs, At
<1>11. CASE CheckNext
  <2>1. probe \in Probing
    BY <1>11, ProbingType DEF CheckNext, At
  <2>2. Max(probe.todo) \in Builds
    BY <1>11, <2>1, MaxOfBuilds DEF CheckNext, Probing
  <2> DEFINE b == Max(probe.todo)
  <2>3. /\ [probe EXCEPT !.todo = @ \ {b}, !.ids = @ \cup {b}] \in Probing
        /\ [probe EXCEPT !.todo = @ \ {b}] \in Probing
    BY <2>1, <2>2 DEF Probing
  <2>4. probe' \in ProbeType
    BY <1>11, <2>3, <1>b, <1>c, <1>d DEF CheckNext
  <2> QED
    BY <1>11, <2>4, <1>a DEF CheckNext, At
<1>12. CASE SelectRuns
  <2>1. probe \in Probing
    BY <1>12, ProbingType DEF SelectRuns, At
  <2>2. [probe EXCEPT !.ids = Newest(HistoryRuns, @) \ {probe.unfinished}, !.pc = "fetch"] \in Probing
    BY <2>1 DEF Probing, Newest
  <2>3. probe' \in ProbeType
    BY <1>12, <2>2, <1>b, <1>c, <1>d DEF SelectRuns
  <2> QED
    BY <1>12, <2>3, <1>a DEF SelectRuns, At
<1>13. CASE Judge
  <2>1. probe.ids \in SUBSET Builds
    BY <1>13, ProbingType DEF Judge, At, Probing
  <2>2. probe' \in ProbeType
    BY <1>13, <2>1, <1>b, <1>d DEF Judge
  <2> QED
    BY <1>13, <2>2, <1>a DEF Judge, At
<1>14. CASE FetchFails
  <2>1. probe' \in ProbeType
    BY <1>14, <1>b, <1>d DEF FetchFails
  <2> QED
    BY <1>14, <2>1 DEF FetchFails, bucket, TypeOK
<1>15. CASE UNCHANGED vars
  BY <1>15 DEF vars, TypeOK
<1> QED
  BY <1>1, <1>2, <1>3, <1>4, <1>5, <1>6, <1>7, <1>8, <1>9, <1>10, <1>11, <1>12, <1>13, <1>14, <1>15 DEF Next

LEMMA TypeInit == Init => TypeOK /\ LatestIsListed
<1> SUFFICES ASSUME Init PROVE TypeOK /\ LatestIsListed
  OBVIOUS
<1>1. build \in [Builds -> Outcomes \cup {NotFinished("none"), NotFinished("running")}]
  BY DEF Init
<1>2. probe \in [pc : {"done"}, verdict : Verdicts \cup {"none"}, judged : SUBSET Builds] /\ probe.pc = "done"
  BY DEF Init, Done
<1> QED
  BY <1>1, <1>2 DEF Init, TypeOK, LatestIsListed

--------------------------------------------------------------------------------
(***************************************************************************)
(* What the job does meanwhile.                                             *)
(***************************************************************************)

Job == StartBuild \/ UpdateLatest \/ FinishBuild \/ Age

\* Builds come and finish and neither is undone.  Unless one finishes, what is finished
\* and its results stay.
Grows ==
    /\ probe' = probe /\ newest' = newest
    /\ Listed \subseteq Listed' /\ Finished \subseteq Finished'
    /\ latestFile' = 0 => latestFile = 0
    /\ latestFile' \in Listed' \cup {0}
    /\ excuse => excuse'
    /\ Overlapping' => Overlapping \/ excuse'
    /\ moved => moved'
    /\ ~moved' => Finished' = Finished /\ \A b \in Finished : build'[b] = build[b]

LEMMA JobGrows ==
    ASSUME TypeOK, LatestIsListed, Job
    PROVE  Grows
<1>1. CASE StartBuild
  <2>1. PICK b \in Builds \ Listed : build' = [build EXCEPT ![b] = NotFinished("running")]
    BY <1>1 DEF StartBuild
  <2>2. \A c \in Builds : c # b => build'[c] = build[c]
    BY <2>1 DEF TypeOK
  <2>3. build'[b] = NotFinished("running") /\ build[b].state = "none"
    BY <2>1 DEF TypeOK, Listed
  <2>4. Listed' = Listed \cup {b} /\ Finished' = Finished
    BY <2>2, <2>3 DEF Listed, Finished, NotFinished
  <2>5. \A c \in Finished : build'[c] = build[c]
    BY <2>2, <2>3 DEF Finished
  <2> QED
    BY <1>1, <2>4, <2>5 DEF StartBuild, Observe, LatestIsListed, Grows
<1>2. CASE FinishBuild
  <2>1. PICK b \in Listed \ Finished, outcome \in Outcomes : build' = [build EXCEPT ![b] = outcome]
    BY <1>2 DEF FinishBuild
  <2>2. b \in Builds /\ \A c \in Builds : c # b => build'[c] = build[c]
    BY <2>1, ListedAreBuilds DEF TypeOK
  <2>3. build'[b] = outcome /\ outcome.state = "finished"
    BY <2>1, <2>2 DEF TypeOK, Outcomes
  <2>4. Listed' = Listed /\ Finished' = Finished \cup {b}
    BY <2>1, <2>2, <2>3 DEF Listed, Finished
  <2> QED
    BY <1>2, <2>4 DEF FinishBuild, Observe, LatestIsListed, Grows
<1>3. CASE UpdateLatest
  <2>1. Max(Listed) \in Listed
    BY <1>3, MaxOfBuilds, ListedAreBuilds DEF UpdateLatest
  <2>2. latestFile' # 0
    BY <1>3, <2>1, ListedAreBuilds DEF UpdateLatest, Builds
  <2>3. Listed' = Listed /\ Finished' = Finished /\ Overlapping' = Overlapping
    BY <1>3 DEF UpdateLatest, Listed, Finished, Overlapping
  <2> QED
    BY <1>3, <2>1, <2>2, <2>3 DEF UpdateLatest, Grows, history
<1>4. CASE Age
  <2>1. Listed' = Listed /\ Finished' = Finished /\ Overlapping' = Overlapping
    BY <1>4 DEF Age, Listed, Finished, Overlapping
  <2> QED
    BY <1>4, <2>1 DEF Age, Grows, history, LatestIsListed
<1> QED
  BY <1>1, <1>2, <1>3, <1>4 DEF Job

\* Which runs are the last ones and whether they fail alike is settled by the finished
\* builds.
LEMMA VerdictsLast ==
    ASSUME Finished' = Finished, \A b \in Finished : build'[b] = build[b]
    PROVE  Failing' = Failing
<1> DEFINE S == Newest(HistoryRuns, Finished)
<1>1. S \subseteq Finished /\ S' = S
  BY DEF Newest
<1>2. \A b, c \in S : SamePattern(b, c)' <=> SamePattern(b, c)
  BY <1>1 DEF SamePattern
<1>3. \A b \in S : Red(b)' <=> Red(b)
  BY <1>1 DEF Red
<1> HIDE DEF S
<1>4. \A b \in S : {c \in S : SamePattern(b, c)'} = {c \in S : SamePattern(b, c)}
  BY <1>2
<1>5. FailAlike(S)' <=> FailAlike(S)
  BY <1>1, <1>3, <1>4 DEF FailAlike
<1> QED
  BY <1>5 DEF Failing, S, FailAlike

--------------------------------------------------------------------------------
(***************************************************************************)
(* The invariant: what the probe knows, and what it has still to look at.   *)
(***************************************************************************)

\* What was there when the probe began.
Begun ==
    /\ Overlapping => excuse
    /\ probe.pc # "done" =>
          /\ newest # 0 => newest \in Finished /\ probe.unfinished # newest
          /\ ~excuse => newest # 0 /\ latestFile # 0

\* The build it was sent to, and the one before it, if that was not finished.
Located ==
    /\ probe.pc \in {"latest", "started", "finished"} => probe.unfinished = 0
    /\ probe.pc = "previous" =>
          /\ probe.unfinished = probe.latest
          /\ ~excuse => \E b \in Listed : b < probe.latest
    /\ probe.pc \in {"startedPrevious", "list", "check", "fetch"} =>
          IF probe.unfinished = 0 THEN probe.latest \in Finished
                                  ELSE probe.latest < probe.unfinished
    /\ probe.pc \notin {"check", "fetch", "done"} => probe.ids = {}
    /\ probe.pc # "done" /\ probe.unfinished # 0 =>
          /\ probe.unfinished \in Listed
          /\ ~moved => probe.unfinished \notin Finished

\* A run that will be judged: it is no older than the newest that was finished, and
\* neither of the two reasons to leave a run out applies to it.
Candidate(b) ==
    /\ b >= newest
    /\ b # probe.unfinished
    /\ b \in Finished \/ b # probe.top

Checking ==
    probe.pc = "check" =>
        /\ HistoryRuns # 1
        /\ probe.todo \subseteq Listed /\ probe.ids \subseteq Finished
        /\ probe.top \in Listed /\ \A b \in probe.todo : b <= probe.top
        /\ \E b \in probe.todo \cup probe.ids : Candidate(b)
        /\ ~moved => Finished \subseteq probe.todo \cup probe.ids

Selected ==
    probe.pc = "fetch" =>
        IF HistoryRuns = 1 THEN probe.ids = {probe.latest}
        ELSE /\ probe.ids \subseteq Finished
             /\ \E b \in probe.ids : b >= newest
             /\ ~moved => probe.ids = Newest(HistoryRuns, Finished)

Answered ==
    /\ SequentialRunsAreJudged
    /\ HistoryRuns # 1 => NewestIsJudged /\ (Judged => probe.judged \subseteq Finished)

ProbeInv == TypeOK /\ LatestIsListed /\ Begun /\ Located /\ Checking /\ Selected /\ Answered

LEMMA InvInit == Init => ProbeInv
<1> SUFFICES ASSUME Init PROVE ProbeInv
  OBVIOUS
<1>1. probe.pc = "done" /\ probe.verdict = "none" /\ newest = 0
  BY DEF Init, Done
<1>2. ~Overlapping
  <2>1. Listed = {}
    BY DEF Init, Listed, NotFinished
  <2> QED
    BY <2>1 DEF Overlapping
<1> QED
  BY <1>1, <1>2, TypeInit DEF ProbeInv, Begun, Located, Checking, Selected, Answered, SequentialRunsAreJudged,
                              NewestIsJudged, Judged, Says

LEMMA JobStep ==
    ASSUME ProbeInv, Job, TypeOK'
    PROVE  ProbeInv'
<1>1. Grows
  BY JobGrows DEF ProbeInv
<1>2. LatestIsListed'
  BY <1>1 DEF Grows, ProbeInv, LatestIsListed
<1>3. Begun'
  BY <1>1 DEF Grows, ProbeInv, Begun
<1>4. Located'
  BY <1>1 DEF Grows, ProbeInv, Located
<1>5. Checking'
  BY <1>1 DEF Grows, ProbeInv, Checking, Candidate
<1>6. Selected'
  BY <1>1 DEF Grows, ProbeInv, Selected, Newest
<1>7. Answered'
  BY <1>1 DEF Grows, ProbeInv, Answered, SequentialRunsAreJudged, NewestIsJudged, Judged, Says
<1> QED
  BY <1>2, <1>3, <1>4, <1>5, <1>6, <1>7 DEF ProbeInv

\* A step of the probe leaves the bucket alone.
LEMMA Still ==
    ASSUME UNCHANGED <<bucket, history>>
    PROVE  /\ UNCHANGED <<build, latestFile, moved, excuse, newest>>
           /\ Listed' = Listed /\ Finished' = Finished /\ Overlapping' = Overlapping
  BY DEF bucket, history, Listed, Finished, Overlapping

LEMMA ErrorAnswers ==
    ASSUME ProbeInv, TypeOK', UNCHANGED <<bucket, history>>, probe'.pc = "done",
           probe'.verdict = "stale" \/ (probe'.verdict = "error" /\ excuse)
    PROVE  ProbeInv'
  BY Still DEF ProbeInv, LatestIsListed, Begun, Located, Checking, Selected, Answered,
               SequentialRunsAreJudged, NewestIsJudged, Judged, Says

LEMMA BeginStep ==
    ASSUME ProbeInv, BeginProbe, TypeOK'
    PROVE  ProbeInv'
<1>1. /\ probe'.pc = "latest" /\ probe'.unfinished = 0 /\ probe'.ids = {} /\ UNCHANGED <<build, latestFile>>
      /\ excuse' = (Overlapping \/ Finished = {} \/ latestFile = 0)
      /\ newest' = IF Finished = {} THEN 0 ELSE Max(Finished)
  BY DEF BeginProbe, bucket
<1>2. Listed' = Listed /\ Finished' = Finished /\ Overlapping' = Overlapping
  BY <1>1 DEF Listed, Finished, Overlapping
<1>3. Finished # {} => Max(Finished) \in Finished /\ Max(Finished) # 0
  <2>1. Finished \in SUBSET Builds
    BY ListedAreBuilds
  <2>2. Finished # {} => Max(Finished) \in Finished /\ Max(Finished) \in Builds
    BY <2>1, MaxOfBuilds
  <2> QED
    BY <2>2 DEF Builds
<1> QED
  BY <1>1, <1>2, <1>3 DEF ProbeInv, LatestIsListed, Begun, Located, Checking, Selected, Answered,
               SequentialRunsAreJudged, NewestIsJudged, Judged, Says

LEMMA LocateStep ==
    ASSUME ProbeInv, TypeOK',
           \/ FetchLatest \/ CheckBuildStaleness \/ IsLatestFinished
           \/ FindPreviousBuildID \/ CheckPreviousStaleness
    PROVE  ProbeInv'
<1>t. /\ UNCHANGED <<build, latestFile, moved, excuse, newest>> /\ UNCHANGED <<bucket, history>>
      /\ Listed' = Listed /\ Finished' = Finished /\ Overlapping' = Overlapping
  BY Still DEF FetchLatest, CheckBuildStaleness, IsLatestFinished, FindPreviousBuildID,
               CheckPreviousStaleness, At
<1>p. probe \in Probing
  BY ProbingType DEF FetchLatest, CheckBuildStaleness, IsLatestFinished, FindPreviousBuildID,
                     CheckPreviousStaleness, At, ProbeInv
<1>l. probe.latest \in Listed => probe.latest \in 1..MaxBuilds
  BY ListedAreBuilds DEF Builds
<1>1. CASE FetchLatest
  <2>1. CASE latestFile = 0
    <3>1. probe'.pc = "done" /\ probe'.verdict = "error"
      BY <1>1, <2>1 DEF FetchLatest, Answer
    <3>2. excuse
      BY <1>1, <2>1 DEF FetchLatest, At, ProbeInv, Begun
    <3> QED
      BY <1>t, <3>1, <3>2, ErrorAnswers
  <2>2. CASE latestFile # 0
    <3>1. probe'.pc = "started" /\ probe'.latest = latestFile /\ probe'.unfinished = probe.unfinished
          /\ probe.pc = "latest" /\ probe'.ids = probe.ids
      BY <1>1, <2>2, <1>p DEF FetchLatest, At, Probing
    <3> QED
      BY <1>t, <2>2, <3>1 DEF ProbeInv, LatestIsListed, Begun, Located, Checking, Selected, Answered,
                SequentialRunsAreJudged, NewestIsJudged, Judged, Says
  <2> QED
    BY <2>1, <2>2
<1>2. CASE CheckBuildStaleness \/ CheckPreviousStaleness
  <2>1. CASE probe'.pc = "done"
    <3>1. probe'.verdict = "stale"
      BY <1>2, <1>p, <2>1 DEF CheckBuildStaleness, CheckPreviousStaleness, Answer, Goto, Probing
    <3> QED
      BY <1>t, <2>1, <3>1, ErrorAnswers
  <2>2. CASE probe'.pc # "done"
    <3>1. /\ probe'.latest = probe.latest /\ probe'.unfinished = probe.unfinished /\ probe'.ids = probe.ids
          /\ \/ probe.pc = "started" /\ probe'.pc = "finished"
             \/ probe.pc = "startedPrevious" /\ probe'.pc = "list"
      BY <1>2, <1>p, <2>2 DEF CheckBuildStaleness, CheckPreviousStaleness, Answer, Goto, Probing, At
    <3> QED
      BY <1>t, <3>1 DEF ProbeInv, LatestIsListed, Begun, Located, Checking, Selected, Answered,
                SequentialRunsAreJudged, NewestIsJudged, Judged, Says
  <2> QED
    BY <2>1, <2>2
<1>3. CASE IsLatestFinished
  <2>0. probe.pc = "finished" /\ probe.unfinished = 0 /\ probe.latest \in Listed
    BY <1>3 DEF IsLatestFinished, At, ProbeInv, Located, LatestIsListed
  <2>1. CASE probe.latest \in Finished
    <3>1. probe'.pc = "list" /\ probe'.latest = probe.latest /\ probe'.unfinished = 0 /\ probe'.ids = probe.ids
      BY <1>3, <1>p, <2>0, <2>1 DEF IsLatestFinished, Goto, Probing
    <3> QED
      BY <1>t, <2>0, <2>1, <3>1 DEF ProbeInv, LatestIsListed, Begun, Located, Checking, Selected, Answered,
                SequentialRunsAreJudged, NewestIsJudged, Judged, Says
  <2>2. CASE probe.latest \notin Finished
    <3>1. /\ probe'.pc = "previous" /\ probe'.latest = probe.latest /\ probe'.unfinished = probe.latest
          /\ probe'.ids = probe.ids
      BY <1>3, <1>p, <2>2 DEF IsLatestFinished, Probing
    <3>2. ~excuse => \E b \in Listed : b < probe.latest
      <4> SUFFICES ASSUME ~excuse PROVE \E b \in Listed : b < probe.latest
        OBVIOUS
      <4>1. newest \in Finished /\ newest # probe.latest
        BY <2>0, <2>2 DEF ProbeInv, Begun
      <4>2. ~(probe.latest < newest)
        BY <2>0, <2>2, <4>1, ListedAreBuilds DEF ProbeInv, Begun, Overlapping
      <4>3. newest \in Listed
        BY <4>1, ListedAreBuilds
      <4>4. newest \in 1..MaxBuilds /\ probe.latest \in 1..MaxBuilds
        BY <1>l, <2>0, <4>3, ListedAreBuilds DEF Builds
      <4>5. newest < probe.latest
        BY <4>1, <4>2, <4>4
      <4> QED
        BY <4>3, <4>5
    <3> QED
      BY <1>t, <2>0, <2>2, <3>1, <3>2 DEF ProbeInv, LatestIsListed, Begun, Located, Checking, Selected, Answered,
                SequentialRunsAreJudged, NewestIsJudged, Judged, Says
  <2> QED
    BY <2>1, <2>2
<1>4. CASE FindPreviousBuildID
  <2> DEFINE before == {b \in Listed : b < probe.latest}
  <2>0. probe.pc = "previous" /\ probe.unfinished = probe.latest /\ probe.latest \in Listed
    BY <1>4 DEF FindPreviousBuildID, At, ProbeInv, Located, LatestIsListed
  <2>1. CASE before = {}
    <3>1. probe'.pc = "done" /\ probe'.verdict = "error"
      BY <1>4, <2>1 DEF FindPreviousBuildID, Answer
    <3>2. excuse
      BY <2>0, <2>1 DEF ProbeInv, Located
    <3> QED
      BY <1>t, <3>1, <3>2, ErrorAnswers
  <2>2. CASE before # {}
    <3>1. Max(before) \in before
      BY <2>2, MaxOfBuilds, ListedAreBuilds
    <3>2. probe'.pc = "startedPrevious" /\ probe'.latest = Max(before)
          /\ probe'.unfinished = probe.unfinished /\ probe'.ids = probe.ids
      BY <1>4, <1>p, <2>2 DEF FindPreviousBuildID, Probing
    <3>3. probe.latest # 0
      BY <1>l, <2>0
    <3> HIDE DEF before
    <3>4. Max(before) \in Listed /\ Max(before) < probe.latest
      BY <3>1 DEF before
    <3> QED
      BY <1>t, <2>0, <3>2, <3>3, <3>4 DEF ProbeInv, LatestIsListed, Begun, Located, Checking, Selected, Answered,
                SequentialRunsAreJudged, NewestIsJudged, Judged, Says
  <2> QED
    BY <2>1, <2>2
<1> QED
  BY <1>1, <1>2, <1>3, <1>4

LEMMA ListStep ==
    ASSUME ProbeInv, TypeOK', ListBuildIDs
    PROVE  ProbeInv'
<1>t. /\ UNCHANGED <<build, latestFile, moved, excuse, newest>>
      /\ Listed' = Listed /\ Finished' = Finished /\ Overlapping' = Overlapping
  BY Still DEF ListBuildIDs, At
<1>p. probe \in Probing
  BY ProbingType DEF ListBuildIDs, At, ProbeInv
<1>0. probe.pc = "list" /\ probe.latest \in Listed
  BY DEF ListBuildIDs, At, ProbeInv, LatestIsListed
<1> DEFINE top == Max(Listed)
<1>1. Listed \cup {probe.latest} = Listed
  BY <1>0
<1>2. /\ probe'.latest = probe.latest /\ probe'.unfinished = probe.unfinished
      /\ IF HistoryRuns = 1 THEN probe'.pc = "fetch" /\ probe'.ids = {probe.latest}
         ELSE probe'.pc = "check" /\ probe'.todo = Listed /\ probe'.top = top /\ probe'.ids = probe.ids
  BY <1>p, <1>1 DEF ListBuildIDs, Probing
<1>3. LatestIsListed' /\ Begun' /\ Located' /\ Answered'
  BY <1>t, <1>0, <1>2 DEF ProbeInv, LatestIsListed, Begun, Located, Answered, SequentialRunsAreJudged,
                          NewestIsJudged, Judged, Says
<1>4. Selected'
  BY <1>2 DEF Selected
<1>5. Checking'
  <2> SUFFICES ASSUME HistoryRuns # 1 PROVE Checking'
    BY <1>2 DEF Checking
  <2>a. /\ probe'.pc = "check" /\ probe'.todo = Listed /\ probe'.top = top /\ probe'.ids = probe.ids
    BY <1>2
  <2>b. probe.ids = {}
    BY <1>0 DEF ProbeInv, Located
  <2>1. top \in Listed /\ \A b \in Listed : b <= top
    <3>1. top \in Listed /\ \A b \in Listed : top >= b
      BY <1>0, MaxOfBuilds, ListedAreBuilds
    <3> QED
      BY <3>1, ListedAreBuilds DEF Builds
  <2>2. \E b \in Listed : Candidate(b)'
    <3>1. CASE newest # 0
      <4>1. newest \in Finished /\ probe.unfinished # newest
        BY <1>0, <3>1 DEF ProbeInv, Begun
      <4>2. newest \in Listed /\ newest >= newest
        BY <4>1, ListedAreBuilds DEF Builds
      <4> QED
        BY <1>t, <1>2, <4>1, <4>2 DEF Candidate
    <3>2. CASE newest = 0
      <4>1. probe.latest \in 1..MaxBuilds /\ top \in 1..MaxBuilds
        BY <1>0, <2>1, ListedAreBuilds DEF Builds
      <4>2. CASE probe.unfinished = 0
        <5>1. probe.latest \in Finished
          BY <1>0, <4>2 DEF ProbeInv, Located
        <5> QED
          BY <1>t, <1>0, <1>2, <3>2, <4>1, <4>2, <5>1 DEF Candidate
      <4>3. CASE probe.unfinished # 0
        <5>1. probe.latest < probe.unfinished /\ probe.unfinished \in Listed
          BY <1>0, <4>3 DEF ProbeInv, Located
        <5>2. probe.unfinished \in 1..MaxBuilds /\ probe.unfinished <= top
          BY <2>1, <5>1, ListedAreBuilds DEF Builds
        <5>3. probe.latest # top /\ probe.latest # probe.unfinished /\ probe.latest >= 0
          BY <4>1, <5>1, <5>2
        <5> QED
          BY <1>t, <1>0, <2>a, <1>2, <3>2, <5>3 DEF Candidate
      <4> QED
        BY <4>2, <4>3
    <3> QED
      BY <3>1, <3>2
  <2>3. Finished \subseteq Listed
    BY ListedAreBuilds
  <2> QED
    BY <1>t, <2>a, <2>b, <2>1, <2>2, <2>3 DEF Checking
<1> QED
  BY <1>3, <1>4, <1>5 DEF ProbeInv

LEMMA CheckStep ==
    ASSUME ProbeInv, TypeOK', CheckNext
    PROVE  ProbeInv'
<1>t. /\ UNCHANGED <<build, latestFile, moved, excuse, newest>> /\ UNCHANGED <<bucket, history>>
      /\ Listed' = Listed /\ Finished' = Finished /\ Overlapping' = Overlapping
  BY Still DEF CheckNext, At
<1>p. probe \in Probing
  BY ProbingType DEF CheckNext, At, ProbeInv
<1> DEFINE b == Max(probe.todo)
<1>0. probe.pc = "check" /\ b \in probe.todo /\ b \in Builds
  BY <1>p, MaxOfBuilds DEF CheckNext, At, Probing
<1>1. CASE b \in Finished \/ b = probe.top
  <2>1. /\ probe'.pc = "check" /\ probe'.latest = probe.latest /\ probe'.unfinished = probe.unfinished
        /\ probe'.top = probe.top /\ probe'.todo = probe.todo \ {b}
        /\ probe'.ids = IF b \in Finished THEN probe.ids \cup {b} ELSE probe.ids
    BY <1>p, <1>0, <1>1 DEF CheckNext, Probing
  <2>2. LatestIsListed' /\ Begun' /\ Located' /\ Answered' /\ Selected'
    BY <1>t, <1>0, <2>1 DEF ProbeInv, LatestIsListed, Begun, Located, Selected, Answered, SequentialRunsAreJudged,
                            NewestIsJudged, Judged, Says
  <2> HIDE DEF b
  <2>3. PICK c \in probe.todo \cup probe.ids : Candidate(c)
    BY <1>0 DEF ProbeInv, Checking
  <2>4. Candidate(c)'
    BY <1>t, <2>1, <2>3 DEF Candidate
  <2>5. c \in probe'.todo \cup probe'.ids
    BY <1>1, <2>1, <2>3, <1>0 DEF Candidate
  <2>6. Checking'
    BY <1>t, <1>0, <1>1, <2>1, <2>4, <2>5 DEF ProbeInv, Checking
  <2> QED
    BY <2>2, <2>6 DEF ProbeInv
<1>2. CASE b \notin Finished /\ b # probe.top
  <2>1. probe'.pc = "done" /\ probe'.verdict = "error"
    BY <1>2 DEF CheckNext, Answer
  <2>2. b \in Listed /\ b <= probe.top /\ probe.top \in Listed
    BY <1>0 DEF ProbeInv, Checking
  <2>3. b < probe.top
    <3> HIDE DEF b
    <3>1. b \in Builds /\ probe.top \in Builds
      BY <2>2, ListedAreBuilds
    <3> QED
      BY <1>2, <2>2, <3>1 DEF Builds
  <2>4. excuse
    BY <1>2, <2>2, <2>3 DEF ProbeInv, Begun, Overlapping
  <2> QED
    BY <1>t, <2>1, <2>4, ErrorAnswers
<1> QED
  BY <1>1, <1>2

\* Leaving out one run that the newest two of several hold leaves one that is no older
\* than any other.
LEMMA SelectionKeeps ==
    ASSUME NEW S \in SUBSET Builds, NEW c \in S, NEW u, c # u, HistoryRuns # 1
    PROVE  \E b \in Newest(HistoryRuns, S) \ {u} : b >= c
<1> DEFINE T == S \ {u}
           b == Max(T)
<1>1. T \in SUBSET Builds /\ T # {}
  OBVIOUS
<1>2. b \in T /\ \A m \in T : b >= m
  BY <1>1, MaxOfBuilds
<1> DEFINE newer == {m \in S : m > b}
<1>3. newer \subseteq {u}
  <2> HIDE DEF b
  <2>1. \A m \in T : m \in Int /\ b \in Int
    BY <1>2 DEF Builds
  <2> QED
    BY <1>2, <2>1
<1>4. newer = {} \/ newer = {u}
  BY <1>3
<1>5. Cardinality(newer) < HistoryRuns
  <2> HIDE DEF newer
  <2> QED
    BY <1>4, FS_EmptySet, FS_Singleton
<1> QED
  BY <1>2, <1>5 DEF Newest

LEMMA SelectStep ==
    ASSUME ProbeInv, TypeOK', SelectRuns
    PROVE  ProbeInv'
<1>t. /\ UNCHANGED <<build, latestFile, moved, excuse, newest>> /\ UNCHANGED <<bucket, history>>
      /\ Listed' = Listed /\ Finished' = Finished /\ Overlapping' = Overlapping
  BY Still DEF SelectRuns, At
<1>p. probe \in Probing
  BY ProbingType DEF SelectRuns, At, ProbeInv
<1>0. probe.pc = "check" /\ probe.todo = {}
  BY DEF SelectRuns, At
<1>1. /\ HistoryRuns # 1 /\ probe.ids \subseteq Finished
      /\ \E c \in probe.ids : Candidate(c)
      /\ ~moved => probe.ids = Finished
  BY <1>0 DEF ProbeInv, Checking
<1>2. /\ probe'.pc = "fetch" /\ probe'.latest = probe.latest /\ probe'.unfinished = probe.unfinished
      /\ probe'.ids = Newest(HistoryRuns, probe.ids) \ {probe.unfinished}
  BY <1>p, <1>1 DEF SelectRuns, Probing
<1>3. LatestIsListed' /\ Begun' /\ Located' /\ Answered' /\ Checking'
  BY <1>t, <1>0, <1>2 DEF ProbeInv, LatestIsListed, Begun, Located, Checking, Answered, SequentialRunsAreJudged,
                          NewestIsJudged, Judged, Says
<1>4. \E b \in probe'.ids : b >= newest
  <2>1. PICK c \in probe.ids : Candidate(c)
    BY <1>1
  <2>2. probe.ids \in SUBSET Builds /\ c # probe.unfinished
    BY <1>p, <2>1 DEF Probing, Candidate
  <2>3. PICK b \in Newest(HistoryRuns, probe.ids) \ {probe.unfinished} : b >= c
    BY <1>1, <2>1, <2>2, SelectionKeeps
  <2>4. b \in Builds /\ c \in Builds /\ c >= newest /\ newest \in Builds \cup {0}
    BY <2>1, <2>2, <2>3 DEF Newest, Candidate, ProbeInv, TypeOK
  <2>5. b >= newest
    BY <2>3, <2>4 DEF Builds
  <2> QED
    BY <1>2, <2>3, <2>5
<1>5. probe'.ids \subseteq Finished
  BY <1>1, <1>2 DEF Newest
<1>6. ~moved => probe'.ids = Newest(HistoryRuns, Finished)
  <2> SUFFICES ASSUME ~moved PROVE probe'.ids = Newest(HistoryRuns, Finished)
    OBVIOUS
  <2>1. probe.ids = Finished
    BY <1>1
  <2>2. probe.unfinished \notin Finished
    <3>1. probe.unfinished = 0 => probe.unfinished \notin Builds
      BY DEF Builds
    <3> QED
      BY <1>0, <3>1, ListedAreBuilds DEF ProbeInv, Located
  <2>3. probe.unfinished \notin Newest(HistoryRuns, Finished)
    BY <2>2 DEF Newest
  <2> QED
    BY <1>2, <2>1, <2>3
<1>7. Selected'
  BY <1>t, <1>1, <1>2, <1>4, <1>5, <1>6 DEF Selected, Newest
<1> QED
  BY <1>3, <1>7 DEF ProbeInv

LEMMA JudgeStep ==
    ASSUME ProbeInv, TypeOK', Judge
    PROVE  ProbeInv'
<1>t. /\ UNCHANGED <<build, latestFile, moved, excuse, newest>> /\ UNCHANGED <<bucket, history>>
      /\ Listed' = Listed /\ Finished' = Finished /\ Overlapping' = Overlapping
  BY Still DEF Judge, At
<1>0. probe.pc = "fetch"
  BY DEF Judge, At
<1>1. CASE probe.ids \subseteq Finished
  <2>1. probe'.pc = "done" /\ probe'.verdict \in {"failing", "Healthy"} /\ probe'.judged = probe.ids
    BY <1>1 DEF Judge, Answer
  <2>2. HistoryRuns # 1 => \E b \in probe.ids : b >= newest
    BY <1>0 DEF ProbeInv, Selected
  <2> QED
    BY <1>t, <1>1, <2>1, <2>2 DEF ProbeInv, LatestIsListed, Begun, Located, Checking, Selected, Answered,
              SequentialRunsAreJudged, NewestIsJudged, Judged, Says
<1>2. CASE ~(probe.ids \subseteq Finished)
  <2>1. probe'.pc = "done" /\ probe'.verdict = "error"
    BY <1>2 DEF Judge, Answer
  <2>2. HistoryRuns = 1 /\ probe.ids = {probe.latest} /\ probe.latest \notin Finished
    BY <1>0, <1>2 DEF ProbeInv, Selected
  <2>3. probe.latest \in Listed /\ probe.unfinished \in Listed /\ probe.latest < probe.unfinished
    BY <1>0, <2>2 DEF ProbeInv, LatestIsListed, Located
  <2>4. excuse
    BY <2>2, <2>3 DEF ProbeInv, Begun, Overlapping
  <2> QED
    BY <1>t, <2>1, <2>4, ErrorAnswers
<1> QED
  BY <1>1, <1>2

LEMMA FailStep ==
    ASSUME ProbeInv, TypeOK', FetchFails
    PROVE  ProbeInv'
<1>1. /\ UNCHANGED <<build, latestFile, moved, newest>> /\ excuse'
      /\ probe'.pc = "done" /\ probe'.verdict = "error"
  BY DEF FetchFails, Answer, bucket
<1>2. Listed' = Listed /\ Finished' = Finished
  BY <1>1 DEF Listed, Finished
<1> QED
  BY <1>1, <1>2 DEF ProbeInv, LatestIsListed, Begun, Located, Checking, Selected, Answered,
                    SequentialRunsAreJudged, NewestIsJudged, Judged, Says

LEMMA InvStep == ProbeInv /\ [Next]_vars => ProbeInv'
<1> SUFFICES ASSUME ProbeInv, [Next]_vars PROVE ProbeInv'
  OBVIOUS
<1>t. TypeOK'
  BY TypeStep DEF ProbeInv
<1>1. CASE UNCHANGED vars
  <2>1. UNCHANGED <<build, latestFile, probe, moved, excuse, newest>>
    BY <1>1 DEF vars
  <2>2. Listed' = Listed /\ Finished' = Finished /\ Overlapping' = Overlapping
    BY <2>1 DEF Listed, Finished, Overlapping
  <2> QED
    BY <1>t, <2>1, <2>2 DEF ProbeInv, LatestIsListed, Begun, Located, Checking, Candidate, Selected, Newest,
              Answered, SequentialRunsAreJudged, NewestIsJudged, Judged, Says
<1> QED
  BY <1>t, <1>1, JobStep, BeginStep, LocateStep, ListStep, CheckStep, SelectStep, JudgeStep, FailStep
  DEF Next, Job

--------------------------------------------------------------------------------
(***************************************************************************)
(* The prober counts what the README promises, as long as every failing     *)
(* test case has a name and the joined names tell the failing sets apart.   *)
(***************************************************************************)
FailuresAreNamed == \A F \in FailureSets : Nameless \notin F

\* They do if no name has a comma: a set of one-part names is what its join lists.
LEMMA PlainNamesJoinApart ==
    ASSUME \A F \in FailureSets : \A n \in F : Len(n) = 1
    PROVE  FailuresAreNamed /\ DistinctJoins
<1>1. FailuresAreNamed
  BY DEF FailuresAreNamed, Nameless
<1>2. ASSUME NEW F \in FailureSets, NEW n \in F PROVE DOMAIN n = {1} /\ n = <<n[1]>>
  <2>1. n # Nameless
    BY <1>1, <1>2 DEF FailuresAreNamed
  <2>2. n \in Seq(STRING) /\ Len(n) = 1
    BY <1>2, <2>1, NamesAssumption DEF NamesAssumption
  <2> QED
    BY <2>2
<1>3. ASSUME NEW F \in FailureSets PROVE F = {<<p[2]>> : p \in Joined(F)}
  <2> DEFINE Parts == UNION {{<<n, i>> : i \in DOMAIN n} : n \in F}
             Earlier(p) == {q \in Parts : \/ Position(q[1]) < Position(p[1])
                                          \/ q[1] = p[1] /\ q[2] < p[2]}
             Place(p) == Cardinality(Earlier(p))
  <2>1. Parts = {<<n, 1>> : n \in F}
    BY <1>2
  <2>2. Joined(F) = {<<Place(p), p[1][p[2]]>> : p \in Parts}
    BY DEF Joined
  <2> HIDE DEF Parts, Earlier, Place
  <2>3. Joined(F) = {<<Place(<<n, 1>>), n[1]>> : n \in F}
    <3> DEFINE Placed(p) == <<Place(p), p[1][p[2]]>>
    <3>1. \A n \in F : Placed(<<n, 1>>) = <<Place(<<n, 1>>), n[1]>>
      OBVIOUS
    <3>2. Joined(F) = {Placed(p) : p \in Parts}
      BY <2>2
    <3> HIDE DEF Placed
    <3>3. Joined(F) = {Placed(<<n, 1>>) : n \in F}
      BY <2>1, <3>2
    <3> QED
      BY <3>1, <3>3
  <2>4. \A n \in F : n = <<n[1]>> /\ \A place : <<place, n[1]>>[2] = n[1]
    BY <1>2
  <2>5. ASSUME NEW n \in F PROVE n \in {<<p[2]>> : p \in Joined(F)}
    <3>1. <<Place(<<n, 1>>), n[1]>> \in Joined(F)
      BY <2>3
    <3> QED
      BY <2>4, <3>1
  <2>6. ASSUME NEW p \in Joined(F) PROVE <<p[2]>> \in F
    <3>1. PICK n \in F : p = <<Place(<<n, 1>>), n[1]>>
      BY <2>3
    <3> QED
      BY <2>4, <3>1
  <2> QED
    BY <2>5, <2>6
<1>4. ASSUME NEW F \in FailureSets, NEW G \in FailureSets, Joined(F) = Joined(G) PROVE F = G
  BY <1>3, <1>4
<1> QED
  BY <1>1, <1>4 DEF DistinctJoins

LEMMA RedIsUnhealthy ==
    ASSUME TypeOK, FailuresAreNamed, NEW b \in Finished
    PROVE  /\ build[b].tests = 0 => build[b].failing = {}
           /\ FailedNames(b) = build[b].failing
           /\ Red(b) <=> JunitUnhealthy(b)
<1>1. build[b] \in Outcomes
  <2>1. b \in Builds /\ build[b].state = "finished"
    BY DEF Finished
  <2>2. build[b] \in Outcomes \cup {NotFinished("none"), NotFinished("running")}
    BY <2>1 DEF TypeOK
  <2>3. build[b] # NotFinished("none") /\ build[b] # NotFinished("running")
    BY <2>1 DEF NotFinished
  <2> QED
    BY <2>2, <2>3
<1>2. CASE build[b].tests = 0 /\ build[b].failing = {}
  BY <1>2 DEF FailedNames, Red, JunitUnhealthy
<1>3. CASE build[b].tests = 1 /\ build[b].failing \in FailureSets
  <2>1. Nameless \notin build[b].failing
    BY <1>3 DEF FailuresAreNamed
  <2>2. FailedNames(b) = build[b].failing
    BY <2>1 DEF FailedNames
  <2> QED
    BY <1>3, <2>2 DEF Red, JunitUnhealthy
<1> QED
  BY <1>1, <1>2, <1>3 DEF Outcomes

LEMMA PatternIsSignature ==
    ASSUME TypeOK, FailuresAreNamed, DistinctJoins, NEW b \in Finished, NEW c \in Finished, Red(b)
    PROVE  SamePattern(b, c) <=> Red(c) /\ JunitFailureSignature(c) = JunitFailureSignature(b)
<1>1. FailedNames(b) = build[b].failing /\ FailedNames(c) = build[c].failing
  BY RedIsUnhealthy
<1>4. \A r \in Finished : build[r].tests # 0 => build[r].failing \in FailureSets
  <2> SUFFICES ASSUME NEW r \in Finished, build[r].tests # 0 PROVE build[r].failing \in FailureSets
    OBVIOUS
  <2>1. r \in Builds /\ build[r].state = "finished"
    BY DEF Finished
  <2>2. build[r] \in Outcomes \cup {NotFinished("none"), NotFinished("running")}
    BY <2>1 DEF TypeOK
  <2>3. build[r] \in Outcomes
    BY <2>1, <2>2 DEF NotFinished
  <2> QED
    BY <2>3 DEF Outcomes
<1>2. CASE build[b].tests = 0
  BY <1>2 DEF SamePattern, JunitFailureSignature, Red
<1>3. CASE build[b].tests # 0
  <2>1. CASE build[c].tests = 0
    BY <1>3, <2>1 DEF SamePattern, JunitFailureSignature, Red
  <2>2. CASE build[c].tests # 0
    <3>1. Joined(build[c].failing) = Joined(build[b].failing) <=> build[c].failing = build[b].failing
      BY <1>3, <1>4, <2>2 DEF DistinctJoins
    <3>2. JunitFailureSignature(c) = JunitFailureSignature(b) <=> build[c].failing = build[b].failing
      BY <1>1, <1>3, <2>2, <3>1 DEF JunitFailureSignature
    <3> QED
      BY <1>3, <2>2, <3>2 DEF SamePattern, Red
  <2> QED
    BY <2>1, <2>2
<1> QED
  BY <1>2, <1>3

LEMMA JudgeAgrees ==
    ASSUME TypeOK, FailuresAreNamed, DistinctJoins, NEW S \in SUBSET Finished
    PROVE  HighestCount(S) >= FailedRunsThreshold <=> FailAlike(S)
<1> DEFINE unhealthy == {b \in S : JunitUnhealthy(b)}
           Alike(b)  == {c \in unhealthy : JunitFailureSignature(c) = JunitFailureSignature(b)}
           counts    == {0} \cup {Cardinality(Alike(b)) : b \in unhealthy}
<1>0. S \in SUBSET Builds
  BY ListedAreBuilds
<1>1. \A b \in S : Red(b) <=> b \in unhealthy
  BY RedIsUnhealthy
<1>2. \A b \in unhealthy : Alike(b) = {c \in S : SamePattern(b, c)}
  <2> SUFFICES ASSUME NEW b \in unhealthy, NEW c \in S
               PROVE  c \in Alike(b) <=> SamePattern(b, c)
    OBVIOUS
  <2>1. b \in Finished /\ c \in Finished /\ Red(b) /\ (Red(c) <=> c \in unhealthy)
    BY <1>1
  <2>2. SamePattern(b, c) <=> Red(c) /\ JunitFailureSignature(c) = JunitFailureSignature(b)
    BY <2>1, PatternIsSignature
  <2> QED
    BY <2>1, <2>2
<1>3. \A b \in unhealthy : Cardinality(Alike(b)) \in 0..MaxBuilds
  <2> TAKE b \in unhealthy
  <2>1. Alike(b) \in SUBSET Builds
    BY <1>0
  <2> QED
    BY <2>1, SetsOfBuilds
<1>4. counts \in SUBSET (0..MaxBuilds) /\ counts # {}
  <2> HIDE DEF Alike, unhealthy
  <2>1. 0 \in 0..MaxBuilds
    OBVIOUS
  <2> QED
    BY <1>3, <2>1
<1>5. Max(counts) \in counts /\ \A m \in counts : Max(counts) >= m
  <2> HIDE DEF counts
  <2> QED
    BY <1>4, MaxIsGreatest
<1>6. HighestCount(S) = Max(counts)
  BY DEF HighestCount
<1>7. ASSUME Max(counts) >= FailedRunsThreshold PROVE FailAlike(S)
  <2>1. Max(counts) # 0
    BY <1>7
  <2>2. PICK b \in unhealthy : Max(counts) = Cardinality(Alike(b))
    BY <1>5, <2>1
  <2>3. b \in S /\ Red(b)
    BY <1>1
  <2>4. Cardinality({c \in S : SamePattern(b, c)}) >= FailedRunsThreshold
    BY <1>2, <1>7, <2>2
  <2> QED
    BY <2>3, <2>4 DEF FailAlike
<1>8. ASSUME FailAlike(S) PROVE Max(counts) >= FailedRunsThreshold
  <2>1. PICK b \in S : Red(b) /\ Cardinality({c \in S : SamePattern(b, c)}) >= FailedRunsThreshold
    BY <1>8 DEF FailAlike
  <2>2. b \in unhealthy
    BY <1>1, <2>1
  <2>3. Cardinality(Alike(b)) >= FailedRunsThreshold /\ Cardinality(Alike(b)) \in 0..MaxBuilds
    BY <1>2, <1>3, <2>1, <2>2
  <2>4. Max(counts) >= Cardinality(Alike(b)) /\ Max(counts) \in 0..MaxBuilds
    <3>1. Cardinality(Alike(b)) \in counts
      BY <2>2
    <3> HIDE DEF counts
    <3> QED
      BY <1>4, <1>5, <3>1
  <2>5. \A n, m \in 0..MaxBuilds : n >= m /\ m >= FailedRunsThreshold => n >= FailedRunsThreshold
    OBVIOUS
  <2> HIDE DEF counts, Alike
  <2> QED
    BY <2>3, <2>4, <2>5
<1> QED
  BY <1>6, <1>7, <1>8

--------------------------------------------------------------------------------
(***************************************************************************)
(* Theorems.                                                                *)
(***************************************************************************)

LEMMA ProbesKeepTrack == Spec => []ProbeInv
  BY InvInit, InvStep, PTL DEF Spec

\* Bucket, probe and history have their types in every reachable state: TypeOK.
THEOREM TypeCorrect == Spec => []TypeOK
<1>1. ProbeInv => TypeOK
  BY DEF ProbeInv
<1> QED
  BY <1>1, ProbesKeepTrack, PTL

\* A job whose builds follow each other, one of which has finished and is known when the
\* probe begins, is never answered with an error unless a GET fails: SequentialRunsAreJudged,
\* of ProbeJUnit and the functions it calls, however many runs are judged.
THEOREM SequentialJobsAreJudged == Spec => []SequentialRunsAreJudged
<1>1. ProbeInv => SequentialRunsAreJudged
  BY DEF ProbeInv, Answered
<1> QED
  BY <1>1, ProbesKeepTrack, PTL

\* When several runs are judged, every verdict rests on the newest run that was finished
\* when the probe began or on a newer one, whatever starts and finishes on the way:
\* NewestIsJudged, of listBuildIDs, filterFinished and the cut to historyRuns.
THEOREM VerdictsAreRecent ==
    ASSUME HistoryRuns # 1
    PROVE  Spec => []NewestIsJudged
<1>1. ProbeInv => NewestIsJudged
  BY DEF ProbeInv, Answered
<1> QED
  BY <1>1, ProbesKeepTrack, PTL

LEMMA QuietStep ==
    ASSUME HistoryRuns # 1, FailuresAreNamed, DistinctJoins, ProbeInv, ProbeInv', QuietVerdictsAreRight, [Next]_vars
    PROVE  QuietVerdictsAreRight'
<1>1. CASE Job
  <2>1. Grows
    BY <1>1, JobGrows DEF ProbeInv
  <2>2. ~moved' => ~moved /\ Failing' = Failing
    BY <2>1, VerdictsLast DEF Grows
  <2> QED
    BY <2>1, <2>2 DEF Grows, QuietVerdictsAreRight, Judged, Says
<1>2. CASE Judge
  <2>1. UNCHANGED <<bucket, history>> /\ probe.pc = "fetch"
    BY <1>2 DEF Judge, At
  <2>2. moved' = moved /\ Finished' = Finished /\ build' = build
    BY <2>1, Still
  <2>3. Failing' = Failing
    BY <2>2, VerdictsLast
  <2>4. SUFFICES ASSUME ~moved PROVE Judged' => (Says("failing")' <=> Failing)
    BY <2>2, <2>3 DEF QuietVerdictsAreRight
  <2>5. probe.ids \subseteq Finished /\ probe.ids = Newest(HistoryRuns, Finished)
    BY <2>1, <2>4 DEF ProbeInv, Selected
  <2>6. HighestCount(probe.ids) >= FailedRunsThreshold <=> Failing
    BY <2>5, JudgeAgrees DEF ProbeInv, Failing
  <2>7. probe'.pc = "done"
        /\ probe'.verdict = IF HighestCount(probe.ids) >= FailedRunsThreshold THEN "failing" ELSE "Healthy"
    BY <1>2, <2>5 DEF Judge, Answer
  <2> QED
    BY <2>6, <2>7 DEF Judged, Says
<1>3. CASE FetchFails
  BY <1>3 DEF FetchFails, Answer, QuietVerdictsAreRight, Judged, Says
<1>4. CASE UNCHANGED vars
  <2>1. probe' = probe /\ moved' = moved /\ build' = build /\ Finished' = Finished
    BY <1>4 DEF vars, Finished
  <2> QED
    BY <2>1, VerdictsLast DEF QuietVerdictsAreRight, Judged, Says
<1>5. CASE BeginProbe
  BY <1>5 DEF BeginProbe, QuietVerdictsAreRight, Judged, Says
<1>6. CASE FetchLatest \/ CheckBuildStaleness \/ IsLatestFinished \/ FindPreviousBuildID
           \/ CheckPreviousStaleness \/ ListBuildIDs \/ CheckNext \/ SelectRuns
  <2>1. probe \in Probing /\ probe.pc # "done"
    BY <1>6, ProbingType DEF FetchLatest, CheckBuildStaleness, IsLatestFinished, FindPreviousBuildID,
       CheckPreviousStaleness, ListBuildIDs, CheckNext, SelectRuns, At, ProbeInv
  <2> DEFINE Error == Answer("error", {}) \/ Answer("stale", {})
  <2>2. Error => QuietVerdictsAreRight'
    BY DEF Answer, QuietVerdictsAreRight, Judged, Says
  <2>3. probe'.pc # "done" => QuietVerdictsAreRight'
    BY DEF QuietVerdictsAreRight, Judged, Says
  <2> HIDE DEF Error
  <2>4. CASE FetchLatest
    <3>1. Error \/ probe'.pc = "started"
      BY <2>1, <2>4 DEF FetchLatest, Probing, Error
    <3> QED
      BY <2>2, <2>3, <3>1
  <2>5. CASE CheckBuildStaleness \/ CheckPreviousStaleness
    <3>1. Error \/ probe'.pc = "finished" \/ probe'.pc = "list"
      BY <2>1, <2>5 DEF CheckBuildStaleness, CheckPreviousStaleness, Goto, Probing, Error
    <3> QED
      BY <2>2, <2>3, <3>1
  <2>6. CASE IsLatestFinished \/ FindPreviousBuildID
    <3>1. Error \/ probe'.pc = "list" \/ probe'.pc = "previous" \/ probe'.pc = "startedPrevious"
      BY <2>1, <2>6 DEF IsLatestFinished, FindPreviousBuildID, Goto, Probing, Error
    <3> QED
      BY <2>2, <2>3, <3>1
  <2>7. CASE ListBuildIDs \/ SelectRuns
    <3>1. Error \/ probe'.pc = "check" \/ probe'.pc = "fetch"
      BY <2>1, <2>7 DEF ListBuildIDs, SelectRuns, Probing, Error
    <3> QED
      BY <2>2, <2>3, <3>1
  <2>8. CASE CheckNext
    <3>1. Error \/ probe'.pc = "check"
      BY <2>1, <2>8 DEF CheckNext, At, Probing, Error
    <3> QED
      BY <2>2, <2>3, <3>1
  <2> QED
    BY <1>6, <2>4, <2>5, <2>6, <2>7, <2>8
<1> QED
  BY <1>1, <1>2, <1>3, <1>4, <1>5, <1>6 DEF Next, Job

\* When several runs are judged, every failing test case has a name and no two failing sets
\* read the same when joined with commas, a probe during which no build finishes says
\* "failing" exactly when the job's last historyRuns finished runs fail alike, whichever
\* builds start meanwhile and however late latest-build.txt is: QuietVerdictsAreRight, of
\* Probe with junitFailureSignature.
THEOREM QuietVerdicts ==
    ASSUME HistoryRuns # 1, FailuresAreNamed, DistinctJoins
    PROVE  Spec => []QuietVerdictsAreRight
<1>1. Init => QuietVerdictsAreRight
  BY DEF Init, Done, QuietVerdictsAreRight, Judged, Says
<1>2. ProbeInv /\ ProbeInv' /\ QuietVerdictsAreRight /\ [Next]_vars => QuietVerdictsAreRight'
  BY QuietStep
<1> QED
  BY <1>1, <1>2, ProbesKeepTrack, PTL DEF Spec

\* The same for any failing sets of named test cases if no name has a comma in it, which
\* strings.Join does not escape.
COROLLARY PlainQuietVerdicts ==
    ASSUME HistoryRuns # 1, \A F \in FailureSets : \A n \in F : Len(n) = 1
    PROVE  Spec => []QuietVerdictsAreRight
  BY PlainNamesJoinApart, QuietVerdicts
================================================================================
