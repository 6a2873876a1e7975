---------------------------- MODULE ProbeCycleProofs -----------------------------
(***************************************************************************)
(* Theorems about ProbeCycle for any configuration files: whatever arrives  *)
(* in whichever order.                                                      *)
(***************************************************************************)
EXTENDS ProbeCycle, MergeProofs

--------------------------------------------------------------------------------
(***************************************************************************)
(* The most critical of the failed queries of a Prometheus prober.          *)
(***************************************************************************)
\* The most critical severity of the first n queries.
LEMMA CriticalFolds ==
    ASSUME NEW R, NEW seq \in Seq(R)
    PROVE  \E f : /\ f[0] = ""
                  /\ \A n \in 1..Len(seq) : f[n - 1] \in ({""} \cup {q.severity : q \in R}) /\ f[n] = MostCritical(f[n - 1], seq[n])
                  /\ FoldLeft(MostCritical, "", seq) = f[Len(seq)] /\ f[Len(seq)] \in ({""} \cup {q.severity : q \in R})
<1> DEFINE k == Len(seq)
      T == ({""} \cup {q.severity : q \in R})
      step == [p \in T \X (1..k) |-> MostCritical(p[1], seq[p[2]])]
      Solves(h) == h = [s \in SUBSET DOMAIN seq |->
          IF s = {} THEN "" ELSE MostCritical(h[s \ {Max(s)}], seq[Max(s)])]
<1>1. k \in Nat /\ DOMAIN seq = 1..k /\ \A i \in 1..k : seq[i] \in R
  OBVIOUS
<1>2. "" \in T /\ step \in [T \X (1..k) -> T]
  BY <1>1 DEF MostCritical
<1>3. PICK h : Recurses(h, k, T, "", step)
  <2> HIDE DEF k, T, step
  <2> QED
    BY <1>1, <1>2, FoldExists
<1>4. Solves(h)
  <2>1. ASSUME NEW s \in SUBSET (1..k)
        PROVE  h[s] = IF s = {} THEN "" ELSE MostCritical(h[s \ {Max(s)}], seq[Max(s)])
    <3>1. CASE s = {}
      BY <1>3, <3>1 DEF Recurses
    <3>2. CASE s # {}
      <4>1. Max(s) \in 1..k /\ h[s \ {Max(s)}] \in T
        BY <1>1, <1>3, <3>2, MaxIsGreatest DEF Recurses
      <4> QED
        BY <1>3, <3>2, <4>1 DEF Recurses
    <3> QED
      BY <3>1, <3>2
  <2> QED
    BY <1>1, <1>3, <2>1 DEF Recurses
<1> DEFINE g == CHOOSE h1 : Solves(h1)
      f == [n \in 0..k |-> g[1..n]]
<1>5. Solves(g)
  BY <1>4
<1>6. FoldLeft(MostCritical, "", seq) = g[1..k]
  <2>1. FoldLeft(MostCritical, "", seq) = g[DOMAIN seq]
    BY DEF FoldLeft, MapThenFoldSet
  <2> HIDE DEF g, k
  <2> QED
    BY <1>1, <2>1
<1>7. g[{}] = "" /\ \A n \in 1..k : g[1..n] = MostCritical(g[1..(n - 1)], seq[n])
  <2> HIDE DEF g
  <2>1. g = [s \in SUBSET (1..k) |-> IF s = {} THEN "" ELSE MostCritical(g[s \ {Max(s)}], seq[Max(s)])]
    BY <1>1, <1>5
  <2>2. g[{}] = ""
    BY <2>1
  <2>3. ASSUME NEW n \in 1..k PROVE g[1..n] = MostCritical(g[1..(n - 1)], seq[n])
    <3> HIDE DEF k
    <3>1. Max(1..n) = n /\ (1..n) \ {n} = 1..(n - 1) /\ (1..n) \in SUBSET (1..k) /\ (1..n) # {}
      BY <1>1, Interval
    <3> QED
      BY <2>1, <3>1
  <2> QED
    BY <2>2, <2>3
<1>8. \A n \in 0..k : f[n] = g[1..n]
  OBVIOUS
<1> HIDE DEF f, g, k
<1>9. f[0] = "" /\ FoldLeft(MostCritical, "", seq) = f[k]
  <2>1. 0 \in 0..k /\ k \in 0..k /\ 1..0 = {}
    BY <1>1
  <2> QED
    BY <1>6, <1>7, <1>8, <2>1
<1>10. ASSUME NEW n \in 1..k
      PROVE  f[n] = MostCritical(f[n - 1], seq[n])
  <2>1. n \in 0..k /\ n - 1 \in 0..k
    BY <1>1
  <2> QED
    BY <1>7, <1>8, <2>1
<1>C. \A a \in T, n \in 1..k : MostCritical(a, seq[n]) \in T
  BY <1>1 DEF MostCritical
<1> HIDE DEF T, step, Solves
<1>11. \A n \in 0..k : f[n] \in T
  <2> DEFINE Good == {i \in 0..k : f[i] \in T}
  <2>1. 0 \in Good
    <3>1. 0 \in 0..k
      BY <1>1
    <3>2. f[0] \in T
      BY <1>2, <1>9
    <3> QED
      BY <3>1, <3>2
  <2>2. ASSUME NEW n \in 1..k, n - 1 \in Good PROVE n \in Good
    <3>1. f[n - 1] \in T /\ n \in 0..k
      BY <1>1, <2>2
    <3>2. f[n] \in T
      BY <1>10, <1>C, <3>1
    <3> QED
      BY <3>1, <3>2
  <2>3. \A n \in 0..k : n \in Good
    <3> HIDE DEF Good
    <3> QED
      BY <1>1, <2>1, <2>2, UpTo
  <2> QED
    BY <2>3
<1>12. \A n \in 1..k : f[n - 1] \in T
  <2> SUFFICES ASSUME NEW n \in 1..k PROVE f[n - 1] \in T
    OBVIOUS
  <2>1. n - 1 \in 0..k
    BY <1>1
  <2> HIDE DEF T
  <2> QED
    BY <1>11, <2>1
<1>13. f[k] \in T
  <2>1. k \in 0..k
    BY <1>1
  <2> QED
    BY <1>11, <2>1
<1>14. k = Len(seq)
  BY DEF k
<1> QED
  BY <1>9, <1>10, <1>12, <1>13, <1>14 DEF T

\* The severity of several failed queries is the most critical one.
LEMMA MostCriticalOfAll ==
    ASSUME NEW R, NEW seq \in Seq(R)
    PROVE  LET worst == FoldLeft(MostCritical, "", seq)
           IN  /\ \A q \in Range(seq) : GetSeverityLevel(worst) >= GetSeverityLevel(q.severity)
               /\ worst = "" \/ worst \in Severities
<1> DEFINE k == Len(seq)
      worst == FoldLeft(MostCritical, "", seq)
<1>1. PICK f : /\ f[0] = ""
               /\ \A n \in 1..k : f[n] = MostCritical(f[n - 1], seq[n])
               /\ worst = f[k]
  BY CriticalFolds
<1>2. k \in Nat /\ DOMAIN seq = 1..k
  OBVIOUS
<1> HIDE DEF k, worst
<1> DEFINE Covers(n) ==
        /\ \A i \in 1..n : GetSeverityLevel(f[n]) >= GetSeverityLevel(seq[i].severity)
        /\ f[n] = "" \/ f[n] \in Severities
      Good == {n \in 0..k : Covers(n)}
<1>3. 0 \in Good
  <2>1. 0 \in 0..k /\ 1..0 = {}
    BY <1>2
  <2> QED
    BY <1>1, <2>1
<1>4. ASSUME NEW n \in 1..k, n - 1 \in Good PROVE n \in Good
  <2>1. Covers(n - 1) /\ n \in 0..k
    <3>1. Covers(n - 1)
      BY <1>4
    <3>2. n \in 0..k
      BY <1>2
    <3> QED
      BY <3>1, <3>2
  <2>2. \A i \in 1..n : i \in 1..(n - 1) \/ i = n
    BY <1>2
  <2>3. f[n] = IF GetSeverityLevel(seq[n].severity) > GetSeverityLevel(f[n - 1]) THEN seq[n].severity ELSE f[n - 1]
    BY <1>1 DEF MostCritical
  <2>4. /\ GetSeverityLevel(f[n - 1]) \in 0..4 /\ GetSeverityLevel(seq[n].severity) \in 0..4
        /\ GetSeverityLevel(seq[n].severity) > 0 => seq[n].severity \in Severities
    BY Levels
  <2>5. CASE GetSeverityLevel(seq[n].severity) > GetSeverityLevel(f[n - 1])
    <3>1. f[n] = seq[n].severity
      BY <2>3, <2>5
    <3>2. f[n] \in Severities
      BY <2>4, <2>5, <3>1
    <3>3. ASSUME NEW i \in 1..n PROVE GetSeverityLevel(f[n]) >= GetSeverityLevel(seq[i].severity)
      <4>1. CASE i = n
        BY <2>4, <3>1, <4>1
      <4>2. CASE i \in 1..(n - 1)
        <5>1. GetSeverityLevel(f[n - 1]) >= GetSeverityLevel(seq[i].severity) /\ GetSeverityLevel(seq[i].severity) \in 0..4
          BY <2>1, <4>2, Levels
        <5> QED
          BY <2>4, <2>5, <3>1, <5>1
      <4> QED
        BY <2>2, <4>1, <4>2
    <3> QED
      BY <2>1, <3>2, <3>3
  <2>6. CASE ~(GetSeverityLevel(seq[n].severity) > GetSeverityLevel(f[n - 1]))
    <3>1. f[n] = f[n - 1]
      BY <2>3, <2>6
    <3>2. ASSUME NEW i \in 1..n PROVE GetSeverityLevel(f[n]) >= GetSeverityLevel(seq[i].severity)
      <4>1. CASE i = n
        BY <2>4, <2>6, <3>1, <4>1
      <4>2. CASE i \in 1..(n - 1)
        BY <2>1, <3>1, <4>2
      <4> QED
        BY <2>2, <4>1, <4>2
    <3> QED
      BY <2>1, <3>1, <3>2
  <2> QED
    BY <2>5, <2>6
<1>5. \A n \in 0..k : n \in Good
  <2> HIDE DEF Good
  <2> QED
    BY <1>2, <1>3, <1>4, UpTo
<1>6. Covers(k)
  <2>1. k \in 0..k
    BY <1>2
  <2> QED
    BY <1>5, <2>1
<1> QED
  BY <1>1, <1>2, <1>6 DEF Range, worst

--------------------------------------------------------------------------------
(***************************************************************************)
(* What an accepted configuration file leads to.                            *)
(***************************************************************************)

LEMMA ComponentsOfFile ==
    ASSUME NEW f \in Files, NEW i \in DOMAIN f.components
    PROVE  f.components[i].monitors \subseteq Monitors /\ IsFiniteSet(f.components[i].monitors)
<1> DEFINE R == [sub : STRING, monitors : SUBSET Monitors]
<1>1. f.components \in Seq(R)
  BY FilesAssumption DEF FilesAssumption
<1>2. f.components[i] \in R
  <2> HIDE DEF R
  <2> QED
    BY <1>1
<1>3. f.components[i].monitors \in SUBSET Monitors
  BY <1>2
<1>4. IsFiniteSet(f.components[i].monitors)
  BY FilesAssumption DEF FilesAssumption
<1> QED
  BY <1>3, <1>4

\* Accepted locations with one key have one address.
LEMMA KeysTellAddresses ==
    ASSUME NEW k, NEW l, AcceptsLocation(k), AcceptsLocation(l),
           GetPrometheusLocationKey(k) = GetPrometheusLocationKey(l)
    PROVE  Address(k) = Address(l)
<1>1. InCluster # ""
  BY DEF InCluster
<1>2. CASE k.url # "" /\ l.url # ""
  <2>1. k.url = l.url
    BY <1>2 DEF GetPrometheusLocationKey
  <2>2. k.cluster = "" /\ l.cluster = ""
    BY <1>2 DEF AcceptsLocation
  <2> QED
    BY <2>1, <2>2 DEF Address
<1>3. CASE k.url = "" /\ l.url = ""
  <2>1. \/ {k.cluster, k.namespace, k.route, k.service} = {""}
        \/ k.namespace # "" /\ (k.cluster = InCluster <=> k.service # "")
    BY <1>3 DEF AcceptsLocation
  <2>2. \/ {l.cluster, l.namespace, l.route, l.service} = {""}
        \/ l.namespace # "" /\ (l.cluster = InCluster <=> l.service # "")
    BY <1>3 DEF AcceptsLocation
  <2>3. GetPrometheusLocationKey(k) = <<k.cluster, k.namespace, IF k.cluster = InCluster THEN k.service ELSE k.route>>
    BY <1>3 DEF GetPrometheusLocationKey
  <2>4. GetPrometheusLocationKey(l) = <<l.cluster, l.namespace, IF l.cluster = InCluster THEN l.service ELSE l.route>>
    BY <1>3 DEF GetPrometheusLocationKey
  <2> DEFINE a == <<k.cluster, k.namespace, IF k.cluster = InCluster THEN k.service ELSE k.route>>
        b == <<l.cluster, l.namespace, IF l.cluster = InCluster THEN l.service ELSE l.route>>
  <2>6. a = b
    BY <2>3, <2>4
  <2>7. a[1] = b[1] /\ a[2] = b[2] /\ a[3] = b[3]
    <3> HIDE DEF a, b
    <3> QED
      BY <2>6
  <2>5. /\ k.cluster = l.cluster /\ k.namespace = l.namespace
        /\ (IF k.cluster = InCluster THEN k.service ELSE k.route) = (IF l.cluster = InCluster THEN l.service ELSE l.route)
    BY <2>7
  <2> QED
    BY <1>3, <2>5 DEF Address
<1>4. ASSUME NEW x, NEW y, x.url # "", y.url = "", GetPrometheusLocationKey(x) = GetPrometheusLocationKey(y)
      PROVE  FALSE
  <2>1. GetPrometheusLocationKey(x) = <<x.url>>
    BY <1>4 DEF GetPrometheusLocationKey
  <2>2. GetPrometheusLocationKey(y) = <<y.cluster, y.namespace, IF y.cluster = InCluster THEN y.service ELSE y.route>>
    BY <1>4 DEF GetPrometheusLocationKey
  <2>3. Len(GetPrometheusLocationKey(x)) = 1 /\ Len(GetPrometheusLocationKey(y)) = 3
    BY <2>1, <2>2
  <2>4. Len(GetPrometheusLocationKey(x)) = Len(GetPrometheusLocationKey(y))
    BY <1>4
  <2> QED
    BY <2>3, <2>4
<1> QED
  BY <1>2, <1>3, <1>4

\* A Prometheus prober asks where its location says.
LEMMA ClientsAreRight ==
    ASSUME NEW f \in Files, Accepts(f), NEW i \in DOMAIN f.components,
           NEW m \in f.components[i].monitors, m.kind = "prometheus"
    PROVE  CreatePrometheusClients(f)[GetPrometheusLocationKey(m.location)] = Address(m.location)
<1> DEFINE locations == {x.location : x \in PrometheusMonitors(f)}
      key == GetPrometheusLocationKey(m.location)
      chosen == CHOOSE l \in locations : GetPrometheusLocationKey(l) = key
<1>1. ASSUME NEW l \in locations PROVE AcceptsLocation(l)
  <2>1. PICK x \in PrometheusMonitors(f) : l = x.location
    OBVIOUS
  <2>2. PICK j \in DOMAIN f.components : x \in f.components[j].monitors
    BY DEF PrometheusMonitors
  <2>3. x.kind = "prometheus"
    BY DEF PrometheusMonitors
  <2>4. AcceptsPrometheus(x)
    BY <2>2, <2>3 DEF Accepts
  <2> QED
    BY <2>1, <2>4 DEF AcceptsPrometheus
<1>2. m.location \in locations
  BY DEF PrometheusMonitors
<1>3. chosen \in locations /\ GetPrometheusLocationKey(chosen) = key
  BY <1>2
<1>4. Address(chosen) = Address(m.location)
  BY <1>1, <1>2, <1>3, KeysTellAddresses
<1>5. CreatePrometheusClients(f)[key] = Address(chosen)
  BY <1>2 DEF CreatePrometheusClients
<1> QED
  BY <1>4, <1>5

\* A monitor as its prober has it, with the defaults filled in.
Configured(f, m) ==
    \/ m \in HTTPMonitors
    \/ m \in UnitMonitors
    \/ m \in JUnitMonitors /\ m.failedRunsThreshold \in 1..m.historyRuns
    \/ /\ m \in QueryMonitors
       /\ CreatePrometheusClients(f)[GetPrometheusLocationKey(m.location)] = Address(m.location)

LEMMA DefaultsAreNames ==
    \A s \in SeverityNames : Default(s, "Down") \in SeverityNames /\ Default(s, "Degraded") \in SeverityNames
<1>1. "Down" \in SeverityNames /\ "Degraded" \in SeverityNames
  BY DEF SeverityNames, Severities
<1> QED
  BY <1>1 DEF Default

LEMMA DefaultsAreFilledIn ==
    ASSUME NEW f \in Files, Accepts(f), NEW i \in DOMAIN f.components,
           NEW m \in f.components[i].monitors
    PROVE  Configured(f, WithDefaults(m))
<1>1. m \in Monitors
  BY ComponentsOfFile
<1>2. CASE m \in HTTPMonitors
  <2>1. WithDefaults(m) = WithSeverity(m, "Down")
    BY <1>2 DEF WithDefaults, HTTPMonitors
  <2>2. WithDefaults(m) \in HTTPMonitors
    BY <1>2, <2>1, DefaultsAreNames DEF HTTPMonitors, WithSeverity
  <2> QED
    BY <2>2 DEF Configured
<1>3. CASE m \in UnitMonitors
  <2>1. WithDefaults(m) = WithSeverity(m, "Down")
    BY <1>3 DEF WithDefaults, UnitMonitors
  <2>2. WithDefaults(m) \in UnitMonitors
    BY <1>3, <2>1, DefaultsAreNames DEF UnitMonitors, WithSeverity
  <2> QED
    BY <2>2 DEF Configured
<1>4. CASE m \in JUnitMonitors
  <2> DEFINE runs == IF m.historyRuns <= 0 THEN 1 ELSE m.historyRuns
  <2>1. m.kind = "junit"
    BY <1>4 DEF JUnitMonitors
  <2> DEFINE d == WithSeverity(m, "Degraded")
  <2>2. WithDefaults(m) = [d EXCEPT !.historyRuns = runs,
                                    !.failedRunsThreshold = IF runs = 1 THEN 1 ELSE d.failedRunsThreshold]
    BY <2>1 DEF WithDefaults
  <2>8. d \in JUnitMonitors /\ d.failedRunsThreshold = m.failedRunsThreshold
    BY <1>4, DefaultsAreNames DEF JUnitMonitors, WithSeverity
  <2>9. runs \in Int
    BY <1>4 DEF JUnitMonitors
  <2> HIDE DEF d, runs
  <2>3. WithDefaults(m) \in JUnitMonitors
    BY <2>2, <2>8, <2>9 DEF JUnitMonitors
  <2>4. /\ WithDefaults(m).historyRuns = runs
        /\ WithDefaults(m).failedRunsThreshold = IF runs = 1 THEN 1 ELSE m.failedRunsThreshold
    BY <2>2, <2>8 DEF JUnitMonitors
  <2>5. AcceptsJUnit(m)
    BY <2>1 DEF Accepts
  <2>6. m.historyRuns \in Int /\ m.historyRuns >= 0 /\ (m.historyRuns > 1 => m.failedRunsThreshold \in 1..m.historyRuns)
    BY <1>4, <2>5 DEF AcceptsJUnit, JUnitMonitors
  <2>7. WithDefaults(m).failedRunsThreshold \in 1..WithDefaults(m).historyRuns
    <3>1. CASE m.historyRuns > 1
      BY <2>4, <2>6, <3>1 DEF runs
    <3>2. CASE ~(m.historyRuns > 1)
      BY <2>4, <2>6, <3>2 DEF runs
    <3> QED
      BY <3>1, <3>2
  <2> QED
    BY <2>3, <2>7 DEF Configured
<1>5. CASE m \in QueryMonitors
  <2> DEFINE queries == [j \in DOMAIN m.queries |-> WithSeverity(m.queries[j], "Down")]
  <2>1. m.kind = "prometheus" /\ m.queries \in Seq(PrometheusQueries)
    BY <1>5 DEF QueryMonitors
  <2>2. WithDefaults(m) = [m EXCEPT !.queries = queries]
    BY <2>1 DEF WithDefaults
  <2>3. ASSUME NEW q \in PrometheusQueries PROVE WithSeverity(q, "Down") \in PrometheusQueries
    BY DefaultsAreNames DEF PrometheusQueries, WithSeverity
  <2>4. queries \in Seq(PrometheusQueries)
    BY <2>1, <2>3
  <2> HIDE DEF queries
  <2>5. WithDefaults(m) \in QueryMonitors /\ WithDefaults(m).location = m.location
    BY <1>5, <2>2, <2>4 DEF QueryMonitors
  <2> QED
    BY <2>1, <2>5, ClientsAreRight DEF Configured
<1> QED
  BY <1>1, <1>2, <1>3, <1>4, <1>5 DEF Monitors

LEMMA ProbersAreConfigured ==
    ASSUME NEW f \in Files, Accepts(f), NEW g \in CreateProbers(f)
    PROVE  Configured(f, g.monitor)
<1>1. PICK i \in DOMAIN f.components :
        \E m \in f.components[i].monitors : g = [sub |-> f.components[i].sub, monitor |-> WithDefaults(m)]
  BY DEF CreateProbers
<1>2. PICK m \in f.components[i].monitors : g = [sub |-> f.components[i].sub, monitor |-> WithDefaults(m)]
  BY <1>1
<1> QED
  BY <1>2, DefaultsAreFilledIn

LEMMA FiniteImage ==
    ASSUME NEW S, IsFiniteSet(S), NEW f
    PROVE  IsFiniteSet({f[x] : x \in S})
<1> DEFINE T == {f[x] : x \in S}
      g == [x \in S |-> f[x]]
<1>1. g \in Surjection(S, T)
  BY DEF Surjection
<1> QED
  BY <1>1, FS_Surjection

LEMMA FinitelyManyProbers ==
    ASSUME NEW f \in Files
    PROVE  IsFiniteSet(CreateProbers(f))
<1> DEFINE Of(i) == {[sub |-> f.components[i].sub, monitor |-> WithDefaults(m)] : m \in f.components[i].monitors}
<1>1. f.components \in Seq([sub : STRING, monitors : SUBSET Monitors])
  BY FilesAssumption DEF FilesAssumption
<1>2. IsFiniteSet(DOMAIN f.components)
  <2>1. DOMAIN f.components = 1..Len(f.components) /\ Len(f.components) \in Nat
    BY <1>1
  <2> DEFINE n == Len(f.components)
  <2>2. n \in Int /\ 1 \in Int
    BY <2>1
  <2> HIDE DEF n
  <2>3. IsFiniteSet(1..n)
    BY <2>2, FS_Interval
  <2> QED
    BY <2>1, <2>3 DEF n
<1>3. ASSUME NEW i \in DOMAIN f.components PROVE IsFiniteSet(Of(i))
  <2>1. IsFiniteSet(f.components[i].monitors)
    BY ComponentsOfFile
  <2> DEFINE h == [m \in f.components[i].monitors |-> [sub |-> f.components[i].sub, monitor |-> WithDefaults(m)]]
  <2>2. IsFiniteSet({h[m] : m \in f.components[i].monitors})
    <3> HIDE DEF h
    <3> QED
      BY <2>1, FiniteImage
  <2>3. {h[m] : m \in f.components[i].monitors} = Of(i)
    OBVIOUS
  <2> QED
    BY <2>2, <2>3
<1>4. IsFiniteSet({Of(i) : i \in DOMAIN f.components})
  <2> DEFINE h == [i \in DOMAIN f.components |-> Of(i)]
  <2>1. IsFiniteSet({h[i] : i \in DOMAIN f.components})
    <3> HIDE DEF h
    <3> QED
      BY <1>2, FiniteImage
  <2>2. {h[i] : i \in DOMAIN f.components} = {Of(i) : i \in DOMAIN f.components}
    OBVIOUS
  <2> QED
    BY <2>1, <2>2
<1>5. IsFiniteSet(UNION {Of(i) : i \in DOMAIN f.components})
  BY <1>3, <1>4, FS_UNION
<1> QED
  BY <1>5 DEF CreateProbers

--------------------------------------------------------------------------------
(***************************************************************************)
(* The invariant: what each goroutine has found, and what was collected.    *)
(***************************************************************************)

\* What is asked by some prober, and the names of these checks.
AllQuestions == UNION {Range(Questions(g.monitor)) : g \in Probers}

Checks == {q.check : q \in AllQuestions}

Results ==
    [by : Probers, error : BOOLEAN, status : Severities \cup {"", "Healthy", "Invalid"}, reasons : Seq(Checks)]

Goroutines ==
    [pc : {"ask", "confirm", "send", "gone"}, at : Nat, failed : Seq(AllQuestions), until : Int,
     result : Results \cup {<<>>}]

MayBeDown(t) == truth[t] \in {"down", "changing"}

\* A prober's result is right about everything it asks: r has no error only if all could be
\* asked; then what is down is in it, and what is in it as failing is not up.
RightResult(g, r) ==
    /\ r \in Results /\ r.by = g
    /\ ~r.error =>
         /\ \A i \in DOMAIN Questions(g.monitor) :
              LET question == Questions(g.monitor)[i]
              IN  /\ truth[Target(g.monitor, i)] # "error"
                  /\ truth[Target(g.monitor, i)] = "down" =>
                        /\ Unhealthy(r)
                        /\ question.severity \in Severities =>
                              r.status \in Severities /\ Level(r.status) >= GetSeverityLevel(question.severity)
                        /\ question.check \in Range(r.reasons)
         /\ Unhealthy(r) =>
              /\ r.status \in Severities \cup {"Invalid"}
              /\ (\A q \in Range(Questions(g.monitor)) : q.severity \in Severities) => r.status \in Severities
              /\ r.reasons # <<>>
              /\ \A check \in Range(r.reasons) : \E i \in DOMAIN Questions(g.monitor) :
                    Questions(g.monitor)[i].check = check /\ MayBeDown(Target(g.monitor, i))

\* The first n queries were run: none failed to, those that are down have failed, and those
\* that have failed are not up.
Asked(g, n, failed) ==
    LET queries == g.monitor.queries
    IN  /\ \A i \in 1..n :
             /\ truth[Target(g.monitor, i)] # "error"
             /\ truth[Target(g.monitor, i)] = "down" => queries[i] \in Range(failed)
        /\ \A q \in Range(failed) : \E i \in 1..n : queries[i] = q /\ MayBeDown(Target(g.monitor, i))

SoundProbe(g) ==
    LET p == probe[g]
    IN  /\ p.pc = "ask" /\ g.monitor.kind = "prometheus" =>
             p.at \in 1..(Len(g.monitor.queries) + 1) /\ Asked(g, p.at - 1, p.failed)
        /\ p.pc = "confirm" => g.monitor.kind = "http" /\ p.until >= g.monitor.retryAfter
        /\ p.pc \in {"send", "gone"} => RightResult(g, p.result)

\* What was collected are the results of the probers that are gone, each once.
Collected ==
    /\ results \in Seq(Results)
    /\ \A i \in DOMAIN results :
         probe[results[i].by].pc = "gone" /\ results[i] = probe[results[i].by].result
    /\ \A i, j \in DOMAIN results : results[i].by = results[j].by => i = j

Running == pc \in {"collect", "send", "wait"}

TypeOK ==
    /\ pc \in {"load", "start", "collect", "send", "wait"}
    /\ canceled \in BOOLEAN
    /\ cause \in {"none", "complete", "timeout", "canceled"}
    /\ pc = "load" => probe = <<>>
    /\ pc # "load" => file \in Files /\ Accepts(file)
    /\ Running =>
         /\ clock \in Nat
         /\ DOMAIN truth = AllTargets /\ \A t \in AllTargets : truth[t] \in Conditions(t)
         /\ probe \in [Probers -> Goroutines]

CycleInv ==
    /\ TypeOK
    /\ Running => Collected /\ \A g \in Probers : SoundProbe(g)
    /\ pc \in {"send", "wait"} /\ cause = "complete" => AllHeard
    /\ pc = "wait" => report = MergeStatuses

\* What a single question finds out of a target.
LEMMA Answers ==
    ASSUME TypeOK, Running, NEW t \in AllTargets, NEW recovered \in BOOLEAN,
           NEW r \in Responses(t, recovered), r # "error"
    PROVE  /\ r \in {"up", "down"} /\ truth[t] # "error"
           /\ truth[t] = "down" => r = "down"
           /\ r = "down" => MayBeDown(t) \/ (truth[t] = "recovering" /\ ~recovered)
           /\ truth[t] = "recovering" => t[1] = [monitor |-> "http"]
<1>1. r \in Observations(truth[t], recovered)
  BY DEF Responses
<1>2. truth[t] \in Conditions(t)
  BY DEF TypeOK
<1>3. truth[t] \in {"up", "down", "error", "changing", "recovering"}
  BY <1>2 DEF Conditions
<1>4. truth[t] = "recovering" => t[1] = [monitor |-> "http"]
  BY <1>2 DEF Conditions
<1>5. CASE truth[t] = "changing"
  BY <1>1, <1>5 DEF Observations, MayBeDown
<1>6. CASE truth[t] = "recovering"
  BY <1>1, <1>4, <1>6 DEF Observations, MayBeDown
<1>7. CASE truth[t] \in {"up", "down", "error"}
  BY <1>1, <1>7 DEF Observations, MayBeDown
<1> QED
  BY <1>3, <1>4, <1>5, <1>6, <1>7

LEMMA ErredIsRight ==
    ASSUME NEW g \in Probers
    PROVE  RightResult(g, Erred(g))
<1>1. <<>> \in Seq(Checks)
  OBVIOUS
<1>2. Erred(g) \in Results
  BY <1>1 DEF Erred, Results
<1> QED
  BY <1>2 DEF Erred, RightResult

\* A monitor other than of Prometheus has one question.
LEMMA OneQuestion ==
    ASSUME NEW m, m.kind # "prometheus"
    PROVE  /\ Questions(m) = <<[check |-> m.check, severity |-> m.severity]>>
           /\ DOMAIN Questions(m) = {1}
           /\ Questions(m)[1].check = m.check /\ Questions(m)[1].severity = m.severity
           /\ Range(Questions(m)) = {[check |-> m.check, severity |-> m.severity]}
           /\ Target(m, 1) = <<[monitor |-> m.kind], m.check>>
           /\ Targets(m) = {Target(m, 1)}
<1>1. Questions(m) = <<[check |-> m.check, severity |-> m.severity]>>
  BY DEF Questions
<1>2. DOMAIN Questions(m) = {1}
  BY <1>1
<1>3. Questions(m)[1] = [check |-> m.check, severity |-> m.severity]
  BY <1>1
<1>4. Range(Questions(m)) = {Questions(m)[1]}
  BY <1>2 DEF Range
<1>5. Questions(m)[1].check = m.check /\ Questions(m)[1].severity = m.severity
  BY <1>3
<1>6. Target(m, 1) = <<[monitor |-> m.kind], m.check>>
  BY <1>5 DEF Target
<1>7. Targets(m) = {Target(m, 1)}
  BY <1>2 DEF Targets
<1> QED
  BY <1>1, <1>2, <1>3, <1>4, <1>5, <1>6, <1>7

LEMMA Asks ==
    ASSUME NEW g \in Probers, NEW i \in DOMAIN Questions(g.monitor)
    PROVE  /\ Target(g.monitor, i) \in AllTargets
           /\ Questions(g.monitor)[i] \in AllQuestions
           /\ Questions(g.monitor)[i].check \in Checks
<1>1. Target(g.monitor, i) \in AllTargets
  BY DEF AllTargets, Targets
<1>2. Questions(g.monitor)[i] \in AllQuestions
  BY DEF AllQuestions, Range
<1> QED
  BY <1>1, <1>2 DEF Checks

LEMMA StatusOfSeverity ==
    ASSUME NEW s
    PROVE  /\ ToStatus(s) \in Severities \cup {"Invalid"} /\ ToStatus(s) # "Healthy"
           /\ s \in Severities => ToStatus(s) = s /\ Level(s) = GetSeverityLevel(s)
BY Levels DEF ToStatus, InvalidStatus, Severities

\* The result of one check is right if it is what was found.
LEMMA StatusIsRight ==
    ASSUME NEW g \in Probers, g.monitor.kind # "prometheus", NEW failing \in BOOLEAN,
           truth[Target(g.monitor, 1)] # "error",
           truth[Target(g.monitor, 1)] = "down" => failing,
           failing => MayBeDown(Target(g.monitor, 1))
    PROVE  RightResult(g, MakeStatus(g, failing))
<1> DEFINE m == g.monitor
      r == MakeStatus(g, failing)
<1>1. /\ DOMAIN Questions(m) = {1}
      /\ Questions(m)[1].check = m.check /\ Questions(m)[1].severity = m.severity
      /\ Range(Questions(m)) = {[check |-> m.check, severity |-> m.severity]}
  BY OneQuestion
<1>2. m.check \in Checks
  BY <1>1, Asks
<1>3. /\ r.by = g /\ r.error = FALSE /\ r.reasons = <<m.check>>
      /\ r.status = IF failing THEN ToStatus(m.severity) ELSE "Healthy"
      /\ r = [by |-> r.by, error |-> r.error, status |-> r.status, reasons |-> r.reasons]
  BY DEF MakeStatus, Found
<1>4. <<m.check>> \in Seq(Checks) /\ Range(<<m.check>>) = {m.check} /\ <<m.check>> # <<>>
  <2>1. <<m.check>> \in Seq(Checks) /\ DOMAIN <<m.check>> = {1} /\ <<m.check>>[1] = m.check
    BY <1>2
  <2> QED
    BY <2>1 DEF Range
<1> HIDE DEF r, m
<1>5. r.status \in Severities \cup {"", "Healthy", "Invalid"}
  BY <1>3, StatusOfSeverity
<1>6. r \in Results
  BY <1>3, <1>4, <1>5 DEF Results, m
<1>7. Unhealthy(r) <=> failing
  BY <1>3, StatusOfSeverity DEF Unhealthy
<1>8. ASSUME failing
      PROVE  /\ r.status \in Severities \cup {"Invalid"}
             /\ m.severity \in Severities =>
                  r.status \in Severities /\ Level(r.status) >= GetSeverityLevel(m.severity)
  <2>1. r.status = ToStatus(m.severity)
    BY <1>3, <1>8
  <2>2. GetSeverityLevel(m.severity) \in 0..4
    BY Levels
  <2> QED
    BY <2>1, <2>2, StatusOfSeverity
<1>9. m.check \in Range(r.reasons) /\ r.reasons # <<>> /\ \A check \in Range(r.reasons) : check = m.check
  BY <1>3, <1>4
<1>10. (\A q \in Range(Questions(m)) : q.severity \in Severities) => m.severity \in Severities
  BY <1>1
<1>11. RightResult(g, r)
  BY <1>1, <1>3, <1>6, <1>7, <1>8, <1>9, <1>10 DEF RightResult, m
<1> QED
  BY <1>11 DEF r

\* What Prometheus says of the queries that ran is right.
LEMMA QueriesAreRight ==
    ASSUME NEW g \in Probers, g.monitor \in QueryMonitors,
           probe[g].failed \in Seq(AllQuestions),
           Asked(g, Len(g.monitor.queries), probe[g].failed)
    PROVE  RightResult(g, CreateStatusFromQueryResults(g))
<1> DEFINE m == g.monitor
      queries == m.queries
      failed == probe[g].failed
      Names(qs) == [i \in DOMAIN qs |-> qs[i].check]
      worst == FoldLeft(MostCritical, "", failed)
      r == CreateStatusFromQueryResults(g)
<1>1. m.kind = "prometheus" /\ queries \in Seq(PrometheusQueries) /\ Questions(m) = queries
  BY DEF QueryMonitors, Questions
<1>2. \A i \in DOMAIN queries : queries[i] \in AllQuestions /\ queries[i].check \in Checks
  BY <1>1, Asks
<1>3. DOMAIN queries = 1..Len(queries)
  BY <1>1
<1>4. r = IF failed = <<>> THEN Found(g, "Healthy", Names(queries)) ELSE Found(g, ToStatus(worst), Names(failed))
  BY DEF CreateStatusFromQueryResults
<1>5. Names(queries) \in Seq(Checks)
  <2> HIDE DEF queries
  <2> QED
    BY <1>1, <1>2
<1>6. /\ \A i \in DOMAIN queries :
           /\ truth[Target(m, i)] # "error"
           /\ truth[Target(m, i)] = "down" => queries[i] \in Range(failed)
      /\ \A q \in Range(failed) : \E i \in DOMAIN queries : queries[i] = q /\ MayBeDown(Target(m, i))
  BY <1>3 DEF Asked
<1>7. CASE failed = <<>>
  <2>1. r = Found(g, "Healthy", Names(queries))
    BY <1>4, <1>7
  <2>2. r \in Results /\ r.by = g /\ r.error = FALSE /\ ~Unhealthy(r)
    BY <1>5, <2>1 DEF Found, Results, Unhealthy
  <2>3. \A i \in DOMAIN queries : truth[Target(m, i)] # "down"
    <3>1. Range(failed) = {}
      BY <1>7 DEF Range
    <3> QED
      BY <1>6, <3>1
  <2> HIDE DEF r, failed, queries
  <2>4. RightResult(g, r)
    BY <1>1, <1>6, <2>2, <2>3 DEF RightResult
  <2> QED
    BY <2>4 DEF r
<1>8. CASE failed # <<>>
  <2>1. r = Found(g, ToStatus(worst), Names(failed))
    BY <1>4, <1>8
  <2>2. DOMAIN failed = 1..Len(failed) /\ Len(failed) \in Nat /\ failed[1] \in Range(failed) /\ 1 \in DOMAIN failed
    <3> HIDE DEF failed
    <3>1. failed \in Seq(AllQuestions)
      BY DEF failed
    <3>2. DOMAIN failed = 1..Len(failed) /\ Len(failed) \in Nat /\ Len(failed) # 0
      BY <1>8, <3>1
    <3>3. 1 \in DOMAIN failed
      BY <3>2
    <3> QED
      BY <3>2, <3>3 DEF Range
  <2>3. /\ \A q \in Range(failed) : GetSeverityLevel(worst) >= GetSeverityLevel(q.severity)
        /\ worst = "" \/ worst \in Severities
    BY MostCriticalOfAll
  <2>4. ASSUME NEW q \in Range(failed), q.severity \in Severities
        PROVE  worst \in Severities
    <3>1. GetSeverityLevel(worst) >= GetSeverityLevel(q.severity)
      BY <2>3
    <3>2. GetSeverityLevel(q.severity) > 0 /\ GetSeverityLevel(q.severity) \in 0..4 /\ GetSeverityLevel(worst) \in 0..4
      BY <2>4, Levels
    <3>3. GetSeverityLevel(worst) > 0
      <4> HIDE DEF worst, failed
      <4> QED
        BY <3>1, <3>2
    <3> QED
      BY <3>3, Levels
  <2>5. \A q \in Range(failed) : q.check \in Checks
    BY <1>2, <1>6
  <2>6. Range(Names(failed)) = {q.check : q \in Range(failed)}
    BY DEF Range
  <2>7. Names(failed) \in Seq(Checks) /\ Names(failed) # <<>>
    <3>1. \A i \in DOMAIN failed : failed[i].check \in Checks
      BY <2>5 DEF Range
    <3> HIDE DEF failed
    <3>2. Names(failed) \in Seq(Checks)
      BY <2>2, <3>1
    <3>3. DOMAIN Names(failed) # {}
      BY <2>2
    <3>4. DOMAIN <<>> = {}
      OBVIOUS
    <3> QED
      BY <3>2, <3>3, <3>4
  <2>8. /\ r.by = g /\ r.error = FALSE /\ r.status = ToStatus(worst) /\ r.reasons = Names(failed)
        /\ r = [by |-> r.by, error |-> r.error, status |-> r.status, reasons |-> r.reasons]
    <3> HIDE DEF r, worst, failed, Names
    <3> QED
      BY <2>1 DEF Found
  <2>9. /\ ToStatus(worst) \in Severities \cup {"Invalid"} /\ ToStatus(worst) # "Healthy"
        /\ worst \in Severities => ToStatus(worst) = worst /\ Level(worst) = GetSeverityLevel(worst)
    BY StatusOfSeverity
  <2> HIDE DEF r, worst, failed, Names, queries, m
  <2>10. r \in Results /\ Unhealthy(r)
    BY <2>7, <2>8, <2>9 DEF Results, Unhealthy
  <2>11. ASSUME NEW i \in DOMAIN queries
         PROVE  /\ truth[Target(m, i)] # "error"
                /\ truth[Target(m, i)] = "down" =>
                      /\ queries[i].severity \in Severities =>
                            r.status \in Severities /\ Level(r.status) >= GetSeverityLevel(queries[i].severity)
                      /\ queries[i].check \in Range(r.reasons)
    <3>1. truth[Target(m, i)] # "error"
      BY <1>6
    <3>2. ASSUME truth[Target(m, i)] = "down" PROVE queries[i] \in Range(failed)
      BY <1>6, <3>2
    <3>3. ASSUME queries[i] \in Range(failed), queries[i].severity \in Severities
          PROVE  r.status \in Severities /\ Level(r.status) >= GetSeverityLevel(queries[i].severity)
      <4>1. worst \in Severities
        BY <2>4, <3>3
      <4>2. r.status = worst /\ Level(worst) = GetSeverityLevel(worst)
        BY <2>8, <2>9, <4>1
      <4> QED
        BY <2>3, <3>3, <4>1, <4>2
    <3>4. ASSUME queries[i] \in Range(failed) PROVE queries[i].check \in Range(r.reasons)
      BY <2>6, <2>8, <3>4
    <3> QED
      BY <3>1, <3>2, <3>3, <3>4
  <2>12. (\A q \in Range(queries) : q.severity \in Severities) => r.status \in Severities
    <3> SUFFICES ASSUME \A q \in Range(queries) : q.severity \in Severities
                 PROVE  r.status \in Severities
      OBVIOUS
    <3>1. PICK i \in DOMAIN queries : queries[i] = failed[1]
      BY <1>6, <2>2
    <3>2. failed[1].severity \in Severities
      BY <3>1 DEF Range
    <3>3. worst \in Severities
      BY <2>2, <2>4, <3>2
    <3> QED
      BY <2>8, <2>9, <3>3
  <2>13. \A check \in Range(r.reasons) : \E i \in DOMAIN queries :
            queries[i].check = check /\ MayBeDown(Target(m, i))
    BY <1>6, <2>6, <2>8
  <2>14. RightResult(g, r)
    <3>1. r.reasons # <<>> /\ r.status \in Severities \cup {"Invalid"}
      BY <2>7, <2>8, <2>9
    <3>2. Questions(g.monitor) = queries
      BY <1>1 DEF m
    <3> QED
      BY <2>8, <2>10, <2>11, <2>12, <2>13, <3>1, <3>2 DEF RightResult, m
  <2> QED
    BY <2>14 DEF r
<1> QED
  BY <1>7, <1>8

--------------------------------------------------------------------------------
(***************************************************************************)
(* Steps of the probers.                                                    *)
(***************************************************************************)

\* A step that leaves the configuration and its targets alone.
LEMMA SameCycle ==
    ASSUME file' = file, truth' = truth
    PROVE  /\ Probers' = Probers /\ Subs' = Subs /\ AllTargets' = AllTargets
           /\ AllQuestions' = AllQuestions /\ Checks' = Checks
           /\ Results' = Results /\ Goroutines' = Goroutines
           /\ \A g, r : RightResult(g, r)' <=> RightResult(g, r)
           /\ \A g, n, failed : Asked(g, n, failed)' <=> Asked(g, n, failed)
<1>1. Probers' = Probers
  BY DEF Probers
<1>2. Subs' = Subs /\ AllTargets' = AllTargets /\ AllQuestions' = AllQuestions
  BY <1>1 DEF Subs, AllTargets, AllQuestions
<1>3. Checks' = Checks
  BY <1>2 DEF Checks
<1>4. Results' = Results
  BY <1>1, <1>3 DEF Results
<1>5. Goroutines' = Goroutines
  BY <1>2, <1>4 DEF Goroutines
<1>6. \A t : MayBeDown(t)' <=> MayBeDown(t)
  BY DEF MayBeDown
<1>7. \A g, r : RightResult(g, r)' <=> RightResult(g, r)
  BY <1>4, <1>6 DEF RightResult
<1>8. \A g, n, failed : Asked(g, n, failed)' <=> Asked(g, n, failed)
  BY <1>6 DEF Asked
<1> QED
  BY <1>1, <1>2, <1>3, <1>4, <1>5, <1>7, <1>8

LEMMA SameReport ==
    ASSUME file' = file, results' = results
    PROVE  MergeStatuses' = MergeStatuses /\ (AllHeard' <=> AllHeard)
<1>1. Probers' = Probers /\ Subs' = Subs
  BY DEF Probers, Subs
<1>2. \A s : ResultsOf(s)' = ResultsOf(s)
  BY DEF ResultsOf
<1> QED
  BY <1>1, <1>2 DEF MergeStatuses, AllHeard

\* Prober g moves to p and nothing else happens.
LEMMA ProberMoves ==
    ASSUME CycleInv, Running, NEW g \in Probers, probe[g].pc \in {"ask", "confirm"},
           NEW p \in Goroutines, probe' = [probe EXCEPT ![g] = p], SoundProbe(g)',
           UNCHANGED <<pc, file, truth, results, clock, canceled, cause, report>>
    PROVE  CycleInv'
<1>1. /\ Probers' = Probers /\ AllTargets' = AllTargets /\ Results' = Results /\ Goroutines' = Goroutines
      /\ \A h, r : RightResult(h, r)' <=> RightResult(h, r)
      /\ \A h, n, failed : Asked(h, n, failed)' <=> Asked(h, n, failed)
  BY SameCycle
<1>2. MergeStatuses' = MergeStatuses /\ (AllHeard' <=> AllHeard)
  BY SameReport
<1>3. TypeOK /\ Collected /\ (\A h \in Probers : SoundProbe(h)) /\ probe \in [Probers -> Goroutines]
  BY DEF CycleInv, TypeOK
<1>4. TypeOK'
  <2>1. probe' \in [Probers -> Goroutines]
    BY <1>3
  <2>2. pc # "load"
    BY DEF Running
  <2> QED
    BY <1>1, <1>3, <2>1, <2>2 DEF TypeOK, Running
<1>5. \A h \in Probers : h # g => probe'[h] = probe[h]
  BY <1>3
<1>6. ASSUME NEW h \in Probers PROVE SoundProbe(h)'
  <2>1. CASE h = g
    BY <2>1
  <2>2. CASE h # g
    <3>1. SoundProbe(h) /\ probe'[h] = probe[h]
      BY <1>3, <1>5, <2>2
    <3> QED
      BY <1>1, <3>1 DEF SoundProbe
  <2> QED
    BY <2>1, <2>2
<1>7. Collected'
  <2>1. ASSUME NEW i \in DOMAIN results
        PROVE  results[i].by \in Probers /\ results[i].by # g
    <3>1. results[i] \in Results
      BY <1>3 DEF Collected
    <3> QED
      BY <1>3, <3>1 DEF Collected, Results
  <2>2. \A i \in DOMAIN results : probe'[results[i].by] = probe[results[i].by]
    BY <1>5, <2>1
  <2> QED
    BY <1>1, <1>3, <2>2 DEF Collected
<1> QED
  BY <1>1, <1>2, <1>4, <1>6, <1>7 DEF CycleInv, Running

\* Prober g answers with a result that is right.
LEMMA AnswerIsRight ==
    ASSUME CycleInv, Running, NEW g \in Probers, probe[g].pc \in {"ask", "confirm"},
           NEW r, RightResult(g, r), Answer(g, r)
    PROVE  CycleInv'
<1> DEFINE p == [probe[g] EXCEPT !.pc = "send", !.result = r]
<1>1. probe \in [Probers -> Goroutines] /\ r \in Results
  BY DEF CycleInv, TypeOK, RightResult
<1>2. probe' = [probe EXCEPT ![g] = p]
  BY <1>1 DEF Answer
<1>3. p \in Goroutines /\ p.pc = "send" /\ p.result = r
  BY <1>1 DEF Goroutines
<1> HIDE DEF p
<1>4. probe'[g] = p
  BY <1>1, <1>2
<1>5. RightResult(g, r)'
  BY SameCycle DEF Answer
<1>6. SoundProbe(g)'
  BY <1>3, <1>4, <1>5 DEF SoundProbe
<1> QED
  BY <1>2, <1>3, <1>6, ProberMoves DEF Answer

LEMMA MonitorOfProber ==
    ASSUME TypeOK, Running, NEW g \in Probers
    PROVE  Configured(file, g.monitor)
<1>1. file \in Files /\ Accepts(file)
  BY DEF TypeOK, Running
<1> QED
  BY <1>1, ProbersAreConfigured DEF Probers

LEMMA KindsOfMonitors ==
    ASSUME TypeOK, Running, NEW g \in Probers
    PROVE  LET m == g.monitor
           IN  /\ m.kind \in {"http", "unit", "junit", "prometheus"}
               /\ m.kind = "http" => m.retryAfter \in Int
               /\ m.kind = "junit" => m.historyRuns \in Int /\ m.failedRunsThreshold \in 1..m.historyRuns
               /\ m.kind = "prometheus" =>
                    /\ m \in QueryMonitors
                    /\ CreatePrometheusClients(file)[GetPrometheusLocationKey(m.location)] = Address(m.location)
BY MonitorOfProber DEF Configured, HTTPMonitors, UnitMonitors, JUnitMonitors, QueryMonitors

LEMMA AddressIsNoMonitor ==
    ASSUME NEW l
    PROVE  Address(l) # [monitor |-> "http"]
<1>1. DOMAIN [monitor |-> "http"] = {"monitor"}
  OBVIOUS
<1>2. "monitor" \notin DOMAIN Address(l)
  BY DEF Address
<1> QED
  BY <1>1, <1>2

LEMMA HTTPAsksKeeps ==
    ASSUME CycleInv, NEW g \in Probers, HTTPAsks(g)
    PROVE  CycleInv'
<1> DEFINE t == Target(g.monitor, 1)
<1>1. Running /\ TypeOK /\ g.monitor.kind = "http" /\ probe[g].pc = "ask"
  BY DEF HTTPAsks, HasGoroutine, Running, CycleInv
<1>2. t \in AllTargets /\ g.monitor.kind # "prometheus"
  BY <1>1, OneQuestion, Asks
<1>3. PICK r \in Responses(t, Recovered(g)) :
         \/ r = "error" /\ Answer(g, Erred(g))
         \/ r = "up" /\ Answer(g, MakeStatus(g, FALSE))
         \/ /\ r = "down"
            /\ probe' = [probe EXCEPT ![g].pc = "confirm", ![g].until = ConfirmTime(g)]
            /\ UNCHANGED <<pc, file, truth, results, clock, canceled, cause, report>>
  BY DEF HTTPAsks
<1>4. CASE r = "error" /\ Answer(g, Erred(g))
  BY <1>1, <1>4, ErredIsRight, AnswerIsRight
<1>5. CASE r = "up" /\ Answer(g, MakeStatus(g, FALSE))
  <2>1. Recovered(g) \in BOOLEAN
    BY DEF Recovered
  <2>2. truth[t] # "error" /\ truth[t] # "down"
    <3>1. truth[t] # "error" /\ (truth[t] = "down" => r = "down")
      BY <1>1, <1>2, <1>5, <2>1, Answers
    <3> QED
      BY <1>5, <3>1
  <2>3. RightResult(g, MakeStatus(g, FALSE))
    BY <1>2, <2>2, StatusIsRight
  <2> QED
    BY <1>1, <1>5, <2>3, AnswerIsRight
<1>6. CASE /\ r = "down"
           /\ probe' = [probe EXCEPT ![g].pc = "confirm", ![g].until = ConfirmTime(g)]
           /\ UNCHANGED <<pc, file, truth, results, clock, canceled, cause, report>>
  <2> DEFINE p == [probe[g] EXCEPT !.pc = "confirm", !.until = ConfirmTime(g)]
  <2>1. clock \in Nat /\ g.monitor.retryAfter \in Int /\ probe \in [Probers -> Goroutines]
    BY <1>1, KindsOfMonitors DEF TypeOK
  <2>2. ConfirmTime(g) \in Int /\ ConfirmTime(g) >= g.monitor.retryAfter
    BY <2>1 DEF ConfirmTime
  <2>3. p \in Goroutines /\ p.pc = "confirm" /\ p.until = ConfirmTime(g)
    BY <2>1, <2>2 DEF Goroutines
  <2>4. probe' = [probe EXCEPT ![g] = p]
    BY <1>6
  <2> HIDE DEF p
  <2>5. probe'[g] = p
    BY <2>1, <2>4
  <2>6. SoundProbe(g)'
    BY <1>1, <2>2, <2>3, <2>5 DEF SoundProbe
  <2> QED
    BY <1>1, <1>6, <2>3, <2>4, <2>6, ProberMoves
<1> QED
  BY <1>3, <1>4, <1>5, <1>6

LEMMA HTTPConfirmsKeeps ==
    ASSUME CycleInv, NEW g \in Probers, HTTPConfirms(g)
    PROVE  CycleInv'
<1> DEFINE t == Target(g.monitor, 1)
<1>1. Running /\ TypeOK /\ g.monitor.kind = "http" /\ probe[g].pc = "confirm" /\ SoundProbe(g)
  BY DEF HTTPConfirms, HasGoroutine, Running, CycleInv
<1>2. t \in AllTargets /\ g.monitor.kind # "prometheus"
  BY <1>1, OneQuestion, Asks
<1>3. CASE canceled /\ Answer(g, Erred(g))
  BY <1>1, <1>3, ErredIsRight, AnswerIsRight
<1>4. CASE /\ clock >= probe[g].until
           /\ \E r \in Responses(t, Recovered(g)) :
               IF r = "error" THEN Answer(g, Erred(g)) ELSE Answer(g, MakeStatus(g, r = "down"))
  <2>1. PICK r \in Responses(t, Recovered(g)) :
               IF r = "error" THEN Answer(g, Erred(g)) ELSE Answer(g, MakeStatus(g, r = "down"))
    BY <1>4
  <2>2. CASE r = "error"
    BY <1>1, <2>1, <2>2, ErredIsRight, AnswerIsRight
  <2>3. CASE r # "error"
    <3>1. Recovered(g)
      <4>1. /\ clock \in Nat /\ g.monitor.retryAfter \in Int /\ probe[g].until \in Int
            /\ probe[g].until >= g.monitor.retryAfter
        BY <1>1, KindsOfMonitors DEF TypeOK, Goroutines, SoundProbe
      <4> QED
        BY <1>4, <4>1 DEF Recovered
    <3>2. /\ truth[t] # "error" /\ (truth[t] = "down" => r = "down")
          /\ r = "down" => MayBeDown(t)
      <4>1. Recovered(g) \in BOOLEAN
        BY DEF Recovered
      <4> HIDE DEF t
      <4> QED
        BY <1>1, <1>2, <2>3, <3>1, <4>1, Answers
    <3>3. RightResult(g, MakeStatus(g, r = "down"))
      BY <1>2, <3>2, StatusIsRight
    <3> QED
      BY <1>1, <2>1, <2>3, <3>3, AnswerIsRight
  <2> QED
    BY <2>2, <2>3
<1> QED
  BY <1>3, <1>4 DEF HTTPConfirms

\* A single request that cannot recover.
LEMMA OneRequestKeeps ==
    ASSUME CycleInv, NEW g \in Probers, g.monitor.kind \in {"unit", "junit"}, Running,
           probe[g].pc = "ask", NEW r \in Responses(Target(g.monitor, 1), FALSE), r # "error",
           Answer(g, MakeStatus(g, r = "down"))
    PROVE  CycleInv'
<1> DEFINE t == Target(g.monitor, 1)
<1>1. TypeOK /\ g.monitor.kind # "prometheus"
  BY DEF CycleInv
<1>2. t \in AllTargets /\ t[1] = [monitor |-> g.monitor.kind]
  BY <1>1, OneQuestion, Asks
<1>3. t[1] # [monitor |-> "http"]
  <2>1. g.monitor.kind # "http"
    OBVIOUS
  <2>2. [monitor |-> g.monitor.kind].monitor # [monitor |-> "http"].monitor
    BY <2>1
  <2> QED
    BY <1>2, <2>2
<1>4. /\ truth[t] # "error" /\ (truth[t] = "down" => r = "down")
      /\ r = "down" => MayBeDown(t)
  <2> HIDE DEF t
  <2>1. r \in Responses(t, FALSE)
    BY DEF t
  <2> QED
    BY <1>1, <1>2, <1>3, <2>1, Answers
<1>5. RightResult(g, MakeStatus(g, r = "down"))
  BY <1>1, <1>4, StatusIsRight
<1> QED
  BY <1>5, AnswerIsRight

LEMMA SystemdAsksKeeps ==
    ASSUME CycleInv, NEW g \in Probers, SystemdAsks(g)
    PROVE  CycleInv'
<1>1. Running /\ g.monitor.kind = "unit" /\ probe[g].pc = "ask"
  BY DEF SystemdAsks, HasGoroutine, Running
<1>2. PICK r \in Responses(Target(g.monitor, 1), FALSE) :
        IF r = "error" THEN Answer(g, Erred(g)) ELSE Answer(g, MakeStatus(g, r = "down"))
  BY DEF SystemdAsks
<1>3. CASE r = "error"
  BY <1>1, <1>2, <1>3, ErredIsRight, AnswerIsRight
<1>4. CASE r # "error"
  BY <1>1, <1>2, <1>4, OneRequestKeeps
<1> QED
  BY <1>3, <1>4

LEMMA JUnitAsksKeeps ==
    ASSUME CycleInv, NEW g \in Probers, JUnitAsks(g)
    PROVE  CycleInv'
<1> DEFINE m == g.monitor
      FailedRuns(r) == IF r = "down" THEN m.historyRuns ELSE 0
<1>1. Running /\ TypeOK /\ m.kind = "junit" /\ probe[g].pc = "ask"
  BY DEF JUnitAsks, HasGoroutine, Running, CycleInv
<1>2. PICK r \in Responses(Target(m, 1), FALSE) :
        IF r = "error" THEN Answer(g, Erred(g))
        ELSE Answer(g, MakeStatus(g, FailedRuns(r) >= m.failedRunsThreshold))
  BY DEF JUnitAsks
<1>3. CASE r = "error"
  BY <1>1, <1>2, <1>3, ErredIsRight, AnswerIsRight
<1>4. CASE r # "error"
  <2>1. m.historyRuns \in Int /\ m.failedRunsThreshold \in 1..m.historyRuns
    BY <1>1, KindsOfMonitors
  <2>2. (FailedRuns(r) >= m.failedRunsThreshold) = (r = "down")
    BY <2>1
  <2>3. Answer(g, MakeStatus(g, r = "down"))
    BY <1>2, <1>4, <2>2
  <2> QED
    BY <1>1, <1>4, <2>3, OneRequestKeeps
<1> QED
  BY <1>3, <1>4

LEMMA PrometheusAsksKeeps ==
    ASSUME CycleInv, NEW g \in Probers, PrometheusAsks(g)
    PROVE  CycleInv'
<1> DEFINE m == g.monitor
      at == probe[g].at
      t == Target(m, at)
      q == m.queries[at]
<1>1. Running /\ TypeOK /\ m.kind = "prometheus" /\ probe[g].pc = "ask" /\ SoundProbe(g) /\ at <= Len(m.queries)
  BY DEF PrometheusAsks, HasGoroutine, Running, CycleInv
<1>2. /\ m.queries \in Seq(PrometheusQueries) /\ Questions(m) = m.queries
      /\ CreatePrometheusClients(file)[GetPrometheusLocationKey(m.location)] = Address(m.location)
  BY <1>1, KindsOfMonitors DEF QueryMonitors, Questions
<1>3. at \in 1..Len(m.queries) /\ at \in Nat /\ DOMAIN m.queries = 1..Len(m.queries)
  BY <1>1, <1>2 DEF SoundProbe
<1>4. t = <<Address(m.location), q.check>> /\ t \in AllTargets /\ q \in AllQuestions
  BY <1>1, <1>2, <1>3, Asks DEF Target
<1>5. Asked(g, at - 1, probe[g].failed)
  BY <1>1 DEF SoundProbe
<1>6. probe \in [Probers -> Goroutines] /\ probe[g].failed \in Seq(AllQuestions)
  BY <1>1 DEF TypeOK, Goroutines
<1>7. PICK r \in Responses(t, FALSE) :
        IF r = "error"
          THEN Answer(g, Erred(g))
          ELSE /\ probe' = [probe EXCEPT ![g].at = at + 1,
                               ![g].failed = IF r = "down" THEN Append(@, q) ELSE @]
               /\ UNCHANGED <<pc, file, truth, results, clock, canceled, cause, report>>
  BY <1>2, <1>4 DEF PrometheusAsks
<1>8. CASE r = "error"
  BY <1>1, <1>7, <1>8, ErredIsRight, AnswerIsRight
<1>9. CASE r # "error"
  <2> DEFINE failed == IF r = "down" THEN Append(probe[g].failed, q) ELSE probe[g].failed
        p == [probe[g] EXCEPT !.at = at + 1, !.failed = failed]
  <2>1. t[1] # [monitor |-> "http"]
    BY <1>4, AddressIsNoMonitor
  <2>2. /\ r \in {"up", "down"} /\ truth[t] # "error" /\ (truth[t] = "down" => r = "down")
        /\ r = "down" => MayBeDown(t)
    <3> HIDE DEF t
    <3> QED
      BY <1>1, <1>4, <1>7, <1>9, <2>1, Answers
  <2>3. failed \in Seq(AllQuestions)
    BY <1>4, <1>6
  <2>4. Range(failed) = IF r = "down" THEN Range(probe[g].failed) \cup {q} ELSE Range(probe[g].failed)
    <3> HIDE DEF q
    <3>1. Range(Append(probe[g].failed, q)) = Range(probe[g].failed) \cup {q}
      BY <1>4, <1>6, RangeOfAppend
    <3> QED
      BY <3>1
  <2> HIDE DEF failed
  <2>5. p \in Goroutines /\ p.pc = "ask" /\ p.at = at + 1 /\ p.failed = failed
    <3>1. probe[g] \in Goroutines /\ probe[g].pc = "ask" /\ at + 1 \in Nat
      BY <1>1, <1>3, <1>6
    <3> DEFINE next == at + 1
    <3>2. next \in Nat
      BY <3>1
    <3> HIDE DEF next
    <3>3. [probe[g] EXCEPT !.at = next, !.failed = failed] \in Goroutines
      BY <2>3, <3>1, <3>2 DEF Goroutines
    <3>4. /\ [probe[g] EXCEPT !.at = next, !.failed = failed].pc = "ask"
          /\ [probe[g] EXCEPT !.at = next, !.failed = failed].at = next
          /\ [probe[g] EXCEPT !.at = next, !.failed = failed].failed = failed
      BY <3>1 DEF Goroutines
    <3> QED
      BY <3>3, <3>4 DEF next
  <2>6. probe' = [probe EXCEPT ![g] = p]
    BY <1>6, <1>7, <1>9 DEF failed
  <2> HIDE DEF p
  <2>7. Asked(g, at, failed)
    <3>1. \A i \in 1..at : i \in 1..(at - 1) \/ i = at
      BY <1>3
    <3>2. at \in 1..at /\ \A i \in 1..(at - 1) : i \in 1..at
      BY <1>3
    <3> HIDE DEF at
    <3>3. ASSUME NEW i \in 1..at
          PROVE  /\ truth[Target(m, i)] # "error"
                 /\ truth[Target(m, i)] = "down" => m.queries[i] \in Range(failed)
      <4>1. CASE i = at
        BY <2>2, <2>4, <4>1
      <4>2. CASE i \in 1..(at - 1)
        BY <1>5, <2>4, <4>2 DEF Asked
      <4> QED
        BY <3>1, <4>1, <4>2
    <3>4. ASSUME NEW x \in Range(failed)
          PROVE  \E i \in 1..at : m.queries[i] = x /\ MayBeDown(Target(m, i))
      <4>1. CASE x \in Range(probe[g].failed)
        BY <1>5, <3>2, <4>1 DEF Asked
      <4>2. CASE r = "down" /\ x = q
        BY <2>2, <3>2, <4>2
      <4> QED
        BY <2>4, <4>1, <4>2
    <3> QED
      BY <3>3, <3>4 DEF Asked
  <2>8. UNCHANGED <<pc, file, truth, results, clock, canceled, cause, report>>
    BY <1>7, <1>9
  <2>9. PICK n, fs : n = at /\ fs = failed
    OBVIOUS
  <2>10. Asked(g, n, fs)'
    <3>1. Asked(g, n, fs)
      BY <2>7, <2>9
    <3> QED
      BY <2>8, <3>1, SameCycle
  <2>11. probe'[g] = p
    BY <1>6, <2>6
  <2>12. p.at = n + 1 /\ p.at \in 1..(Len(m.queries) + 1) /\ p.at - 1 = n /\ p.failed = fs
    <3>1. n \in 1..Len(m.queries) /\ Len(m.queries) \in Nat /\ p.at = n + 1
      BY <1>2, <1>3, <2>5, <2>9
    <3> QED
      BY <2>5, <2>9, <3>1
  <2>13. SoundProbe(g)'
    BY <2>5, <2>10, <2>11, <2>12 DEF SoundProbe
  <2> QED
    BY <1>1, <2>5, <2>6, <2>8, <2>13, ProberMoves
<1> QED
  BY <1>8, <1>9

LEMMA PrometheusAnswersKeeps ==
    ASSUME CycleInv, NEW g \in Probers, PrometheusAnswers(g)
    PROVE  CycleInv'
<1> DEFINE m == g.monitor
<1>1. Running /\ TypeOK /\ m.kind = "prometheus" /\ probe[g].pc = "ask" /\ SoundProbe(g)
  BY DEF PrometheusAnswers, HasGoroutine, Running, CycleInv
<1>2. m \in QueryMonitors /\ Len(m.queries) \in Nat
  BY <1>1, KindsOfMonitors DEF QueryMonitors
<1>3. probe[g].at \in 1..(Len(m.queries) + 1) /\ Asked(g, probe[g].at - 1, probe[g].failed)
  BY <1>1 DEF SoundProbe
<1>4. probe[g].at > Len(m.queries) /\ Answer(g, CreateStatusFromQueryResults(g))
  BY DEF PrometheusAnswers
<1>5. probe[g].at - 1 = Len(m.queries)
  BY <1>2, <1>3, <1>4
<1>6. probe[g].failed \in Seq(AllQuestions)
  BY <1>1 DEF TypeOK, Goroutines
<1>7. RightResult(g, CreateStatusFromQueryResults(g))
  BY <1>2, <1>3, <1>5, <1>6, QueriesAreRight
<1> QED
  BY <1>1, <1>4, <1>7, AnswerIsRight

LEMMA ProbeKeeps ==
    ASSUME CycleInv, NEW g \in Probers, Probe(g)
    PROVE  CycleInv'
BY HTTPAsksKeeps, HTTPConfirmsKeeps, PrometheusAsksKeeps, PrometheusAnswersKeeps, SystemdAsksKeeps,
   JUnitAsksKeeps DEF Probe

--------------------------------------------------------------------------------
(***************************************************************************)
(* Steps of the orchestrator.                                               *)
(***************************************************************************)

LEMMA StartKeeps ==
    ASSUME CycleInv, StartOrchestratorWithConfig
    PROVE  CycleInv'
<1>1. pc' = "start" /\ file' \in Files /\ Accepts(file') /\ canceled' = FALSE /\ cause' = cause
  BY DEF StartOrchestratorWithConfig
<1>2. cause \in {"none", "complete", "timeout", "canceled"}
  BY DEF CycleInv, TypeOK
<1>3. TypeOK'
  BY <1>1, <1>2 DEF TypeOK, Running
<1> QED
  BY <1>1, <1>3 DEF CycleInv, Running

LEMMA StartProbesKeeps ==
    ASSUME CycleInv, StartProbes
    PROVE  CycleInv'
<1> DEFINE fresh == [pc |-> "ask", at |-> 1, failed |-> <<>>, until |-> 0, result |-> <<>>]
<1>1. /\ pc = "start" /\ pc' = "collect" /\ file' = file /\ canceled' = canceled
      /\ results' = <<>> /\ clock' = 0 /\ cause' = "none"
      /\ probe' = [g \in Probers |-> fresh]
      /\ DOMAIN truth' = AllTargets /\ \A t \in AllTargets : truth'[t] \in Conditions(t)
  BY DEF StartProbes
<1>2. /\ TypeOK /\ file \in Files /\ Accepts(file)
      /\ canceled \in BOOLEAN
  BY <1>1 DEF CycleInv, TypeOK
<1>3. Probers' = Probers /\ AllTargets' = AllTargets
  BY <1>1 DEF Probers, AllTargets
<1>4. fresh \in Goroutines'
  <2>1. <<>> \in Seq(AllQuestions')
    OBVIOUS
  <2> QED
    BY <2>1 DEF Goroutines
<1>5. probe' \in [Probers' -> Goroutines']
  <2> HIDE DEF fresh
  <2> QED
    BY <1>1, <1>3, <1>4
<1>6. TypeOK'
  BY <1>1, <1>2, <1>3, <1>5 DEF TypeOK, Running
<1>7. Collected'
  <2>1. results' \in Seq(Results') /\ DOMAIN results' = {}
    BY <1>1
  <2> QED
    BY <2>1 DEF Collected
<1>8. ASSUME NEW g \in Probers' PROVE SoundProbe(g)'
  <2>1. probe'[g] = fresh
    BY <1>1, <1>3
  <2>2. Range(<<>>) = {} /\ 1..0 = {}
    BY DEF Range
  <2>3. Asked(g, 0, <<>>)'
    BY <2>2 DEF Asked
  <2>4. g.monitor.kind = "prometheus" => 1 \in 1..(Len(g.monitor.queries) + 1)
    <3>1. Configured(file, g.monitor)
      BY <1>2, <1>3, ProbersAreConfigured DEF Probers
    <3> SUFFICES ASSUME g.monitor.kind = "prometheus" PROVE 1 \in 1..(Len(g.monitor.queries) + 1)
      OBVIOUS
    <3>2. g.monitor.queries \in Seq(PrometheusQueries)
      BY <3>1 DEF Configured, HTTPMonitors, UnitMonitors, JUnitMonitors, QueryMonitors
    <3> QED
      BY <3>2
  <2>5. fresh.pc = "ask" /\ fresh.at = 1 /\ fresh.failed = <<>> /\ fresh.at - 1 = 0
    OBVIOUS
  <2> HIDE DEF fresh
  <2> QED
    BY <2>1, <2>3, <2>4, <2>5 DEF SoundProbe
<1> QED
  BY <1>1, <1>6, <1>7, <1>8 DEF CycleInv, Running

LEMMA ReceiveKeeps ==
    ASSUME CycleInv, NEW g \in Probers, Receive(g)
    PROVE  CycleInv'
<1> DEFINE p == [probe[g] EXCEPT !.pc = "gone"]
      r == probe[g].result
<1>1. /\ pc = "collect" /\ probe[g].pc = "send"
      /\ results' = Append(results, r)
      /\ UNCHANGED <<pc, file, truth, clock, canceled, cause, report>>
  BY DEF Receive
<1>2. TypeOK /\ Collected /\ (\A h \in Probers : SoundProbe(h)) /\ probe \in [Probers -> Goroutines] /\ Running
  BY <1>1 DEF CycleInv, TypeOK, Running
<1>3. /\ Probers' = Probers /\ AllTargets' = AllTargets /\ Results' = Results /\ Goroutines' = Goroutines
      /\ \A h, x : RightResult(h, x)' <=> RightResult(h, x)
      /\ \A h, n, failed : Asked(h, n, failed)' <=> Asked(h, n, failed)
  BY <1>1, SameCycle
<1>4. probe' = [probe EXCEPT ![g] = p]
  BY DEF Receive
<1>5. p \in Goroutines /\ p.pc = "gone" /\ p.result = r
  BY <1>2 DEF Goroutines
<1>6. RightResult(g, r) /\ r \in Results /\ r.by = g
  BY <1>1, <1>2 DEF SoundProbe, RightResult
<1> HIDE DEF p, r
<1>7. probe'[g] = p /\ \A h \in Probers : h # g => probe'[h] = probe[h]
  BY <1>2, <1>4
<1>8. probe' \in [Probers -> Goroutines]
  BY <1>2, <1>4, <1>5
<1>9. TypeOK'
  BY <1>1, <1>2, <1>3, <1>8 DEF TypeOK, Running
<1>10. ASSUME NEW h \in Probers PROVE SoundProbe(h)'
  <2>1. CASE h = g
    BY <1>3, <1>5, <1>6, <1>7, <2>1 DEF SoundProbe
  <2>2. CASE h # g
    BY <1>2, <1>3, <1>7, <2>2 DEF SoundProbe
  <2> QED
    BY <2>1, <2>2
<1>11. Collected'
  <2> DEFINE n == Len(results)
  <2>1. n \in Nat /\ DOMAIN results = 1..n /\ results \in Seq(Results)
    BY <1>2 DEF Collected
  <2>2. /\ results' \in Seq(Results) /\ DOMAIN results' = 1..(n + 1)
        /\ results'[n + 1] = r /\ \A i \in 1..n : results'[i] = results[i]
    BY <1>1, <1>6, <2>1
  <2> HIDE DEF n
  <2>3. \A i \in 1..(n + 1) : i \in 1..n \/ i = n + 1
    BY <2>1
  <2>4. ASSUME NEW i \in 1..n
        PROVE  /\ results[i].by \in Probers /\ results[i].by # g
               /\ probe[results[i].by].pc = "gone" /\ results[i] = probe[results[i].by].result
    <3>1. results[i] \in Results
      BY <2>1
    <3>2. probe[results[i].by].pc = "gone" /\ results[i] = probe[results[i].by].result
      BY <1>2, <2>1 DEF Collected
    <3> QED
      BY <1>1, <3>1, <3>2 DEF Results
  <2>5. ASSUME NEW i \in 1..(n + 1)
        PROVE  probe'[results'[i].by].pc = "gone" /\ results'[i] = probe'[results'[i].by].result
    <3>1. CASE i = n + 1
      BY <1>5, <1>6, <1>7, <2>2, <3>1
    <3>2. CASE i \in 1..n
      BY <1>7, <2>2, <2>4, <3>2
    <3> QED
      BY <2>3, <3>1, <3>2
  <2>6. ASSUME NEW i \in 1..(n + 1), NEW j \in 1..(n + 1), results'[i].by = results'[j].by
        PROVE  i = j
    <3>1. CASE i \in 1..n /\ j \in 1..n
      BY <1>2, <2>1, <2>2, <2>6, <3>1 DEF Collected
    <3>2. CASE i \in 1..n /\ j = n + 1
      BY <1>6, <2>2, <2>4, <2>6, <3>2
    <3>3. CASE i = n + 1 /\ j \in 1..n
      BY <1>6, <2>2, <2>4, <2>6, <3>3
    <3> QED
      BY <2>3, <3>1, <3>2, <3>3
  <2> QED
    BY <1>3, <2>2, <2>5, <2>6 DEF Collected
<1> QED
  BY <1>1, <1>3, <1>9, <1>10, <1>11 DEF CycleInv, Running

\* Steps that leave the results, the probers and their targets alone.
LEMMA OthersKeep ==
    ASSUME CycleInv, UNCHANGED <<file, truth, probe, results>>, canceled' \in BOOLEAN,
           cause' \in {"none", "complete", "timeout", "canceled"},
           \/ pc # "load" /\ pc' = "start"
           \/ Running /\ Running' /\ clock' \in Nat,
           pc' \in {"send", "wait"} /\ cause' = "complete" => AllHeard,
           pc' = "wait" => report' = MergeStatuses
    PROVE  CycleInv'
<1>1. /\ Probers' = Probers /\ AllTargets' = AllTargets /\ Results' = Results /\ Goroutines' = Goroutines
      /\ \A h, r : RightResult(h, r)' <=> RightResult(h, r)
      /\ \A h, n, failed : Asked(h, n, failed)' <=> Asked(h, n, failed)
  BY SameCycle
<1>2. MergeStatuses' = MergeStatuses /\ (AllHeard' <=> AllHeard)
  BY SameReport
<1>3. pc # "load" /\ pc' # "load" /\ pc' \in {"start", "collect", "send", "wait"} /\ (Running' => Running)
  BY DEF Running
<1>4. TypeOK /\ (Running => Collected /\ \A h \in Probers : SoundProbe(h))
  BY DEF CycleInv
<1>5. TypeOK'
  <2>1. Running' => clock' \in Nat
    BY DEF Running
  <2> QED
    BY <1>1, <1>3, <1>4, <2>1 DEF TypeOK
<1>6. Running' => Collected'
  BY <1>1, <1>3, <1>4 DEF Collected
<1>7. ASSUME Running', NEW h \in Probers PROVE SoundProbe(h)'
  <2>1. SoundProbe(h)
    BY <1>3, <1>4, <1>7
  <2> QED
    BY <1>1, <2>1 DEF SoundProbe
<1> QED
  BY <1>1, <1>2, <1>5, <1>6, <1>7 DEF CycleInv

LEMMA StopCollectingKeeps ==
    ASSUME CycleInv, CollectedAll \/ CollectTimeout \/ CollectCanceled
    PROVE  CycleInv'
<1>1. PICK why \in {"complete", "timeout", "canceled"} : StopCollecting(why) /\ (why = "complete" => AllHeard)
  BY DEF CollectedAll, CollectTimeout, CollectCanceled
<1>2. /\ pc = "collect" /\ pc' = "send" /\ cause' = why
      /\ UNCHANGED <<file, truth, probe, results, clock, canceled, report>>
  BY <1>1 DEF StopCollecting
<1>3. canceled \in BOOLEAN /\ clock \in Nat
  BY <1>2 DEF CycleInv, TypeOK, Running
<1>4. Running /\ Running'
  BY <1>2 DEF Running
<1> QED
  BY <1>1, <1>2, <1>3, <1>4, OthersKeep

LEMMA SendReportKeeps ==
    ASSUME CycleInv, SendReport
    PROVE  CycleInv'
<1>1. /\ pc = "send" /\ pc' = "wait" /\ report' = MergeStatuses
      /\ UNCHANGED <<file, truth, probe, results, clock, canceled, cause>>
  BY DEF SendReport
<1>2. /\ canceled \in BOOLEAN /\ cause \in {"none", "complete", "timeout", "canceled"} /\ clock \in Nat
      /\ cause = "complete" => AllHeard
  BY <1>1 DEF CycleInv, TypeOK, Running
<1>3. Running /\ Running'
  BY <1>1 DEF Running
<1> QED
  BY <1>1, <1>2, <1>3, OthersKeep

LEMMA WaitKeeps ==
    ASSUME CycleInv, WaitForNextCycle
    PROVE  CycleInv'
<1>1. /\ pc = "wait" /\ pc' = "start"
      /\ UNCHANGED <<file, truth, probe, results, clock, canceled, cause, report>>
  BY DEF WaitForNextCycle
<1>2. canceled \in BOOLEAN /\ cause \in {"none", "complete", "timeout", "canceled"}
  BY DEF CycleInv, TypeOK
<1> QED
  BY <1>1, <1>2, OthersKeep

LEMMA ExitKeeps ==
    ASSUME CycleInv, Exit
    PROVE  CycleInv'
<1>1. pc' = "load" /\ probe' = <<>> /\ cause' = "none" /\ canceled' = canceled
  BY DEF Exit
<1>2. canceled \in BOOLEAN
  BY DEF CycleInv, TypeOK
<1> QED
  BY <1>1, <1>2 DEF CycleInv, TypeOK, Running

\* A cancellation, a tick, or nothing.
LEMMA TimeKeeps ==
    ASSUME CycleInv, Cancel \/ Tick \/ UNCHANGED vars
    PROVE  CycleInv'
<1>1. /\ UNCHANGED <<pc, file, truth, probe, results, cause, report>>
      /\ canceled' = canceled \/ canceled' = TRUE
      /\ clock' = clock \/ clock' = clock + 1
  BY DEF Cancel, Tick, vars
<1>2. TypeOK /\ canceled' \in BOOLEAN /\ cause \in {"none", "complete", "timeout", "canceled"}
  BY <1>1 DEF CycleInv, TypeOK
<1>3. CASE Running
  <2>1. clock' \in Nat /\ Running'
    BY <1>1, <1>2, <1>3 DEF TypeOK, Running
  <2>2. /\ pc \in {"send", "wait"} /\ cause = "complete" => AllHeard
        /\ pc = "wait" => report = MergeStatuses
    BY DEF CycleInv
  <2> QED
    BY <1>1, <1>2, <1>3, <2>1, <2>2, OthersKeep
<1>4. CASE pc = "start"
  BY <1>1, <1>2, <1>4, OthersKeep DEF Running
<1>5. CASE pc = "load"
  BY <1>1, <1>2, <1>5 DEF CycleInv, TypeOK, Running
<1> QED
  BY <1>2, <1>3, <1>4, <1>5 DEF TypeOK, Running

LEMMA CycleInvariant == Spec => []CycleInv
<1>1. Init => CycleInv
  BY DEF Init, CycleInv, TypeOK, Running
<1>2. CycleInv /\ [Next]_vars => CycleInv'
  <2> SUFFICES ASSUME CycleInv, [Next]_vars PROVE CycleInv'
    OBVIOUS
  <2>1. CASE StartOrchestratorWithConfig
    BY <2>1, StartKeeps
  <2>2. CASE StartProbes
    BY <2>2, StartProbesKeeps
  <2>3. CASE CollectedAll \/ CollectTimeout \/ CollectCanceled
    BY <2>3, StopCollectingKeeps
  <2>4. CASE SendReport
    BY <2>4, SendReportKeeps
  <2>5. CASE WaitForNextCycle
    BY <2>5, WaitKeeps
  <2>6. CASE Exit
    BY <2>6, ExitKeeps
  <2>7. CASE Cancel \/ Tick \/ UNCHANGED vars
    BY <2>7, TimeKeeps
  <2>8. ASSUME NEW g \in Probers, Receive(g) PROVE CycleInv'
    BY <2>8, ReceiveKeeps
  <2>9. ASSUME NEW g \in Probers, Probe(g) PROVE CycleInv'
    BY <2>9, ProbeKeeps
  <2> QED
    BY <2>1, <2>2, <2>3, <2>4, <2>5, <2>6, <2>7, <2>8, <2>9 DEF Next
<1> QED
  BY <1>1, <1>2, PTL DEF Spec

--------------------------------------------------------------------------------
(***************************************************************************)
(* Theorems.                                                                *)
(***************************************************************************)

\* The prober goroutines, what they have found and what was collected of them have the
\* types the code gives them, in every configuration file.
THEOREM TypeCorrect == Spec => []TypeOK
<1>1. CycleInv => TypeOK
  BY DEF CycleInv
<1> QED
  BY <1>1, CycleInvariant, PTL

\* As many results as probers come from all of them: the loop only counts.
LEMMA AllHeardIsEverybody ==
    ASSUME TypeOK, Running, Collected, AllHeard, NEW g \in Probers
    PROVE  \E i \in DOMAIN results : results[i].by = g
<1> DEFINE n == Len(results)
      by == [i \in 1..n |-> results[i].by]
<1>1. results \in Seq(Results) /\ n \in Nat /\ DOMAIN results = 1..n
  BY DEF Collected
<1>2. IsFiniteSet(Probers)
  <2>1. file \in Files
    BY DEF TypeOK, Running
  <2> QED
    BY <2>1, FinitelyManyProbers DEF Probers
<1>3. \A i \in 1..n : results[i].by \in Probers
  <2> SUFFICES ASSUME NEW i \in 1..n PROVE results[i].by \in Probers
    OBVIOUS
  <2>1. results[i] \in Results
    BY <1>1
  <2> QED
    BY <2>1 DEF Results
<1>4. \A i, j \in 1..n : results[i].by = results[j].by => i = j
  BY <1>1 DEF Collected
<1>5. by \in Injection(1..n, Probers)
  <2> HIDE DEF n
  <2>1. by \in [1..n -> Probers]
    BY <1>3
  <2>2. \A i, j \in 1..n : by[i] = by[j] => i = j
    BY <1>4
  <2> HIDE DEF by
  <2> QED
    BY <2>1, <2>2 DEF Injection, IsInjective
<1>6. IsFiniteSet(1..n) /\ Cardinality(1..n) = n
  <2> HIDE DEF n
  <2>1. n \in Int /\ 1 \in Int /\ (n = 0 \/ n >= 1)
    BY <1>1
  <2>2. IsFiniteSet(1..n) /\ Cardinality(1..n) = IF 1 > n THEN 0 ELSE n - 1 + 1
    BY <2>1, FS_Interval
  <2> QED
    BY <2>1, <2>2
<1>7. Cardinality(1..n) = Cardinality(Probers)
  BY <1>6 DEF AllHeard
<1>8. by \in Surjection(1..n, Probers)
  <2> HIDE DEF by, n
  <2> QED
    BY <1>2, <1>5, <1>7, FS_Injection, Zenon
<1>9. \E i \in 1..n : by[i] = g
  <2> HIDE DEF by, n
  <2> QED
    BY <1>8, Zenon DEF Surjection
<1> QED
  BY <1>1, <1>9

\* What the report says of a sub-component, by the results that were collected of it.
LEMMA ReportTells ==
    ASSUME TypeOK, Collected, NEW s \in Subs
    PROVE  LET said == MergeStatuses[s]
               Heard == {r \in Range(results) : r.by.sub = s}
               Found1 == {r \in Heard : ~r.error}
           IN  /\ \A r \in Found1 : r.status \in Severities =>
                     /\ said.status \in Severities
                     /\ Level(said.status) >= Level(r.status)
                     /\ Range(r.reasons) \subseteq Range(said.reasons)
               /\ said.status \notin {"omitted", "Healthy"} =>
                     /\ said.status \in Severities /\ \E r \in Found1 : r.status = said.status
                     /\ said.reasons \in Seq(Checks)
                     /\ Range(said.reasons) = UNION {Range(r.reasons) : r \in {x \in Found1 : Unhealthy(x)}}
               /\ said.status = "Healthy" =>
                     /\ \A r \in Found1 : r.status \notin Severities
                     /\ (\E r \in Heard : r.error) => \E r \in Found1 : Unhealthy(r)
<1> DEFINE group == ResultsOf(s)
<1>1. results \in Seq(Results)
  BY DEF Collected
<1>2. group \in Seq(Results) /\ Range(group) = Range(results) \cap {r \in Range(results) : r.by.sub = s}
  BY <1>1, SelectedMembers DEF ResultsOf
<1>3. Range(group) = {r \in Range(results) : r.by.sub = s}
  BY <1>2
<1>4. MergeStatuses[s] = MergeStatusesForSubComponent(group)
  BY DEF MergeStatuses
<1>5. \A r \in Results : r.error \in BOOLEAN /\ r.reasons \in Seq(Checks)
  BY DEF Results
<1> DEFINE merged == MergeStatusesForSubComponent(group)
      Heard == Range(group)
      Found1 == {r \in Heard : ~r.error}
<1> HIDE DEF group
<1>6. /\ \A r \in Found1 : r.status \in Severities =>
            /\ merged.status \in Severities
            /\ Level(merged.status) >= Level(r.status)
            /\ Range(r.reasons) \subseteq Range(merged.reasons)
      /\ merged.status \notin {"omitted", "Healthy"} =>
            /\ merged.status \in Severities /\ \E r \in Found1 : r.status = merged.status
            /\ merged.reasons \in Seq(Checks)
            /\ Range(merged.reasons) = UNION {Range(r.reasons) : r \in {x \in Found1 : Unhealthy(x)}}
      /\ merged.status = "Healthy" =>
            /\ \A r \in Found1 : r.status \notin Severities
            /\ (\E r \in Heard : r.error) => \E r \in Found1 : Unhealthy(r)
  BY <1>2, <1>5, MergeTells, Zenon
<1> HIDE DEF merged, Heard, Found1
<1>7. MergeStatuses[s] = merged
  BY <1>4 DEF merged
<1>8. Heard = {r \in Range(results) : r.by.sub = s}
  BY <1>3 DEF Heard
<1>9. Found1 = {r \in {x \in Range(results) : x.by.sub = s} : ~r.error}
  BY <1>8 DEF Found1
<1> QED
  BY <1>6, <1>7, <1>8, <1>9, Zenon

\* A result that was collected is the one of its prober, and right.
LEMMA CollectedIsRight ==
    ASSUME TypeOK, Running, Collected, \A h \in Probers : SoundProbe(h), NEW r \in Range(results)
    PROVE  r \in Results /\ r.by \in Probers /\ RightResult(r.by, r)
<1>1. PICK i \in DOMAIN results : r = results[i]
  BY DEF Range
<1>2. r \in Results
  BY <1>1 DEF Collected
<1>3. r.by \in Probers /\ probe[r.by].pc = "gone" /\ r = probe[r.by].result
  BY <1>1, <1>2 DEF Collected, Results
<1> QED
  BY <1>2, <1>3 DEF SoundProbe

\* Whatever ended the cycle, a failing status has only reasons that are true.
THEOREM NothingIsMadeUp == Spec => []NoFalseAlarms
<1>1. CycleInv => NoFalseAlarms
  <2> SUFFICES ASSUME CycleInv, Reported, NEW s \in Subs, report[s].status \notin {"omitted", "Healthy"}
               PROVE  /\ report[s].reasons # <<>>
                      /\ \A k \in DOMAIN report[s].reasons :
                           \E g \in Probers : \E i \in DOMAIN Questions(g.monitor) :
                              /\ g.sub = s
                              /\ Questions(g.monitor)[i].check = report[s].reasons[k]
                              /\ truth[Target(g.monitor, i)] \in {"down", "changing"}
    BY DEF NoFalseAlarms
  <2>1. /\ TypeOK /\ Running /\ Collected /\ (\A h \in Probers : SoundProbe(h))
        /\ report = MergeStatuses
    BY DEF CycleInv, Reported, Running
  <2> DEFINE said == MergeStatuses[s]
        Heard == {r \in Range(results) : r.by.sub = s /\ ~r.error}
  <2>2. /\ said.status \in Severities /\ \E r \in Heard : r.status = said.status
        /\ said.reasons \in Seq(Checks)
        /\ Range(said.reasons) = UNION {Range(r.reasons) : r \in {x \in Heard : Unhealthy(x)}}
    <3>1. {r \in {x \in Range(results) : x.by.sub = s} : ~r.error} = Heard
      OBVIOUS
    <3> QED
      BY <2>1, <3>1, ReportTells
  <2> HIDE DEF said
  <2>3. ASSUME NEW r \in Heard, Unhealthy(r)
        PROVE  /\ r.reasons # <<>> /\ r.reasons \in Seq(Checks)
               /\ \A check \in Range(r.reasons) : \E g \in Probers : \E i \in DOMAIN Questions(g.monitor) :
                    /\ g.sub = s /\ Questions(g.monitor)[i].check = check
                    /\ truth[Target(g.monitor, i)] \in {"down", "changing"}
    <3>1. r \in Results /\ r.by \in Probers /\ RightResult(r.by, r) /\ ~r.error /\ r.by.sub = s
      BY <2>1, CollectedIsRight
    <3> QED
      BY <2>3, <3>1 DEF RightResult, MayBeDown, Results
  <2>4. said.reasons # <<>>
    <3>1. PICK r \in Heard : r.status = said.status
      BY <2>2
    <3>2. Unhealthy(r)
      BY <2>2, <3>1 DEF Unhealthy, Severities
    <3>3. r.reasons # <<>> /\ r.reasons \in Seq(Checks)
      BY <2>3, <3>2
    <3>4. r.reasons[1] \in Range(r.reasons)
      BY <3>3 DEF Range
    <3>5. r.reasons[1] \in Range(said.reasons)
      BY <2>2, <3>2, <3>4
    <3>6. Range(<<>>) = {}
      BY DEF Range
    <3> QED
      BY <3>5, <3>6
  <2>5. ASSUME NEW k \in DOMAIN said.reasons
        PROVE  \E g \in Probers : \E i \in DOMAIN Questions(g.monitor) :
                 /\ g.sub = s /\ Questions(g.monitor)[i].check = said.reasons[k]
                 /\ truth[Target(g.monitor, i)] \in {"down", "changing"}
    <3> DEFINE check == said.reasons[k]
    <3>1. check \in Range(said.reasons)
      BY DEF Range
    <3> HIDE DEF check
    <3>2. PICK r \in Heard : Unhealthy(r) /\ check \in Range(r.reasons)
      BY <2>2, <3>1
    <3>3. \E g \in Probers : \E i \in DOMAIN Questions(g.monitor) :
             /\ g.sub = s /\ Questions(g.monitor)[i].check = check
             /\ truth[Target(g.monitor, i)] \in {"down", "changing"}
      <4>1. Unhealthy(r)
        BY <3>2
      <4>2. \A c \in Range(r.reasons) : \E g \in Probers : \E i \in DOMAIN Questions(g.monitor) :
               /\ g.sub = s /\ Questions(g.monitor)[i].check = c
               /\ truth[Target(g.monitor, i)] \in {"down", "changing"}
        BY <2>3, <4>1
      <4> HIDE DEF Heard
      <4> QED
        BY <3>2, <4>2
    <3> QED
      BY <3>3 DEF check
  <2> QED
    BY <2>1, <2>4, <2>5 DEF said
<1> QED
  BY <1>1, CycleInvariant, PTL

\* Every severity in the files is one of the enumeration, or is left to its default.
SeveritiesAreKnown ==
    \A f \in Files : \A i \in DOMAIN f.components : \A m \in f.components[i].monitors :
        IF m.kind = "prometheus"
          THEN \A j \in DOMAIN m.queries : m.queries[j].severity \in Severities \cup {""}
          ELSE m.severity \in Severities \cup {""}

LEMMA QuestionsAreKnown ==
    ASSUME SeveritiesAreKnown, NEW f \in Files, NEW g \in CreateProbers(f)
    PROVE  \A q \in Range(Questions(g.monitor)) : q.severity \in Severities
<1>1. PICK i \in DOMAIN f.components :
        \E m \in f.components[i].monitors : g = [sub |-> f.components[i].sub, monitor |-> WithDefaults(m)]
  BY DEF CreateProbers
<1>2. PICK m \in f.components[i].monitors : g = [sub |-> f.components[i].sub, monitor |-> WithDefaults(m)]
  BY <1>1
<1>3. m \in Monitors
  BY ComponentsOfFile
<1>4. \A s \in Severities \cup {""} : Default(s, "Down") \in Severities /\ Default(s, "Degraded") \in Severities
  BY DEF Default, Severities
<1>5. CASE m.kind = "prometheus"
  <2>1. m \in QueryMonitors
    BY <1>3, <1>5 DEF Monitors, HTTPMonitors, UnitMonitors, JUnitMonitors
  <2> DEFINE queries == [j \in DOMAIN m.queries |-> WithSeverity(m.queries[j], "Down")]
  <2>2. WithDefaults(m) = [m EXCEPT !.queries = queries]
    BY <1>5 DEF WithDefaults
  <2>3. \A j \in DOMAIN m.queries : m.queries[j] \in PrometheusQueries /\ m.queries[j].severity \in Severities \cup {""}
    <3>1. m.queries \in Seq(PrometheusQueries)
      <4> HIDE DEF PrometheusQueries
      <4> QED
        BY <2>1 DEF QueryMonitors
    <3>2. \A j \in DOMAIN m.queries : m.queries[j] \in PrometheusQueries
      BY <3>1
    <3>3. \A j \in DOMAIN m.queries : m.queries[j].severity \in Severities \cup {""}
      BY <1>5, Zenon DEF SeveritiesAreKnown
    <3> QED
      BY <3>2, <3>3
  <2>4. ASSUME NEW q \in PrometheusQueries, q.severity \in Severities \cup {""}
        PROVE  WithSeverity(q, "Down").severity \in Severities
    <3>1. WithSeverity(q, "Down").severity = Default(q.severity, "Down")
      BY DEF WithSeverity, PrometheusQueries
    <3> QED
      BY <1>4, <2>4, <3>1
  <2>5. \A j \in DOMAIN queries : queries[j].severity \in Severities
    BY <2>3, <2>4
  <2> HIDE DEF queries
  <2>6. g.monitor.kind = "prometheus" /\ g.monitor.queries = queries
    BY <1>2, <2>1, <2>2 DEF QueryMonitors
  <2> QED
    BY <2>5, <2>6 DEF Questions, Range
<1>6. CASE m.kind # "prometheus"
  <2>1. m.severity \in Severities \cup {""}
    BY <1>6 DEF SeveritiesAreKnown
  <2>2. \/ WithDefaults(m) = WithSeverity(m, "Down")
        \/ WithDefaults(m) = [WithSeverity(m, "Degraded") EXCEPT
                                !.historyRuns = IF m.historyRuns <= 0 THEN 1 ELSE m.historyRuns,
                                !.failedRunsThreshold = IF (IF m.historyRuns <= 0 THEN 1 ELSE m.historyRuns) = 1
                                                          THEN 1 ELSE WithSeverity(m, "Degraded").failedRunsThreshold]
    BY <1>3, <1>6 DEF WithDefaults, Monitors, HTTPMonitors, UnitMonitors, JUnitMonitors, QueryMonitors
  <2>3. WithDefaults(m).severity \in {Default(m.severity, "Down"), Default(m.severity, "Degraded")}
    BY <1>3, <1>6, <2>2 DEF WithSeverity, Monitors, HTTPMonitors, UnitMonitors, JUnitMonitors, QueryMonitors
  <2>4. WithDefaults(m).kind = m.kind
    BY <1>3, <1>6, <2>2 DEF WithSeverity, Monitors, HTTPMonitors, UnitMonitors, JUnitMonitors, QueryMonitors
  <2>5. g.monitor.kind # "prometheus" /\ g.monitor.severity \in Severities
    BY <1>2, <1>4, <1>6, <2>1, <2>3, <2>4
  <2> QED
    BY <2>5, OneQuestion
<1> QED
  BY <1>5, <1>6

\* With known severities, what is down in a cycle that hears everybody is reported, at least as
\* severe as configured and with its check among the reasons.
THEOREM NothingIsMissed ==
    ASSUME SeveritiesAreKnown
    PROVE  Spec => []DownIsReported
<1>1. CycleInv => DownIsReported
  <2> SUFFICES ASSUME CycleInv, Complete, NEW g \in Probers, NEW i \in DOMAIN Questions(g.monitor),
                      truth[Target(g.monitor, i)] = "down", ~HasErred(g)
               PROVE  LET question == Questions(g.monitor)[i]
                          said     == report[g.sub]
                      IN  /\ said.status \notin {"omitted", "Healthy"}
                          /\ Level(said.status) >= GetSeverityLevel(question.severity)
                          /\ \E k \in DOMAIN said.reasons : said.reasons[k] = question.check
    BY DEF DownIsReported
  <2>1. /\ TypeOK /\ Running /\ Collected /\ (\A h \in Probers : SoundProbe(h))
        /\ report = MergeStatuses /\ AllHeard
    BY DEF CycleInv, Complete, Reported, Running
  <2> DEFINE question == Questions(g.monitor)[i]
        said == MergeStatuses[g.sub]
  <2>2. PICK j \in DOMAIN results : results[j].by = g
    BY <2>1, AllHeardIsEverybody
  <2> DEFINE r == results[j]
  <2>3. r \in Range(results) /\ r.by = g
    BY <2>2 DEF Range
  <2>4. r \in Results /\ RightResult(g, r) /\ ~r.error
    <3>1. r \in Results /\ RightResult(g, r)
      BY <2>1, <2>3, CollectedIsRight
    <3>2. ~r.error
      BY <2>2 DEF HasErred
    <3> QED
      BY <3>1, <3>2
  <2>5. question.severity \in Severities
    <3>1. file \in Files
      BY <2>1 DEF TypeOK, Running
    <3> QED
      BY <3>1, QuestionsAreKnown DEF Probers, Range
  <2>6. /\ r.status \in Severities /\ Level(r.status) >= GetSeverityLevel(question.severity)
        /\ question.check \in Range(r.reasons)
    BY <2>4, <2>5 DEF RightResult
  <2>7. g.sub \in Subs
    BY DEF Subs
  <2> HIDE DEF said, question, r
  <2>8. /\ said.status \in Severities /\ Level(said.status) >= Level(r.status)
        /\ Range(r.reasons) \subseteq Range(said.reasons)
    BY <2>1, <2>3, <2>4, <2>6, <2>7, ReportTells DEF said
  <2>9. Level(said.status) >= GetSeverityLevel(question.severity)
    <3>1. Level(said.status) \in 0..4 /\ Level(r.status) \in 0..4 /\ GetSeverityLevel(question.severity) \in 0..4
      BY Levels
    <3> QED
      BY <2>6, <2>8, <3>1
  <2>10. \E k \in DOMAIN said.reasons : said.reasons[k] = question.check
    BY <2>6, <2>8 DEF Range
  <2>11. said.status \notin {"omitted", "Healthy"}
    BY <2>8 DEF Severities
  <2> QED
    BY <2>1, <2>9, <2>10, <2>11 DEF said, question
<1> QED
  BY <1>1, CycleInvariant, PTL

\* With known severities, a sub-component of which something could not be asked is not reported
\* healthy by a cycle that hears everybody.
THEOREM DoubtIsNotHealth ==
    ASSUME SeveritiesAreKnown
    PROVE  Spec => []ErrorsLeaveDoubt
<1>1. CycleInv => ErrorsLeaveDoubt
  <2> SUFFICES ASSUME CycleInv, Complete, NEW g \in Probers, NEW t \in Targets(g.monitor),
                      truth[t] = "error", report[g.sub].status = "Healthy"
               PROVE  FALSE
    BY DEF ErrorsLeaveDoubt
  <2>1. /\ TypeOK /\ Running /\ Collected /\ (\A h \in Probers : SoundProbe(h))
        /\ report = MergeStatuses /\ AllHeard
    BY DEF CycleInv, Complete, Reported, Running
  <2>2. PICK r \in Range(results) : r.by = g
    BY <2>1, AllHeardIsEverybody DEF Range
  <2>3. r.error
    <3>1. RightResult(g, r)
      BY <2>1, <2>2, CollectedIsRight
    <3>2. PICK i \in DOMAIN Questions(g.monitor) : t = Target(g.monitor, i)
      BY DEF Targets
    <3> QED
      BY <3>1, <3>2 DEF RightResult, Results
  <2> DEFINE s == g.sub
        Heard == {x \in Range(results) : x.by.sub = s}
        Right == {x \in Heard : ~x.error}
  <2>4. s \in Subs /\ r \in Heard
    BY <2>2 DEF Subs
  <2>5. /\ \A x \in Right : x.status \notin Severities
        /\ \E x \in Right : Unhealthy(x)
    BY <2>1, <2>3, <2>4, ReportTells
  <2>6. PICK x \in Right : Unhealthy(x)
    BY <2>5
  <2>7. x.by \in Probers /\ RightResult(x.by, x) /\ ~x.error
    BY <2>1, CollectedIsRight
  <2>8. \A q \in Range(Questions(x.by.monitor)) : q.severity \in Severities
    <3>1. file \in Files
      BY <2>1 DEF TypeOK, Running
    <3> QED
      BY <2>7, <3>1, QuestionsAreKnown DEF Probers
  <2>9. x.status \in Severities
    BY <2>6, <2>7, <2>8 DEF RightResult
  <2> QED
    BY <2>5, <2>9
<1> QED
  BY <1>1, CycleInvariant, PTL
================================================================================
