------------------------------ MODULE MonitorConfig ------------------------------
(***************************************************************************)
(* The configuration file of the component monitor: which files are        *)
(* accepted, what is filled in, which probers they lead to, and which       *)
(* Prometheus each prober asks.                                             *)
(*                                                                         *)
(* A component of the file names a sub-component and has a set of monitors, *)
(* at most one of a kind.  "" is a value that is not set; a duration counts  *)
(* ticks or is Unparsable, and 0 is also a query's duration or step that is  *)
(* not set.  The monitors of Prow jobs appear with the numbers JUnitProber   *)
(* takes for its constants.                                                  *)
(***************************************************************************)
EXTENDS OutageTypes, Sequences

CONSTANTS
    URLs,         \* what url.Parse accepts as http or https
    Kubeconfigs   \* clusters with a file in --kubeconfig-dir, none without that flag

InCluster == "in-cluster"
Unparsable == -1

\* What a file may say of a monitor: a severity is any string, those of the enumeration among them.
SeverityNames == STRING \cup Severities

HTTPMonitors == [kind : {"http"}, check : STRING, retryAfter : Int, severity : SeverityNames]

UnitMonitors == [kind : {"unit"}, check : STRING, severity : SeverityNames]

JUnitMonitors ==
    [kind : {"junit"}, check : STRING, maxAge : Int, historyRuns : Int, failedRunsThreshold : Int,
     severity : SeverityNames]

PrometheusLocations ==
    [url : STRING, cluster : STRING, namespace : STRING, route : STRING, service : STRING]

PrometheusQueries == [check : STRING, severity : SeverityNames, duration : Int, step : Int]

QueryMonitors == [kind : {"prometheus"}, location : PrometheusLocations, queries : Seq(PrometheusQueries)]

Monitors == HTTPMonitors \cup UnitMonitors \cup JUnitMonitors \cup QueryMonitors

(***************************************************************************)
(* loadAndValidateConfig.                                                   *)
(***************************************************************************)
AcceptsHTTP(m, frequency) == m.retryAfter # Unparsable /\ m.retryAfter <= frequency

AcceptsUnit(m) == m.check # ""

AcceptsJUnit_ThresholdFree(m) ==
    /\ m.check # "" /\ m.maxAge # Unparsable /\ m.maxAge > 0
    /\ m.historyRuns >= 0
    /\ m.historyRuns > 1 => m.failedRunsThreshold >= 1

AcceptsJUnit(m) ==
    /\ m.check # "" /\ m.maxAge # Unparsable /\ m.maxAge > 0
    /\ m.historyRuns >= 0
    /\ m.historyRuns > 1 => m.failedRunsThreshold \in 1..m.historyRuns

\* A URL alone, or a cluster with a namespace and a service (the monitor's own cluster)
\* or a route (any other, which needs a kubeconfig file).
AcceptsLocation(l) ==
    \/ l.url \in URLs /\ {l.cluster, l.namespace, l.route, l.service} = {""}
    \/ /\ l.url = "" /\ l.namespace # ""
       /\ IF l.cluster = InCluster
            THEN l.service # "" /\ l.route = ""
            ELSE l.cluster \in Kubeconfigs /\ l.route # "" /\ l.service = ""

\* Durations and steps are checked after a step was derived from a valid duration.
AcceptsQuery(q) ==
    /\ q.duration # Unparsable /\ q.step # Unparsable
    /\ q.step # 0 => q.duration # 0

AcceptsPrometheus(m) ==
    AcceptsLocation(m.location) /\ \A i \in DOMAIN m.queries : AcceptsQuery(m.queries[i])

Accepts(file) ==
    /\ file.frequency # Unparsable
    /\ \A i \in DOMAIN file.components : \A m \in file.components[i].monitors :
          CASE m.kind = "http"       -> AcceptsHTTP(m, file.frequency)
            [] m.kind = "unit"       -> AcceptsUnit(m)
            [] m.kind = "junit"      -> AcceptsJUnit(m)
            [] m.kind = "prometheus" -> AcceptsPrometheus(m)

(***************************************************************************)
(* Defaults: of the configuration, and of the probers' constructors.        *)
(***************************************************************************)
Default(severity, else) == IF severity = "" THEN else ELSE severity

WithSeverity(x, else) == [x EXCEPT !.severity = Default(@, else)]

WithDefaults(m) ==
    CASE m.kind \in {"http", "unit"} -> WithSeverity(m, "Down")
      [] m.kind = "prometheus" ->
            [m EXCEPT !.queries = [i \in DOMAIN m.queries |-> WithSeverity(m.queries[i], "Down")]]
      [] m.kind = "junit" ->
            LET runs == IF m.historyRuns <= 0 THEN 1 ELSE m.historyRuns
            IN  [WithSeverity(m, "Degraded") EXCEPT
                    !.historyRuns = runs,
                    !.failedRunsThreshold = IF runs = 1 THEN 1 ELSE @]

(***************************************************************************)
(* The clients: one for each location, found again by its key.              *)
(***************************************************************************)
GetPrometheusLocationKey_NoService(l) ==
    IF l.url # "" THEN <<l.url>> ELSE <<l.cluster, l.namespace, l.route>>

GetPrometheusLocationKey(l) ==
    IF l.url # ""             THEN <<l.url>>
    ELSE IF l.cluster = InCluster THEN <<l.cluster, l.namespace, l.service>>
    ELSE                           <<l.cluster, l.namespace, l.route>>

\* What a client made for a location talks to.
Address(l) ==
    IF l.cluster = "" THEN [url |-> l.url]
    ELSE IF l.cluster = InCluster THEN [service |-> l.service, namespace |-> l.namespace]
    ELSE [cluster |-> l.cluster, namespace |-> l.namespace, route |-> l.route]

PrometheusMonitors(file) ==
    {m \in UNION {file.components[i].monitors : i \in DOMAIN file.components} : m.kind = "prometheus"}

CreatePrometheusClients(file) ==
    LET Locations == {m.location : m \in PrometheusMonitors(file)}
    IN  [key \in {GetPrometheusLocationKey(l) : l \in Locations} |->
            Address(CHOOSE l \in Locations : GetPrometheusLocationKey(l) = key)]

\* The probers, each with the sub-component it answers for.
CreateProbers(file) ==
    UNION {{[sub |-> file.components[i].sub, monitor |-> WithDefaults(m)] :
               m \in file.components[i].monitors} : i \in DOMAIN file.components}
================================================================================
