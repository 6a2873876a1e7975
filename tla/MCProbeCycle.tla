------------------------------ MODULE MCProbeCycle -------------------------------
(* Configuration files, of which each brings several probers of one sub-component, *)
(* or several locations, together; the last ones are refused.                       *)
EXTENDS ProbeCycle

HTTP(retryAfter, severity) ==
    [kind |-> "http", check |-> "page", retryAfter |-> retryAfter, severity |-> severity]

Unit(severity) == [kind |-> "unit", check |-> "unit", severity |-> severity]

JUnit(historyRuns, threshold) ==
    [kind |-> "junit", check |-> "job", maxAge |-> 1, historyRuns |-> historyRuns,
     failedRunsThreshold |-> threshold, severity |-> ""]

Query(check, severity) == [check |-> check, severity |-> severity, duration |-> 0, step |-> 0]

Prometheus(location, queries) == [kind |-> "prometheus", location |-> location, queries |-> queries]

URL == [url |-> "https://thanos", cluster |-> "", namespace |-> "", route |-> "", service |-> ""]

Service(service) ==
    [url |-> "", cluster |-> InCluster, namespace |-> "monitoring", route |-> "", service |-> service]

Route(cluster) ==
    [url |-> "", cluster |-> cluster, namespace |-> "monitoring", route |-> "thanos", service |-> ""]

File(frequency, components) == [frequency |-> frequency, components |-> components]

Component(sub, monitors) == [sub |-> sub, monitors |-> monitors]

WebAndQueries ==
    File(2, <<Component("api", {HTTP(1, "Degraded"),
                                Prometheus(URL, <<Query("latency", "Suspected"), Query("errors", "")>>)})>>)

TwoServices ==
    File(1, <<Component("api", {Prometheus(Service("blue"), <<Query("errors", "Degraded")>>)}),
              Component("ui", {Prometheus(Service("green"), <<Query("errors", "")>>)}),
              Component("ui", {Unit("CapacityExhausted")})>>)

TwoClusters ==
    File(1, <<Component("api", {Prometheus(Route("build01"), <<Query("errors", "")>>), Unit("Degraded")}),
              Component("api", {Prometheus(Route("build02"), <<Query("errors", "")>>)})>>)

Jobs(historyRuns, threshold) ==
    File(1, <<Component("api", {JUnit(historyRuns, threshold), Unit("")})>>)

ConfirmedLate == File(2, <<Component("api", {HTTP(2, ""), Unit("Suspected")})>>)

NoTimeAtAll == File(0, <<Component("api", {Unit(""), HTTP(0, "Suspected")})>>)

Refused ==
    {File(1, <<Component("api", {HTTP(2, "")})>>),
     File(1, <<Component("api", {Prometheus(Route("unknown"), <<Query("errors", "")>>)})>>),
     File(1, <<Component("api", {Prometheus([URL EXCEPT !.cluster = "build01"], <<>>)})>>),
     File(1, <<>>),
     Jobs(2, 3), Jobs(2, 0), Jobs(-1, 1)}

AcceptedFiles ==
    {WebAndQueries, TwoServices, TwoClusters, ConfirmedLate, NoTimeAtAll, Jobs(3, 2), Jobs(0, 0), Jobs(1, 5)}

AllFiles == AcceptedFiles \cup Refused

UnknownSeverity == {File(1, <<Component("api", {Unit("Critical")})>>)}
================================================================================
