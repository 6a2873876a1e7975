# A verification project for ship-status-dash

ship-status-dash keeps an availability dashboard: people and *component
monitors* report outages of components and sub-components, a server stores them
with an audit log, shows statuses and tells Slack. This directory holds TLA+
models of the program's Go code (`src/`), configurations that check them with TLC,
and proofs that TLAPS checks. Every definition is taken from the source; the
file `PROJECT.json` maps each definition to the lines it stands for, lists the
hazards the properties aim at, and for every property names a mutated definition that
breaks it.

1. [The system](#1-the-system)
2. [What is hard about it](#2-what-is-hard-about-it)
3. [The modules](#3-the-modules)
4. [The runs](#4-the-runs)
5. [Where the code does not do what it says](#5-where-the-code-does-not-do-what-it-says)
6. [The proofs](#6-the-proofs)
7. [What is not modelled](#7-what-is-not-modelled)
8. [Plan](#8-plan)

To check a run or a proof:

    tlc -config Dashboard_reports.cfg MCDashboard.tla
    tlapm TableProofs.tla

## 1. The system

Two programs share `src/pkg`: the **dashboard** (an HTTP server with a PostgreSQL
database and a Slack client) and the **component monitor** (a loop of probes that
posts reports to the dashboard).

| Component | Source | State | Operations |
|---|---|---|---|
| Outage store | `pkg/outage/outage_manager.go`, `pkg/repositories/outage_repository.go`, hooks in `pkg/types/models.go` | tables of outages (soft-deleted rows included), reasons, audit log | CreateOutage, UpdateOutage (validate, read again, save), DeleteOutage; queries of active outages |
| Report processing | `cmd/dashboard/component_monitoring_report.go`, `handlers.go` | none of its own; reads the configuration, writes pings and outages | ValidateRequest, Process |
| Absent-report checker | `cmd/dashboard/absent_report.go` | none of its own | a pass over the monitored sub-components per tick |
| Outage API | `cmd/dashboard/handlers.go` | none of its own | create, update, delete outages; status pages |
| Report pings | `pkg/repositories/component_ping_repository.go` | last report per sub-component | upsert, reads |
| Slack reporter | `pkg/outage/slack_report.go`, `pkg/repositories/slack_thread_repository.go` | table of threads | ReportOutage, ReportOutageUpdate |
| Configuration manager | `pkg/config/manager.go` | configuration, hash of the file, callbacks, behind a lock | NewManager, Get, Watch, OnUpdate, reloadIfChanged |
| Probe orchestrator | `cmd/component-monitor/probe-orchestrator.go`, `report-client.go` | probers, results channel, context | Run: drain, start probes, collect, merge, send, wait |
| Probers | `http-prober.go`, `prometheus-prober.go`, `systemd-prober.go`, `junit-prober.go` in `cmd/component-monitor` | none between probes | Probe |
| Monitor configuration | `main.go`, `prometheus.go` in `cmd/component-monitor`, `pkg/types/config.go` | none: a file becomes probers | validation, defaults, Prometheus clients, probers |
| Authentication, groups | `cmd/dashboard/auth.go`, `pkg/auth/groups.go` | group cache | HMAC check, membership |
| External page cache | `cmd/dashboard/external_page_handler.go` | one page and its time | Get |
| Frontend, mocks, migration, hack scripts | `frontend`, `cmd/mock-*`, `cmd/migrate`, `hack` | | |

How they interact:

- A request is served by a goroutine of its own. Handlers, report processing and
  the checker's goroutine share the database and the configuration manager
  and nothing else; no lock orders them. What they know of an outage is a private copy of
  its row.
- Every write of an outage goes through the outage manager: it commits first
  and then calls Slack, outside the transaction. The audit log is written by gorm
  hooks inside the transaction.
- The configuration manager's watcher replaces the configuration under everybody
  and then runs callbacks: the monitor starts a new orchestrator and cancels the
  old one, the dashboard reloads the group membership.
- The monitor's orchestrator starts one goroutine per prober and receives their
  results from one unbuffered channel, which outlives the cycle.

## 2. What is hard about it

*Stale copies.* All writers save the whole row they read earlier, so anything committed in between
may be undone; a deleted row may still have copies on their way to it.
*Check, then act.* Reports and the checker look for an active outage and create
one some statements later. *Partial failure.* A report with several statuses
fails in the middle; resolving several outages goes on after an error; Slack is
told after the commit, or not at all. *Reloads.* The configuration changes between
validation and processing, between two reads of the same file, before the callback
is there. *Late goroutines.* A probe outlives its cycle or its orchestrator.
*Shared copies.* One page of an external source is served to everybody, refreshed by whoever
finds it expired. *Half an answer.* A prober that erred, one that was not heard and one that says
healthy are three things, and only one of them may end outages. *A moving subject.* The JUnit prober reads a bucket object by object while builds start
and finish. *Time.* Absence must be noticed, and noticed to be over. The list of
these hazards with the lines where they bite is in `PROJECT.json`.

What makes each part correct:

- store: the audit log is the history of each row, whatever overlaps; deleted
  outages stay deleted; a request changes what it was asked to change;
- reports and checker: one active outage per source, which agrees with what was last reported;
  nothing is ended without a cause; silence and presence are noticed in the end;
- status: pages of a component and of its sub-components agree;
- configuration: what is in the file is served in the end and used;
- orchestrator: a complete cycle has heard everybody; reports keep coming;
  cancellation works; the merge takes the worst answer whatever the order;
- Slack: a thread tells what the row holds, no outage is announced in a channel more often
  than the list of channels names it, those who should know do;
- probers and their configuration: what is down is reported with its severity and reasons, nothing
  else is, and an error never turns into healthy;
- JUnit prober: the verdict is the one of the last runs;
- pings: a report that was processed is remembered, whatever is processed beside it;
- external pages: nobody is served an older page than was served before, the source is asked only when it must be,
  and everybody is answered.

## 3. The modules

| Module | Models | Kind |
|---|---|---|
| `OutageTypes` | severities, statuses and their conversions | operators |
| `OutageStore` | the write path of an outage row under overlapping requests | system |
| `AuditedTable` | what the store promises: each change is one logged step | abstract specification |
| `SerialRequests` | the store with a memory of whether requests have overlapped | system, history variable |
| `MCOutageStore` | instance | for TLC |
| `DashboardState` | configuration, outages and pings the dashboard's parts share | shared state |
| `ReportProcessing` | ValidateRequest and Process, extends `DashboardState` | component |
| `AbsentChecker` | the checker's goroutine, extends `DashboardState` | component |
| `Dashboard` | both next to people, reloads, time, failures, restarts | composition |
| `MCDashboard` | configurations and reports for small instances | for TLC |
| `DashboardProofs` | theorems about `Dashboard` | proofs |
| `PingUpsert` | the three statements that store a ping, by overlapping reports | component |
| `MCPingUpsert` | instance | for TLC |
| `TableProofs` | theorems about `OutageStore`, `SerialRequests` and `PingUpsert` | proofs |
| `ComponentStatus` | the status pages while outages and sub-components come and go | component |
| `ExternalPageCache` | the copy of an external page under concurrent requests | component |
| `PageProofs` | theorems about `ComponentStatus` and `ExternalPageCache` | proofs |
| `ConfigReload` | the configuration manager from startup on, and the use made of it | component |
| `ProbeOrchestrator` | Run, the probe goroutines and the cancellation | component |
| `MCProbeOrchestrator` | instance | for TLC |
| `MonitorConfig` | which configuration files are accepted and what probers and clients they make | operators |
| `StatusMerge` | mergeStatusesForSubComponent over sequences of results | operators |
| `MergeProofs` | lemmas about its folds, and what the merge tells of any sequence of results | proofs |
| `MonitorProofs` | theorems about `ProbeOrchestrator`, `ConfigReload` and the merge between them | proofs |
| `ProbeCycle` | a monitor's cycle from its file to its report: the probers' questions and the merge | composition |
| `MCProbeCycle` | configuration files | for TLC |
| `ProbeCycleProofs` | theorems about `ProbeCycle` | proofs |
| `SlackReporting` | what Slack hears of one outage | component |
| `MCSlackReporting` | instance | for TLC |
| `SlackReportingProofs` | theorems about it | proofs |
| `JUnitProber` | which builds are judged, and how, while the job goes on | component |
| `MCJUnitProber` | test cases whose names have commas | for TLC |
| `JUnitProberProofs` | theorems about it | proofs |

A module of proofs may be about two components that share nothing. Where it extends both, one of them has a prefix in the
names of its specification: `PingSpec`, `CacheSpec`, `ReloadSpec` and their parts.

### OutageStore

`outages`, `deleted` and `audit` are the tables; `req` is what each request
goroutine holds between statements: the edited copy (`draft`), the fields it was
asked to change (`provided`, used by properties only) and the row the Before hook read. An
update is LoadForPatch or LoadForResolve (handler or resolver reads and edits), ManagerLoad
(the outage manager validates and reads the row again), BeforeUpdate (the hook's read in the
transaction) and SaveOutage (UPDATE to commit). These are separate steps because under READ COMMITTED
another request may commit between any two of the statements; from the UPDATE to
the commit the row is locked, which is why the reload by AfterUpdate and the insert
into the audit log are one step with it. `Abort` is a failing statement or a stop of
the program. Columns are severity, description, end_time and confirmed_at; a time is there or not. Reasons
and SlackThreads saved along with a row are left out.
`SerialRequests` adds the history variable `overlapped`: two requests have been in progress at one time.

### DashboardState, ReportProcessing, AbsentChecker, Dashboard

`outages` holds rows by slot with creator, source, whether they have ended and
are confirmed; `pings` holds the age of the last report in ticks of the
frequency, and ages above the threshold are alike. `handler[h]` is a goroutine with a report:
validate, then for each status lookup and ping, query, decide, and resolve or create. `checker` is the
checker's pass: the ping is judged when it is read, and what is found is a copy. `editor[e]` is
a person's PATCH between load and save. `told` is a history variable: what the
last processed report of a monitor said, forgotten when a person changes an outage
or a restart comes. `UserCreates` takes any source: a POST sets `discovered_from` as it likes (`handlers.go:221-241`), and the
checker finds its outages by that column alone (`outage_repository.go:147-153`). A PATCH also goes through the manager, of which the second read
is not repeated here; `OutageStore` has it.

`Faults` switches failing statements and restarts on, `Overlap` lets one monitor's
reports be processed side by side (a client gives up after 30 s and sends its next
report; an old and a new orchestrator overlap around a reload of the monitor).
With rows created by different monitors there is nothing for two handlers of
different monitors to disturb, for every query of report processing names the
creator, so one handler is enough where reports do not overlap.

Here the upsert of a ping is one step; `PingUpsert` has its statements.

### PingUpsert

`up[r]` is a report in progress: the status it is at, the time it took for it (`stamp`), the lookup (`first`) and
the insert or the save. `ping` is the table, 0 where there is no row. The insert of a row that is there by now is
refused by the unique index; the branch for `gorm.ErrDuplicatedKey` is never taken, because the database is
opened without `TranslateError`, so the report ends with an error and its remaining statuses are not
processed. `floor`, the ping that was there when the status was begun, is a history variable. `Break`
is a statement that fails.

### ExternalPageCache

One page and its cache. `lock` is the writer's side of the `RWMutex`; a reader holds its side only within one
step, so a reader waits exactly while there is a writer. A request looks (`ReadCached`), queues (`TakeLock`), looks again
(`CheckAgain`) and fetches: the source answers with the version it has (`Respond`), and the body arrives
(`Store`) or something fails (`FetchFails`). `content` is the version of the copy; an empty body counts as no copy, as `len(content) == 0` does
in the code. `age`, `spent` and `gone` count ticks; a fetch may take `MaxFetch`, the time limit of its client. `gone`, `seen` and each
request's `floor` are history variables.

### ComponentStatus

The page of a component and those of its sub-components are computed by the operators
GetComponentStatus and GetSubComponentStatus from `outages` and `subs`; actions change both.
An end time is unknown, in the future or in the past, for pages show an outage until its end.

### ConfigReload

`main` is how far `main()` is (NewManager's two reads, first use, OnUpdate), `poll` where the watcher's goroutine is;
`file` changes at any moment. Contents are numbers; `Valid` are those that load. A hash is
the content it was taken of. `applied` is the configuration the orchestrator (or the group cache)
was made from. The dashboard uses the same manager with another callback; there is no first use
there, which `ApplyFirst` covers as the group membership loaded at startup.

### ProbeOrchestrator

`probe[p, k]` is a goroutine of prober `p`: slot 0 of this cycle, others of earlier cycles that may
still answer. The channel is unbuffered, so a goroutine with a result waits in its send; that is
"sending". Draining takes waiting results until there is none, and a goroutine that is about
to send at that moment is `running`. `cause`, `onTime` and `late` are history variables. What a probe asks of the network is its answer: up, down or error, at any time or never.
`Merged` is the outcome of the merge for up, down and error.

### MonitorConfig, StatusMerge, ProbeCycle

`MonitorConfig` and `StatusMerge` are operators: `Accepts` is the validation of the file, `WithDefaults` what the configuration
and the constructors fill in, `CreatePrometheusClients` the map of clients by
`GetPrometheusLocationKey`, `CreateProbers` the probers; `MergeStatusesForSubComponent` is the merge over a sequence of results with severities and reasons.
`ProbeCycle` puts them to work. `file` is the accepted configuration, `truth` how each monitored target is in this cycle, chosen when the
cycle starts: up, down, impossible to ask, changing at will, or (HTTP) recovering within `retry_after`.
`probe[g]` is prober `g`: the question it is at, the failures it found, until when it waits to confirm, its result.
HTTP confirms a wrong status code by a second request; Prometheus runs its queries in order until one cannot be run and
answers with the most critical failed one; systemd asks once; of JUnit the counting with its defaults is here and the rest in `JUnitProber`. `results` are
collected in the order of arrival, until all have come, the collection times out or the context is canceled.
Goroutines that outlive their cycle are the matter of `ProbeOrchestrator`; here the next cycle waits for them.

### SlackReporting

One outage and the requests that create and change it. `row` is what is
committed, `threads` the table of threads, each with what its messages tell so far (a reply lists only
what changed), `roots` counts opening messages per channel. Each call to Slack and each statement is
a step that may fail. The configuration is a list of channels with thresholds, which nothing validates: it may name a channel
twice, and each entry is posted to in its turn (a `Round`); stored threads are replied to in any order. The configuration may change or
lose the component. The two lookups of the component before a post are one step.

### JUnitProber

`build` and `latestFile` are the bucket, written by the job; `probe` holds what the prober has
read, one object per step. Listing pages are one step. The results of a finished build
never change, so fetching them all is one step. A result file is the sum of its `tests` attributes and the set of its
failing test cases; `JunitUnhealthy` and `JunitFailureSignature` judge it. A name is the sequence of its parts between commas, `Nameless` a test case without one, and
`Joined` the sorted names joined with commas, of which those inside names are not escaped. `old` builds started too long ago. The variables `moved`, `excuse`, `always` and `newest` record what
happened during a probe, for the properties.

## 4. The runs

`PROJECT.json` lists the runs; each `.cfg` starts with what it is about.

**OutageStore_concurrent** — one outage, two requests in flight, two users, up to
four audit entries. Two requests show every pair of interleaved statements, four entries
a creation, two rewrites and a deletion. It shows that the audit log mirrors the row
(`AuditMirrorsRow`), that the old side of every entry is a version that was committed and logged before, although the Before hook reads it some statements
earlier (`OldSidesAreVersions`), that a row is deleted exactly when the log says so and only further
DELETE entries follow (`NothingAfterDelete`), that no stale save touches a deleted row
(`DeletionIsFinal`), and that the store implements `AuditedTable`
(`ImplementsTable`). As long as requests have not overlapped
(`SerialSpec`, history variable `overlapped`) each entry's old side is the previous one's new side
(`SerialAuditChains`), and a save changes only
what its request was given (`SerialOnlyProvided`). `MaxAudit` stops the model at a full log, hence no deadlock check.

**Dashboard_reports** — a sub-component that a reload hands from one monitor to
another (the second may not resolve), reports, also those Process skips, the checker, failing statements, restarts, one active outage
that a person created under any source, deletions. At most one active outage per source (`OneActivePerSource`), and the table agrees with the last
report processed to its end (`ReportedStateHolds`). An outage is ended only by a healthy report of the monitor that opened it, or by the checker
if its source is an absent report, be it the checker's own or a person's, both only with auto-resolve, or by a person (`EndedForCause`; with nobody who edits,
a person's PATCH is left to the theorem).
Two slots are enough for a second outage of the same source to appear and for a person's next to the checker's; ended rows give their slot back. With
`Threshold = 0` a ping is in time or it is not.

**Dashboard_people** — a person ends and deletes outages while reports and the
checker hold copies of them, and the sub-component's monitoring is switched on and off. With fairness only for the checker's goroutine, whose timer ticks for
as long as the server runs, a silent monitor's sub-component has an active outage again and again, whatever
people do (`AbsenceIsReported`); with pings in time and auto-resolve it is without
one of the checker's again and again (`PresenceIsNoticed`). No fairness for requests, people, reloads or
time. Statements do not fail for ever here (`Faults = FALSE`): a database that always fails keeps the checker from everything.
Three slots hold an outage of the monitor, one of the checker and one whose copy a person still holds; `Threshold = 0` keeps the ages of pings few. People
create nothing here (`MaxUser = 0`): theirs would fill the slots, and a checker without a free slot cannot report, which is a limit of the instance and
not of the database.

**Ping_reports** — two reports of the same two sub-components side by side, one failing statement, four
readings of the clock, which are enough for the ping found, the two written and a later one to differ. Only first reports collide
(`OnlyFirstReportsCollide`), a ping goes back only by a save that overlapped and not behind what that report found
(`PingsGoBackOnlyInRaces`), and although a collision skips the statuses behind it, everybody is
pinged in the end (`EverybodyIsPinged`). Fairness: monitors report again and requests are processed.

**PageCache_requests** — two requests at a time, three versions of the page, the second of which is empty, a TTL of two ticks and
fetches of up to one. Two requests show one that waits for the other's fetch and one that finds the copy under the read lock; three
versions a copy that is overtaken twice. Pages never go back (`PagesNeverGoBack`), the source is asked only when the copy has expired
(`FetchesOnlyWhenExpired`), nobody is refused a page that others were given unless the source turned empty (`ServedOnceServedAlways`), a
page served without a failed refresh was the source's less than the TTL and a fetch ago (`PagesAreRecent`), and every request is answered
however often the source fails (`EveryRequestIsAnswered`). Fairness: goroutines run and fetches end (the client's time limit), and Go's locks
let every waiter in: strong fairness of `ReadCached` and `TakeLock`.

**ProbeCycle_reports** — fifteen configuration files, eight accepted and seven refused: an HTTP page and
Prometheus queries of one sub-component, two services and two clusters as Prometheus locations, jobs with thresholds and defaults,
`retry_after` as long as the cycle, and a frequency of 0. Each file brings together what may be mixed up: two or three probers, two locations, or two severities. What is down throughout a complete cycle is reported with
at least its severity and its check as a reason (`DownIsReported`); a report of any cycle gives only true reasons, of
the sub-component it is about (`NoFalseAlarms`); what cannot be asked is not reported healthy by a complete
cycle (`ErrorsLeaveDoubt`).

**Orchestrator_cycles** — two probers of one sub-component, each with a goroutine of an earlier cycle at most; one of
them minds its context, like the systemd prober. A complete cycle that started without late goroutines has heard
every prober (`CompleteCyclesSpeakForAll`); at most one report after cancellation
(`OneReportAfterCancel`); reports keep coming although probes hang (`ReportsKeepComing`); a
canceled orchestrator returns (`StopsWhenCanceled`), and nothing of a context-aware prober stays
(`CtxAwareProbesEnd`). Fairness: Run's goroutine is scheduled and its timers fire; a probe need not answer
unless its context is canceled, because the requests of all probers carry the context. The system stops after cancellation, hence no deadlock check.

**ConfigReload_polls** — seven contents, every other one valid, never going back,
changing after startup at any point of a poll, with failing reads and failing callbacks.
What is skipped is what is served (`SkippedOnlyWhenServed`), the file's content is served in the
end (`FileIsServed`) and used unless its use was refused (`ServedIsUsed`). Fairness: main and the watcher
run; nobody has to edit the file.

**ComponentStatus_pages** — three outages of two sub-components with confirmed and suspected ones, two
severities. Two sub-components are enough for healthy, partial and wholly affected.

**Slack_serial** — one outage, two channels, lists with different thresholds, with one channel twice, with none, three severities, requests one after another;
calls, statements and the process fail, and the configuration changes. When no request is in progress and nothing but reloads has happened, threads tell what
the row holds and carry the emoji of a resolved outage (`ThreadsTellTheRow`); if nothing at all has happened, an outage that
reaches a threshold is known to some channel (`SomeoneKnows`). While the database works, a channel gets no more opening messages than some configuration
in use has entries for it (`OneRootPerEntry`); and whatever fails, a channel with a thread gets another one only from a request
whose own list names it twice (`ReopenedByTheSameList`). `MaxRoots = 3` counts one message more than any list allows.

**JUnit_history** — up to four builds, the last two judged, both must fail alike. Four
builds let two start while a probe looks at two older ones; builds may overlap. Result files have no tests, or failing sets of which two differ; one name has a comma in it.
If no build finishes during a probe its verdict is that of the last runs (`QuietVerdictsAreRight`), the newest run finished when it began is
judged (`NewestIsJudged`), and a job whose builds follow each other is always judged (`SequentialRunsAreJudged`). With one run
to judge, which the code treats apart, only the third holds: `latest-build.txt` may name an older build.

**Slack_upgrade** ends in a violation: next section.

## 5. Where the code does not do what it says

One run of `PROJECT.json` shows a disagreement between the code and its comments:

- `Slack_upgrade`: an outage known to one channel is upgraded; other channels whose
  threshold it now reaches never hear of it, although it should be reported "to
  ensure that the correct channels are notified" (`src/pkg/outage/slack_report.go:89`).

Further configurations, kept here and run by hand, each refute one property and show
which condition of the runs above cannot be dropped:

| Configuration (module) | Property refuted | What TLC shows |
|---|---|---|
| `OutageStore_lost_update` (MCOutageStore) | `OnlyProvidedFieldsChange` | the second of two overlapping PATCHes writes back fields the first has changed (`handlers.go:365`), although "UpdateOutageJSON updates an existing outage with the provided fields" (`handlers.go:268`) |
| `Dashboard_overlap` (MCDashboard) | `OneActivePerSource` | two reports of one monitor side by side both find nothing active and both create an outage (`component_monitoring_report.go:149-176`) |
| `Dashboard_reports` with `Editors = {e1}`, `Edits = {"confirm"}` (MCDashboard) | `OneActivePerSource` | a PATCH that only confirms an outage writes back the end time it has read (`handlers.go:365`): an outage resolved meanwhile is active again, next to the one that was opened meanwhile |
| `Dashboard_reports` with `EndedByOwnerOnly` (MCDashboard) | `EndedByOwnerOnly` | the checker ends an outage that a person created with `discovered_from` set to an absent report (`handlers.go:221`, `outage_repository.go:147`) |
| `Dashboard_reload` (MCDashboard) | `KnownAfterValidation` | a reload between validation and processing removes a validated sub-component; the comment at `component_monitoring_report.go:104` says this should never happen |
| `Ping_collision` (MCPingUpsert) | `CollisionsAreHandled` | two first reports insert the same ping and the second fails (`component_ping_repository.go:45`), although "In that case, update the existing record instead." (line 43) |
| `ProbeCycle_unheard` (MCProbeCycle) | `UnheardIsNotHealthy` | a prober of a failing target is not heard before the cycle times out or is canceled, and its sub-component is reported healthy for its other prober (`probe-orchestrator.go:119`); an error would have had it omitted from the report |
| `ProbeCycle_invalid` (MCProbeCycle) | `DownIsReported` | a severity outside the enumeration becomes "Invalid", ranks like Healthy, and the failing sub-component is reported healthy (`probe-orchestrator.go:243`) |
| `Orchestrator_stale` (MCProbeOrchestrator) | `NoOldResults` | a probe still running while the channel is drained delivers its result into the next cycle |
| `ConfigReload_startup` (ConfigReload) | `FileIsServed` | an edit between the two reads of NewManager is hashed, not loaded, and skipped for ever (`manager.go:47`) |
| `ConfigReload_revert` (ConfigReload) | `FileIsServed` | content changes between the hash and the load of a poll and is set back (`manager.go:114`) |
| `ConfigReload_unused` (ConfigReload) | `ServedIsUsed` | a reload before OnUpdate is served, and no orchestrator is started with it (`component-monitor/main.go:329`) |
| `ComponentStatus_removed` (ComponentStatus) | `PartialWhenSomeHealthy` | outages of a removed sub-component make a component with a healthy sub-component count as wholly affected (`handlers.go:630`) |
| `Slack_overlap` (MCSlackReporting) | `OneRootPerEntry` | an update between the commit of an outage and its threads announces it twice (`slack_report.go:90`) |
| `Slack_serial` with `OneRootPerChannel` (MCSlackReporting) | `OneRootPerChannel` | a channel that the list names twice gets two opening messages although nothing fails (`slack_report.go:286-326`); the unique index (`models.go:258-265`) refuses the second thread when its message is out |
| `JUnit_race` (MCJUnitProber) | `RepeatedFailureIsReported` | the build found unfinished finishes, takes a place among the last runs and is then excluded; a job that always fails is reported healthy (`junit-prober.go:248`) |
| `JUnit_history` with `FailureSets <- NamelessSets` (MCJUnitProber) | `QuietVerdictsAreRight` | runs in which only test cases without a name fail are judged healthy (`junit-prober.go:523`), although the monitor's README says "Failing = zero total JUnit tests, or any failed testcase." |
| `JUnit_history` with `FailureSets <- AlikeSets` (MCJUnitProber) | `QuietVerdictsAreRight` | a run in which "a,b" fails and one in which "a" and "b" fail count as failing alike, for names are joined with commas that are not escaped (`junit-prober.go:554`) |

Also seen while reading, without a run: `<error/>` counts as a failure while the monitor's
README (line 33) names `<failure/>` only; the fallback of the JUnit prober to "the previous completed build" does
not check that it is completed; a callback that failed is not tried again until the file changes; goroutines of HTTP, Prometheus and
JUnit probes whose result nobody receives stay behind; nothing keeps a component monitor from being named like the
users the dashboard writes for itself.

## 6. The proofs

All theorems hold for every value of the constants that satisfies the assumptions named in the modules, each of which TLC
evaluates in a run. Most of these only say what kind of value a constant is. Some say more:
`RowAssumption`, `SlackValuesAssumption` and `CacheAssumption` keep "nothing there" apart from what may be there;
`NameAssumption` says that no monitor is named like the checker or the users' entry, which the code takes for granted;
`NamesAssumption` says that `SortedNames` has each name of a test case once; `SlackAssumption` that the bound `MaxRoots` is above what any list allows;
`StatusAssumption` says that a component has finitely many sub-components, `FilesAssumption` that a file has finitely many monitors.
Where a theorem assumes more, its statement begins with ASSUME, and a configuration of section 5 or a constant of a run shows why.

Every safety property of the passing runs is stated by a theorem.

**TableProofs.** The outage table, for any set of ids, requests, users, patches and any bound on the log:

- `TypeCorrect`: `TypeOK`. The lemma `EditsAreRows` says that edits make rows of rows, `MovedRequest` what a step does
  to one request.
- `EntriesStartFromVersions`: `OldSidesAreVersions`. `VersionInv` adds to the invariant below that what a request's hook has read is a version that
  was logged (`HooksHoldVersions`); logs only grow, so it stays one, whatever is committed meanwhile.
- `AuditFaithful`: `AuditMirrorsRow`; `DeleteEndsLog`: `NothingAfterDelete`. Neither is inductive: a save logs for the row
  its request holds, so the proof needs `RequestsKnowTheirOutage` (an active request's outage was
  created). `LogInv` is the conjunction of the four; a step either leaves the log alone or appends one entry to one
  outage (`LogGrows`), and each conjunct has one step per kind of entry.
- `DeletedStaysDeleted`: `DeletionIsFinal`, from the same invariant.
- `StoreImplementsTable`: every step of the store is a step of `AuditedTable` or a stutter (`StepKinds`), so
  `ImplementsTable`.
- `SerialLogsChain`: `SerialAuditChains`, and `SerialSavesKeepFields`: `SerialOnlyProvided`. `SerialInv` adds to `LogInv` that, as long as
  requests have not overlapped, what a request has read is what the table holds (`CopiesAreCurrent`). One request may
  finish and another begin, so the step that matters is that nobody is between his read and his save when another saves.

The pings: `PingTypeCorrect`; `PingedSubsAccept`: `OnlyFirstReportsCollide`, and `PingsAdvance`: `PingsGoBackOnlyInRaces`, both from
`Accounted`: a report that is about to insert found no ping, and one that is about to save holds a time no earlier than the ping it found.

**DashboardProofs.** For any sub-components, monitors, configurations, reports and numbers of handlers and editors, over every interleaving
of reports, the checker, people, reloads, failures and restarts:

- `TypeCorrect`: `TypeOK`. It needs the strongest of the invariants, `TypeInv`, because a step of a handler depends on what it found earlier:
  every copy that a handler, the checker or a person holds is of an outage whose slot still holds an outage of the same
  sub-component, creator and source, or nothing (`Tracks`); a handler that resolves has a healthy status and a configuration with auto-resolve (`SoundWork`), and so on.
- `EndsHaveCause`: `EndedForCause`, from `TypeInv`. A step that sets an end time is a person's save, or a save of a copy
  whose origin the invariant knows. A creator is known by its source except for people, who name any (`Origin`); so the theorem does not say
  that the checker ends only its own outages, which section 5 refutes.
- `ReportsAreKept`: `ReportedStateHolds`, where reports of one monitor do not overlap. `TellsInv` adds that no
  two handlers have one monitor (`OneRequestEach`) and that while a handler works on a status, what it still holds includes everything active of its monitor
  that must be ended (`FoundTells`).
- `NoDuplicates`: `OneActivePerSource`, where besides people who edit an outage only end it; they may create and delete as they like.
  `SourceInv` adds that whoever is about to create an outage has seen none of its own (`FoundNone`), that nobody adds one
  meanwhile, and that what people are about to save is ended (`EditsAreEnds`). The run `Dashboard_reports` has nobody who edits. Both assumptions
  are needed: `Dashboard_overlap`, and `Dashboard_reports` with people who confirm.

**MergeProofs.** `MergeTells` says what `mergeStatusesForSubComponent` makes of any sequence of results, in any order: it is
at least as severe as every answer and has the reasons of all failing ones and no others; a failing status is one of the answers; healthy
means that no answer has a severity; and a sub-component is omitted exactly if there is no answer, or an error
and nothing else but health. The merge is written with folds. The lemmas expand a fold to a recursive function, show that the function exists (`FoldExists`, by
the least length for which it would not) and carry a property from one element to the next
(by the least index at which it fails); that is how induction over a sequence is done here, where
theorems with an operator parameter cannot be cited.

**MonitorProofs.** The orchestrator, for any probers, any assignment to sub-components and any number of late goroutines:
`TypeCorrect`. `AtMostOneReport`: `OneReportAfterCancel`, from `OnItsWayOut`: once a report was sent after the
cancellation, the loop is waiting, at the check of the context, or gone.
`CompleteIsUnanimous`: `CompleteCyclesSpeakForAll`. The loop only counts results, so the proof counts too: in a
cycle that began without late goroutines each prober has one goroutine of this cycle, at work or with its result
collected (`Punctual`), hence the results come from distinct probers; a cycle is complete when there are as many
as probers (`AllIn`), and an injection between finite sets of one size is onto.
`MergedIsTheMerge` ties the orchestrator's `Merged`, which sees only up, down and error, to the merge of
`StatusMerge`: for any results of the classes that were collected, in any order, both omit, pass or fail the sub-component alike. So what is proved of
`Merged` is about the code's merge.

The configuration manager: `ReloadTypeCorrect`: only valid content is ever served or used. `NothingSkipped`: with
`Reverts = FALSE` and `StartupEdits = FALSE`, `SkippedOnlyWhenServed`. The invariant `HashesAreBehind` orders
the contents: both hashes are of content no newer than the file, so equality with the file means that the file
has not changed since the hash was taken. The two
assumptions are necessary, as the configurations `ConfigReload_startup` and `ConfigReload_revert` show.

**ProbeCycleProofs.** For any files, probers, targets and timings. `CycleInv` has the types, says of each goroutine that what it has found so far is
right about the questions it has asked (`Asked`) and that a result without an error is right about all of them (`SoundProbe`), and of the collected results that each comes from
a different goroutine and is what that goroutine found (`Collected`).

- `TypeCorrect`; `NothingIsMadeUp`: `NoFalseAlarms`. A reason in the report is, through `MergeTells`, a reason in a
  result, and there it is a question of the right sub-component whose target was not up. That the target is the configured one rests on
  `ClientsAreRight`: the map of Prometheus clients is indexed by a key, and equal keys mean equal addresses.
- `NothingIsMissed`: `DownIsReported`, and `DoubtIsNotHealth`: `ErrorsLeaveDoubt`. In a complete cycle the number of results is the number of
  probers, so every prober was heard (`AllHeardIsEverybody`, by counting). Both assume `SeveritiesAreKnown`, that severities in the file are of the
  enumeration or left to their defaults; the code does not check that, and `ProbeCycle_invalid` shows what happens otherwise.

**JUnitProberProofs.** For any number of builds and of runs to judge. `ProbeInv` says, place by place, what the prober knows: the build it was sent to
is listed (`LatestIsListed`), the newest build that had finished when the probe began still is and is not the one found unfinished (`Begun`); of the
build located, whether it has finished (`Located`); that among the builds to check and among those selected
there is one no older than that newest, and, as long as no build finishes, that all finished ones are there (`Checking`, `Selected`, `Answered`).
That the selected runs are the last ones is about maxima of finite sets, whose existence is the lemma `MaxIsGreatest`.

- `TypeCorrect`; `SequentialJobsAreJudged`: `SequentialRunsAreJudged`, for any number of runs.
- `VerdictsAreRecent`: `NewestIsJudged`, and `QuietVerdicts`: `QuietVerdictsAreRight`, both for `HistoryRuns # 1`: with a single run
  the prober goes by `latest-build.txt` alone, which may still name an older build than the newest finished one.
  The second assumes that failing test cases have names and that no two failing sets read the same when joined (`DistinctJoins`); section 5
  refutes it without either. `PlainQuietVerdicts` gives both assumptions for names without commas, whose join lists them (`PlainNamesJoinApart`).

**PageProofs.** Status pages: `TypeCorrect`; `PagesAgree`: `AgreesWithSubComponents`, for any number of sub-components and outages. The pages are functions of the
outages, so there is nothing to strengthen; the work is in `WorstPage`: the page of some sub-component says what all outages together say,
although confirmed and suspected outages mix, and in comparing the numbers of two finite sets.

The external page: `CacheTypeCorrect`; `PagesAdvance`: `PagesNeverGoBack`, `NoFetchWithoutNeed`: `FetchesOnlyWhenExpired`, and `NobodyIsRefused`:
`ServedOnceServedAlways`, all three from `CacheInv`: only
the holder of the lock checks, fetches or stores, what it is about to store is no older than the copy, and what anybody was answered with is no newer than the copy.
`AnswersAreRecent`: `PagesAreRecent`, from `Recency`, which bounds how long ago the source replaced the copy by the copy's age and the time spent on fetching it.

**SlackReportingProofs.** `TypeCorrect`: for any number of overlapping requests; `Sound` says of a request in
progress that the channel it is at is among those left to do and that it replies to stored threads. The
other theorems assume `OneAtATime`, that is one request that is used again and again, as in the run `Slack_serial`;
`Slack_overlap` shows that they fail without it. `NoSecondOpening`:
`ReopenedByTheSameList`, from `PostsToStrangers`: a channel left to post to has no thread, unless the list named it in an earlier round (`Repeats`). `OneOpening`:
`OneRootPerEntry`, from `RootsAreThreads`, which counts: as long as no statement has failed, some configuration in use has as many entries for a channel as
the channel got opening messages and may still get from the request (`Budget`, `Remaining`), a list made from a configuration has no more rounds for a channel than
entries (`ListCount`), and a channel with an opening message has a thread or a request that is about to store it (`StoredOrAboutTo`).

`ThreadsAreTrue`: `ThreadsTellTheRow`, from
`ThreadsFollow`: a thread tells what the row holds, up to an emoji that is on its way, or it tells what the row
held before and is among those the request still has to reply to. A reply lists only what changed, so it is right only if the thread told the old
copy of the request, or the new one already. `SomeoneIsAlwaysTold`: `SomeoneKnows`, from `SomeoneIsTold`: an outage without
threads that reaches a threshold has a request on its way to post it.

Model-checked only: the liveness properties (`AbsenceIsReported`, `PresenceIsNoticed`, `EverybodyIsPinged`, `EveryRequestIsAnswered`,
`FileIsServed`, `ServedIsUsed`, `ReportsKeepComing`, `StopsWhenCanceled`, `CtxAwareProbesEnd`), because fairness and ENABLED are beyond the provers here.

## 7. What is not modelled

The parts with status `not_modelled` in `PROJECT.json`: authentication and groups (a request with a wrong signature or of somebody who is no owner
changes nothing, and is therefore left out; the group cache is rebuilt by the configuration callback of `ConfigReload` and by a
timer, each time from scratch), server wiring, the frontend, the one-time migration, mocks, hack scripts and end-to-end tests. They keep no state that changes
under requests, or run no production code.

Of modelled parts:
reasons, tags, descriptions and times beyond what properties tell apart; several replicas of the
dashboard on one database; the owner check of a report's sender; the parsing of YAML, durations, URLs and XML; the building of HTTP transports; the
failure queries of Prometheus monitors, which describe a failure and decide nothing; the artifact style of JUnit monitors and the limit on listing pages; retries inside client libraries; DryRun, which is one cycle without sending.
The database is PostgreSQL at its default isolation: each statement sees what is committed.

## 8. Plan

Done, in this order: OutageStore with AuditedTable and its proofs; the dashboard (DashboardState, ReportProcessing,
AbsentChecker, Dashboard); StatusMerge; ProbeOrchestrator; ConfigReload; ComponentStatus; SlackReporting; JUnitProber;
the proofs of ConfigReload, ProbeOrchestrator and SlackReporting; ExternalPageCache and PingUpsert with their proofs;
MonitorConfig and ProbeCycle; the result files of JUnitProber; the proofs of Dashboard, of the rest of SlackReporting and of ComponentStatus;
the proofs about requests that follow each other (SerialRequests), of the merge, ProbeCycle and JUnitProber.

Next:

1. an abstract specification of the dashboard as seen by a monitor (each sub-component healthy or in outage, per source) that `Dashboard` implements, with
   the refinement proved from `SourceInv`;
2. the two meanings of "active", `end_time IS NULL` and not yet ended, in one module.
