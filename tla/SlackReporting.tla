---------------------------- MODULE SlackReporting -----------------------------
(***************************************************************************)
(* What Slack hears of one outage.  The outage manager first commits a      *)
(* change to the database and then reports it, outside the transaction: a   *)
(* new outage as a message for every entry of the sub-component's list of    *)
(* channels whose threshold it reaches, a change as a reply in the threads   *)
(* stored for it.  Nothing keeps the list from naming a channel twice.       *)
(***************************************************************************)
EXTENDS OutageTypes, Sequences

CONSTANTS
    Requests,      \* handlers, monitors and the absence checker
    Channels,      \* Slack channels
    Configs,       \* what a sub-component may be configured with: lists of channels
    Levels,        \* the severities in use
    NoOutage,      \* no row yet
    NoThread,      \* no thread stored for the channel
    NoComponent,   \* the component is not in the configuration
    MaxRoots       \* bound: messages counted per channel

\* A channel with the severity from which it is told, "" if none is given; nothing
\* validates either.
SlackReportingConfig == [channel : Channels, severity : STRING]

\* How many entries of a configuration name the channel.
Listed(config, c) ==
    IF config = NoComponent THEN 0
    ELSE Cardinality({i \in DOMAIN config : config[i].channel = c})

ASSUME SlackAssumption ==
    /\ Levels \subseteq Severities
    /\ Configs \ {NoComponent} \subseteq Seq(SlackReportingConfig)
    /\ MaxRoots \in Nat
    /\ \A config \in Configs, c \in Channels : Listed(config, c) < MaxRoots

VARIABLES
    row,       \* the outage in the database
    reporting, \* the configured list of channels and their thresholds
    threads,   \* table slack_threads: channel -> what the thread says of the outage
    roots,     \* how many messages opened a thread in the channel
    req,       \* the requests in progress
    trouble    \* history: what has gone wrong so far

vars == <<row, reporting, threads, roots, req, trouble>>

\* What messages tell: the severity and whether the outage is resolved.
Outage == [severity : Levels, ended : BOOLEAN]

\* A thread carries the emoji of a resolved outage from the first time on.
Thread == [told : Outage, marked : BOOLEAN]

ASSUME SlackValuesAssumption == NoOutage \notin Outage /\ NoThread \notin Thread

\* One round of a loop over channels; a list is kept as the set of its rounds, the
\* order of stored threads is not known and any may come first.
Round == [at : Nat, channel : Channels]

Idle == [pc |-> "idle"]

Working ==
    [pc : {"old", "save", "threads", "report", "check", "post", "store",
           "mark", "reply"},
     mode : {"post", "reply"},
     outage : Outage,
     old : Outage \cup {NoOutage},
     channels : SUBSET Round,
     todo : SUBSET Round,
     round : Round \cup {NoThread}]

TypeOK ==
    /\ row \in Outage \cup {NoOutage}
    /\ reporting \in Configs
    /\ threads \in [Channels -> Thread \cup {NoThread}]
    /\ roots \in [Channels -> 0..MaxRoots]
    /\ req \in [Requests -> Working \cup {Idle}]
    /\ trouble \subseteq {"slack", "database", "reload"}

Init ==
    /\ row = NoOutage
    /\ reporting \in Configs \ {NoComponent}
    /\ threads = [c \in Channels |-> NoThread]
    /\ roots = [c \in Channels |-> 0]
    /\ req = [r \in Requests |-> Idle]
    /\ trouble = {}

Quiet == \A r \in Requests : req[r] = Idle

--------------------------------------------------------------------------------
Threaded == {c \in Channels : threads[c] # NoThread}

\* Without a severity of its own a channel is told of every outage.
GetEffectiveSeverity(entry) ==
    IF entry.severity # "" THEN entry.severity ELSE "Suspected"

Reaches(severity, entry) ==
    GetSeverityLevel(severity) >= GetSeverityLevel(GetEffectiveSeverity(entry))

\* The channels of the entries that are reached, in their order and each as often
\* as it is listed.
FilterChannelsBySeverity(config, severity) ==
    IF config = NoComponent THEN {}
    ELSE {[at |-> i, channel |-> config[i].channel] :
             i \in {j \in DOMAIN config : Reaches(severity, config[j])}}

\* The stored threads, whose order the query leaves open.
ThreadRounds == {[at |-> 0, channel |-> c] : c \in Threaded}

\* The rounds that may come next.
First(todo) == {e \in todo : \A d \in todo : e.at <= d.at}

UpdateMessage_OnlySeverity(told, old, new) ==
    [told EXCEPT !.severity = IF old.severity # new.severity THEN new.severity ELSE @]

\* A reply lists the fields in which the row differed before the save.
UpdateMessage(told, old, new) ==
    [severity |-> IF old.severity # new.severity THEN new.severity ELSE told.severity,
     ended    |-> IF old.ended # new.ended THEN new.ended ELSE told.ended]

Trouble(kind) == trouble' = trouble \cup {kind}

Goto(r, pc) == req' = [req EXCEPT ![r].pc = pc]

\* The loops over channels and threads go on after a failure.
NextOf(r, todo) ==
    req' = [req EXCEPT ![r] = IF todo = {} THEN Idle
                              ELSE [req[r] EXCEPT !.pc = req[r].mode, !.todo = todo]]

Start(r, pc, outage) ==
    /\ req[r] = Idle
    /\ req' = [req EXCEPT ![r] = [pc |-> pc, mode |-> "post", outage |-> outage, old |-> NoOutage,
                                  channels |-> {}, todo |-> {}, round |-> NoThread]]

--------------------------------------------------------------------------------
\* The manager: writes first, reports then.
CreateOutage(r) ==
    /\ row = NoOutage
    /\ \E severity \in Levels :
         LET outage == [severity |-> severity, ended |-> FALSE]
         IN  /\ row' = outage
             /\ Start(r, "report", outage)
    /\ UNCHANGED <<reporting, threads, roots, trouble>>

UpdateOutage(r) ==
    /\ row # NoOutage
    /\ \E outage \in Outage : Start(r, "old", outage)
    /\ UNCHANGED <<row, reporting, threads, roots, trouble>>

ReadOld(r) ==
    /\ req[r].pc = "old"
    /\ req' = [req EXCEPT ![r].old = row, ![r].pc = "save"]
    /\ UNCHANGED <<row, reporting, threads, roots, trouble>>

SaveOutage(r) ==
    /\ req[r].pc = "save"
    /\ row' = req[r].outage
    /\ Goto(r, "threads")
    /\ UNCHANGED <<reporting, threads, roots, trouble>>

ReportOutageUpdate_KnownOnly(r) ==
    /\ req[r].pc = "threads"
    /\ req' = [req EXCEPT ![r] = IF Threaded = {} THEN Idle
                                 ELSE [@ EXCEPT !.pc = "reply", !.mode = "reply", !.channels = ThreadRounds,
                                        !.todo = ThreadRounds]]
    /\ UNCHANGED <<row, reporting, threads, roots, trouble>>

ReportOutageUpdate_AlwaysNew(r) ==
    /\ req[r].pc = "threads"
    /\ Goto(r, "report")
    /\ UNCHANGED <<row, reporting, threads, roots, trouble>>

\* Without threads the outage is reported as a new one.
ReportOutageUpdate(r) ==
    /\ req[r].pc = "threads"
    /\ req' = [req EXCEPT ![r] = IF Threaded = {} THEN [@ EXCEPT !.pc = "report"]
                                 ELSE [@ EXCEPT !.pc = "reply", !.mode = "reply", !.channels = ThreadRounds,
                                        !.todo = ThreadRounds]]
    /\ UNCHANGED <<row, reporting, threads, roots, trouble>>

--------------------------------------------------------------------------------
\* The reporter.
ReportOutage(r) ==
    /\ req[r].pc = "report"
    /\ LET channels == FilterChannelsBySeverity(reporting, req[r].outage.severity)
       IN  req' = [req EXCEPT ![r] = IF channels = {} THEN Idle
                                     ELSE [@ EXCEPT !.pc = "check", !.channels = channels,
                                                    !.todo = channels]]
    /\ UNCHANGED <<row, reporting, threads, roots, trouble>>

\* The component is looked up again before anything is posted.
LookUpComponent(r) ==
    /\ req[r].pc = "check"
    /\ IF reporting = NoComponent THEN req' = [req EXCEPT ![r] = Idle] ELSE Goto(r, "post")
    /\ UNCHANGED <<row, reporting, threads, roots, trouble>>

PostMessage(r) ==
    /\ req[r].pc = "post"
    /\ \E e \in First(req[r].todo) :
         \/ /\ roots' = [roots EXCEPT ![e.channel] = IF @ < MaxRoots THEN @ + 1 ELSE @]
            /\ req' = [req EXCEPT ![r].round = e, ![r].pc = "store"]
            /\ UNCHANGED trouble
         \/ /\ Trouble("slack")
            /\ NextOf(r, req[r].todo \ {e})
            /\ UNCHANGED roots
    /\ UNCHANGED <<row, reporting, threads>>

\* The index on outage and channel is unique: a second thread is refused, and its
\* message gets no emoji.
CreateThread(r) ==
    /\ req[r].pc = "store"
    /\ LET e == req[r].round
           c == e.channel
       IN  \/ /\ threads[c] = NoThread
              /\ threads' = [threads EXCEPT ![c] = [told |-> req[r].outage, marked |-> FALSE]]
              /\ IF req[r].outage.ended THEN Goto(r, "mark") ELSE NextOf(r, req[r].todo \ {e})
              /\ UNCHANGED trouble
           \/ /\ (threads[c] # NoThread /\ UNCHANGED trouble) \/ Trouble("database")
              /\ NextOf(r, req[r].todo \ {e})
              /\ UNCHANGED threads
    /\ UNCHANGED <<row, reporting, roots>>

ReplyMessage(r) ==
    /\ req[r].pc = "reply"
    /\ \E e \in First(req[r].todo) :
         \/ /\ threads' = [threads EXCEPT ![e.channel].told = UpdateMessage(@, req[r].old, req[r].outage)]
            /\ IF req[r].outage.ended
               THEN req' = [req EXCEPT ![r].round = e, ![r].pc = "mark"]
               ELSE NextOf(r, req[r].todo \ {e})
            /\ UNCHANGED trouble
         \/ /\ Trouble("slack")
            /\ NextOf(r, req[r].todo \ {e})
            /\ UNCHANGED threads
    /\ UNCHANGED <<row, reporting, roots>>

AddResolvedEmoji(r) ==
    /\ req[r].pc = "mark"
    /\ \/ threads' = [threads EXCEPT ![req[r].round.channel].marked = TRUE] /\ UNCHANGED trouble
       \/ UNCHANGED threads /\ Trouble("slack")
    /\ NextOf(r, req[r].todo \ {req[r].round})
    /\ UNCHANGED <<row, reporting, roots>>

--------------------------------------------------------------------------------
\* A statement fails or the process dies: what was committed stays, what was not
\* reported yet never is.
Fail(r) ==
    /\ Trouble("database")
    /\ req[r] # Idle
    /\ req' = [req EXCEPT ![r] = Idle]
    /\ UNCHANGED <<row, reporting, threads, roots>>

ReloadConfig ==
    /\ Trouble("reload")
    /\ reporting' \in Configs
    /\ UNCHANGED <<row, threads, roots, req>>

Next ==
    \/ \E r \in Requests :
         \/ CreateOutage(r)
         \/ UpdateOutage(r)
         \/ ReadOld(r)
         \/ SaveOutage(r)
         \/ ReportOutageUpdate(r)
         \/ ReportOutage(r)
         \/ LookUpComponent(r)
         \/ PostMessage(r)
         \/ CreateThread(r)
         \/ ReplyMessage(r)
         \/ AddResolvedEmoji(r)
         \/ Fail(r)
    \/ ReloadConfig

Spec == Init /\ [][Next]_vars

--------------------------------------------------------------------------------
(***************************************************************************)
(* Properties.                                                              *)
(***************************************************************************)

AllWell == Quiet /\ trouble = {}

\* When no request is in progress, every thread tells what the row holds, although
\* replies only list changes, and carries the emoji if the outage is resolved, also
\* when its first message was posted for the resolution; this needs that requests do
\* not overlap and that Slack and the database have worked so far.
ThreadsTellTheRow ==
    (Quiet /\ trouble \subseteq {"reload"}) =>
        \A c \in Threaded : threads[c].told = row /\ (row.ended => threads[c].marked)

\* If the configuration has not changed either, an outage that reaches the
\* threshold of some entry of the list is known to some channel, also when it was
\* created below every threshold and upgraded later.
SomeoneKnows ==
    (AllWell /\ row # NoOutage /\ (\E i \in DOMAIN reporting : Reaches(row.severity, reporting[i])))
        => Threaded # {}

\* The configurations that have been in use.
ConfigsSoFar == IF "reload" \in trouble THEN Configs ELSE {reporting}

\* As long as requests do not overlap and the database works, a channel gets no more
\* opening messages than one configuration lists it, whichever calls to Slack fail,
\* however often the outage changes and also if the configuration does.
OneRootPerEntry ==
    "database" \notin trouble =>
        \E config \in ConfigsSoFar : \A c \in Channels : roots[c] <= Listed(config, c)

NamedTwice(channels, c) ==
    \E d, e \in channels : d # e /\ d.channel = c /\ e.channel = c

\* As long as requests do not overlap, a channel with a thread gets another opening
\* message only from a request whose own list names it twice, whatever fails and
\* wherever the process dies.
ReopenedByTheSameList ==
    [][\A c \in Threaded : roots'[c] = roots[c] \/ \E r \in Requests : NamedTwice(req[r].channels, c)]_vars

\* "We should report it as new to ensure that the correct channels are notified":
\* after an upgrade, all channels whose threshold is reached have a thread.
UpgradeIsReported ==
    (AllWell /\ row # NoOutage) =>
        \A i \in DOMAIN reporting :
            Reaches(row.severity, reporting[i]) => threads[reporting[i].channel] # NoThread

\* A thread for an outage "in a specific channel": requests do not overlap and nothing
\* fails, and every channel has at most the one opening message its thread starts from.
OneRootPerChannel == AllWell => \A c \in Channels : roots[c] <= 1
================================================================================
