---------------------------- MODULE DashboardProofs ----------------------------
(***************************************************************************)
(* Theorems about Dashboard for any sub-components, monitors, reports and  *)
(* configurations, any number of requests and people.                       *)
(***************************************************************************)
EXTENDS Dashboard, FiniteSetTheorems, TLAPS

\* A copy stays one of the outage it was read from: whatever is in its slot was
\* opened by the same party for the same sub-component, or the slot was emptied.
SameOrigin(o, c) == o.sub = c.sub /\ o.by = c.by /\ o.source = c.source

Tracks(rows, i, c) == rows[i] = NoOutage \/ SameOrigin(rows[i], c)

\* What a request in progress knows of its current status and of what it found.
SoundWork(w, rows) ==
    /\ w.n \in 1..Len(w.report)
    /\ w.pc \in {"validate", "lookup", "query"} => DOMAIN w.found = {}
    /\ w.pc \in {"query", "decide", "resolve", "create"} => w.cfg \in SubConfig
    /\ \A i \in DOMAIN w.found :
         /\ w.found[i].by = w.monitor
         /\ w.found[i].sub = w.report[w.n].sub
         /\ Tracks(rows, i, w.found[i])
    /\ w.pc = "resolve" => w.report[w.n].status = "Healthy" /\ w.cfg.autoResolve

\* The same of a pass of the checker.
SoundPass(k, rows) ==
    /\ \A s \in k.todo : k.cfg[s] \in SubConfig
    /\ k.pc \in {"query", "resolve", "create"} => k.cfg[k.sub] \in SubConfig
    /\ \A i \in DOMAIN k.found :
         k.found[i].source = AbsentReportSource /\ Tracks(rows, i, k.found[i])
    /\ k.pc = "resolve" => ~k.absent /\ k.cfg[k.sub].autoResolve

\* Creator and source of an outage belong together, but for the outages of people, who
\* name the source themselves.
Origin(o) ==
    \/ o.by \in Monitors /\ o.source = ComponentMonitor
    \/ o.by = AbsentReportCreator /\ o.source = AbsentReportSource
    \/ o.by = EndUser /\ o.source \in {Frontend, ComponentMonitor, AbsentReportSource}

RowsSound     == \A i \in Slots : outages[i] # NoOutage => Origin(outages[i])
HandlersSound == \A h \in Handlers : handler[h] # Idle => SoundWork(handler[h], outages)
CheckerSound  == checker # CheckerIdle => SoundPass(checker, outages)
EditorsSound  == \A e \in Editors :
                   editor[e] # Idle => Tracks(outages, editor[e].slot, editor[e].copy)

TypeInv == TypeOK /\ RowsSound /\ HandlersSound /\ CheckerSound /\ EditorsSound

--------------------------------------------------------------------------------
(***************************************************************************)
(* What parties hold.                                                       *)
(***************************************************************************)
LEMMA IdleIsIdle ==
    /\ Idle \notin Processing /\ Idle.pc = "idle"
    /\ CheckerIdle \notin Checking /\ CheckerIdle.pc = "idle"
    /\ Idle \notin Editing
<1>1. Idle.pc = "idle" /\ CheckerIdle.pc = "idle"
  BY DEF Idle, CheckerIdle
<1>2. Idle \notin Editing
  BY DEF Idle, Editing
<1>3. QED BY <1>1, <1>2 DEF Processing, Checking

LEMMA WorkingHandler ==
    ASSUME TypeInv, NEW h \in Handlers, handler[h] # Idle \/ handler[h].pc # "idle"
    PROVE  handler[h] \in Processing /\ handler[h] # Idle /\ SoundWork(handler[h], outages)
  BY IdleIsIdle DEF TypeInv, TypeOK, ReportTypeOK, HandlersSound

LEMMA WorkingChecker ==
    ASSUME TypeInv, checker # CheckerIdle \/ checker.pc # "idle"
    PROVE  checker \in Checking /\ checker # CheckerIdle /\ SoundPass(checker, outages)
  BY IdleIsIdle DEF TypeInv, TypeOK, CheckerTypeOK, CheckerSound

\* The status a request is at, and its report.
LEMMA CurrentStatus ==
    ASSUME TypeInv, NEW h \in Handlers, handler[h] # Idle
    PROVE  /\ Current(h) \in Status
           /\ Len(handler[h].report) \in Nat
           /\ handler[h].n \in 1..Len(handler[h].report)
           /\ Monitor(h) \in Monitors
           /\ handler[h].report \in Seq(Status)
<1>1. handler[h] \in Processing /\ SoundWork(handler[h], outages)
  BY WorkingHandler
<1>2. handler[h].report \in Seq(Status) /\ Monitor(h) \in Monitors
  BY <1>1, ReportAssumption DEF ReportAssumption, Processing, Monitor
<1>3. handler[h].n \in 1..Len(handler[h].report)
  BY <1>1 DEF SoundWork
<1>4. QED BY <1>2, <1>3 DEF Current

LEMMA NothingFound == <<>> \in PartialRows /\ DOMAIN <<>> = {} /\ <<>> \in CheckerRows
<1>1. <<>> \in [{} -> Outage]
  OBVIOUS
<1>2. {} \in SUBSET Slots
  OBVIOUS
<1>3. QED BY <1>1, <1>2 DEF PartialRows, CheckerRows

LEMMA PartialRow ==
    ASSUME NEW f \in PartialRows
    PROVE  DOMAIN f \subseteq Slots /\ f \in [DOMAIN f -> Outage]
  BY DEF PartialRows

LEMMA CheckerRow ==
    ASSUME NEW f \in CheckerRows
    PROVE  DOMAIN f \subseteq Slots /\ f \in [DOMAIN f -> Outage]
  BY DEF CheckerRows

\* What is left of a set of copies after one is taken out.
LEMMA OneLess ==
    ASSUME NEW S \in SUBSET Slots, NEW f \in [S -> Outage], NEW i
    PROVE  /\ [j \in S \ {i} |-> f[j]] \in PartialRows
           /\ [j \in S \ {i} |-> f[j]] \in CheckerRows
<1>1. S \ {i} \in SUBSET Slots /\ [j \in S \ {i} |-> f[j]] \in [S \ {i} -> Outage]
  OBVIOUS
<1>2. QED BY <1>1 DEF PartialRows, CheckerRows

\* The two queries return the matching rows as they are.
LEMMA ReportQuery ==
    ASSUME TypeInv, NEW s, NEW m,
           NEW found, found = GetActiveOutagesCreatedBy(s, m)
    PROVE  /\ found \in PartialRows
           /\ DOMAIN found = ActiveBy(s, m)
           /\ \A i \in DOMAIN found : found[i] = outages[i]
<1>1. found = [i \in ActiveBy(s, m) |-> outages[i]]
  <2>1. {j \in Slots : outages[j] # NoOutage /\ outages[j].sub = s /\ ~outages[j].ended
                         /\ outages[j].by = m} = ActiveBy(s, m)
    BY DEF ActiveBy, ActiveRow
  <2>2. QED BY <2>1 DEF GetActiveOutagesCreatedBy, Rows
<1>2. ActiveBy(s, m) \in SUBSET Slots /\ found \in [ActiveBy(s, m) -> Outage]
  BY <1>1 DEF ActiveBy, ActiveRow, TypeInv, TypeOK, StateTypeOK
<1>3. QED BY <1>1, <1>2 DEF PartialRows

LEMMA AbsentQuery ==
    ASSUME TypeInv, NEW s,
           NEW found, found = GetActiveOutagesDiscoveredFrom(s, AbsentReportSource)
    PROVE  /\ found \in CheckerRows
           /\ DOMAIN found = ActiveAbsent(s)
           /\ \A i \in DOMAIN found : found[i] = outages[i]
<1>1. found = [i \in ActiveAbsent(s) |-> outages[i]]
  <2>1. {j \in Slots : outages[j] # NoOutage /\ outages[j].sub = s /\ ~outages[j].ended
                         /\ outages[j].source = AbsentReportSource} = ActiveAbsent(s)
    BY DEF ActiveAbsent, ActiveRow
  <2>2. QED BY <2>1 DEF GetActiveOutagesDiscoveredFrom, Rows
<1>2. ActiveAbsent(s) \in SUBSET Slots /\ found \in [ActiveAbsent(s) -> Outage]
  BY <1>1 DEF ActiveAbsent, ActiveRow, TypeInv, TypeOK, StateTypeOK
<1>3. QED BY <1>1, <1>2 DEF CheckerRows

--------------------------------------------------------------------------------
(***************************************************************************)
(* What a step may do to the table: a slot keeps its outage, is emptied,   *)
(* or was free.  Copies then stay copies of what they were read from.       *)
(***************************************************************************)
RowsStep ==
    /\ outages' \in [Slots -> Outage \cup {NoOutage}]
    /\ \A i \in Slots : outages'[i] # NoOutage => Origin(outages'[i])
    /\ \A i \in Slots \ FreeSlots :
         \/ outages'[i] \in {outages[i], NoOutage}
         \/ outages[i] # NoOutage /\ SameOrigin(outages'[i], outages[i])

LEMMA NoChange == ASSUME TypeInv, UNCHANGED outages PROVE RowsStep
  BY DEF TypeInv, TypeOK, StateTypeOK, RowsSound, RowsStep

\* A save of a copy.
LEMMA Save ==
    ASSUME TypeInv, NEW i \in Slots, NEW c \in Outage, Tracks(outages, i, c),
           UpdateOutage(i, c)
    PROVE  /\ RowsStep
           /\ outages'[i] \in {c, NoOutage}
           /\ \A j \in Slots \ {i} : outages'[j] = outages[j]
<1>1. outages \in [Slots -> Outage \cup {NoOutage}]
  BY DEF TypeInv, TypeOK, StateTypeOK
<1>2. CASE outages[i] = NoOutage
  <2>1. outages' = outages
    BY <1>2 DEF UpdateOutage
  <2>2. QED BY <1>2, <2>1, NoChange
<1>3. CASE outages[i] # NoOutage
  <2>1. outages' = [outages EXCEPT ![i] = c]
    BY <1>3 DEF UpdateOutage
  <2>2. SameOrigin(outages[i], c)
    BY <1>3 DEF Tracks
  <2>3. SameOrigin(c, outages[i])
    BY <2>2 DEF SameOrigin
  <2>4. Origin(c)
    BY <1>3, <2>2 DEF TypeInv, RowsSound, Origin, SameOrigin
  <2>5. QED BY <1>1, <1>3, <2>1, <2>3, <2>4 DEF RowsStep, TypeInv, RowsSound
<1>4. QED BY <1>2, <1>3

\* A new outage.
LEMMA Creation ==
    ASSUME TypeInv, NEW o \in Outage, Origin(o), CreateOutage(FreeSlots, o)
    PROVE  /\ RowsStep
           /\ \E i \in FreeSlots : /\ outages'[i] = o /\ i \in Slots /\ ~ActiveRow(i)
                                  /\ \A j \in Slots \ {i} : outages'[j] = outages[j]
<1>1. outages \in [Slots -> Outage \cup {NoOutage}]
  BY DEF TypeInv, TypeOK, StateTypeOK
<1>2. PICK i \in FreeSlots : outages' = [outages EXCEPT ![i] = o]
  BY DEF CreateOutage
<1>3. i \in Slots /\ ~ActiveRow(i)
  BY DEF FreeSlots, Free, ActiveRow
<1>4. outages'[i] = o /\ \A j \in Slots \ {i} : outages'[j] = outages[j]
  BY <1>1, <1>2, <1>3
<1>5. RowsStep
  BY <1>1, <1>2, <1>3, <1>4 DEF RowsStep, TypeInv, RowsSound
<1>6. QED BY <1>3, <1>4, <1>5

\* A deletion.
LEMMA Deletion ==
    ASSUME TypeInv, NEW i \in Slots, outages' = [outages EXCEPT ![i] = NoOutage]
    PROVE  RowsStep
  BY DEF TypeInv, TypeOK, StateTypeOK, RowsSound, RowsStep

LEMMA TracksOn ==
    ASSUME RowsStep, NEW i \in Slots \ FreeSlots, NEW c, Tracks(outages, i, c)
    PROVE  Tracks(outages', i, c)
<1>1. \/ outages'[i] \in {outages[i], NoOutage}
      \/ outages[i] # NoOutage /\ SameOrigin(outages'[i], outages[i])
  BY DEF RowsStep
<1>2. QED BY <1>1 DEF Tracks, SameOrigin

\* Nobody's copies are of free slots, so everybody's stay sound.
LEMMA WorkStays ==
    ASSUME TypeInv, RowsStep, NEW h \in Handlers, handler[h] # Idle
    PROVE  SoundWork(handler[h], outages')
<1>1. handler[h] \in Processing /\ SoundWork(handler[h], outages)
  BY WorkingHandler
<1>2. DOMAIN handler[h].found \subseteq Slots
  BY <1>1, PartialRow DEF Processing
<1>3. HeldByHandler(h) = DOMAIN handler[h].found
  BY DEF HeldByHandler
<1>4. DOMAIN handler[h].found \subseteq Slots \ FreeSlots
  BY <1>2, <1>3 DEF FreeSlots, Free
<1>5. \A i \in DOMAIN handler[h].found : Tracks(outages', i, handler[h].found[i])
  BY <1>1, <1>4, TracksOn DEF SoundWork
<1>6. QED BY <1>1, <1>5 DEF SoundWork

LEMMA PassStays ==
    ASSUME TypeInv, RowsStep, checker # CheckerIdle
    PROVE  SoundPass(checker, outages')
<1>1. checker \in Checking /\ SoundPass(checker, outages)
  BY WorkingChecker
<1>2. DOMAIN checker.found \subseteq Slots
  BY <1>1, CheckerRow DEF Checking
<1>3. HeldByChecker = DOMAIN checker.found
  BY DEF HeldByChecker
<1>4. DOMAIN checker.found \subseteq Slots \ FreeSlots
  BY <1>2, <1>3 DEF FreeSlots, Free
<1>5. \A i \in DOMAIN checker.found : Tracks(outages', i, checker.found[i])
  BY <1>1, <1>4, TracksOn DEF SoundPass
<1>6. QED BY <1>1, <1>5 DEF SoundPass

LEMMA EditStays ==
    ASSUME TypeInv, RowsStep, NEW e \in Editors, editor[e] # Idle
    PROVE  Tracks(outages', editor[e].slot, editor[e].copy)
<1>1. editor[e] \in Editing
  BY DEF TypeInv, TypeOK
<1>2. editor[e].slot \in Slots
  BY <1>1 DEF Editing
<1>3. HeldByEditor(e) = {editor[e].slot}
  BY DEF HeldByEditor
<1>4. editor[e].slot \in Slots \ FreeSlots
  BY <1>2, <1>3 DEF FreeSlots, Free
<1>5. Tracks(outages, editor[e].slot, editor[e].copy)
  BY DEF TypeInv, EditorsSound
<1>6. QED BY <1>4, <1>5, TracksOn

\* The invariant, part by part, for parties that do not move and one that does.
HandlersFine == handler \in [Handlers -> Processing \cup {Idle}] /\ HandlersSound

LEMMA HandlersStay ==
    ASSUME TypeInv, RowsStep, UNCHANGED handler
    PROVE  HandlersFine'
  BY WorkStays DEF TypeInv, TypeOK, ReportTypeOK, HandlersFine, HandlersSound

LEMMA HandlerMoves ==
    ASSUME TypeInv, RowsStep, NEW h \in Handlers, NEW w \in Processing \cup {Idle},
           w # Idle => SoundWork(w, outages'), Become(h, w)
    PROVE  HandlersFine'
<1>1. handler \in [Handlers -> Processing \cup {Idle}] /\ handler' = [handler EXCEPT ![h] = w]
  BY DEF TypeInv, TypeOK, ReportTypeOK, Become
<1>2. ASSUME NEW g \in Handlers, handler'[g] # Idle PROVE SoundWork(handler'[g], outages')
  <2>1. CASE g = h
    BY <1>1, <1>2, <2>1
  <2>2. CASE g # h
    BY <1>1, <1>2, <2>2, WorkStays
  <2>3. QED BY <2>1, <2>2
<1>3. QED BY <1>1, <1>2 DEF HandlersFine, HandlersSound

CheckerFine == CheckerTypeOK /\ CheckerSound

LEMMA CheckerStays ==
    ASSUME TypeInv, RowsStep, UNCHANGED checker
    PROVE  CheckerFine'
  BY PassStays DEF TypeInv, TypeOK, CheckerTypeOK, CheckerSound, CheckerFine

EditorsFine == editor \in [Editors -> Editing \cup {Idle}] /\ EditorsSound

LEMMA EditorsStay ==
    ASSUME TypeInv, RowsStep, UNCHANGED editor
    PROVE  EditorsFine'
  BY EditStays DEF TypeInv, TypeOK, EditorsFine, EditorsSound

RestFine ==
    /\ config \in [Subs -> SubConfig \cup {NotConfigured}]
    /\ pings \in [Subs -> Ages \cup {NoPing}]
    /\ told \in [Monitors -> [Subs -> Told]]

LEMMA PartsMakeTypeInv ==
    ASSUME RowsStep, HandlersFine', CheckerFine', EditorsFine', RestFine'
    PROVE  TypeInv'
  BY DEF RowsStep, HandlersFine, CheckerFine, EditorsFine, RestFine, TypeInv, TypeOK,
         StateTypeOK, ReportTypeOK, RowsSound

--------------------------------------------------------------------------------
(***************************************************************************)
(* Requests of monitors.                                                    *)
(***************************************************************************)
ToldTyped == told \in [Monitors -> [Subs -> Told]]

LEMMA TellType ==
    ASSUME TypeInv, NEW h \in Handlers, handler[h] # Idle, NEW what \in Told, Tell(h, what)
    PROVE  ToldTyped'
<1>1. told \in [Monitors -> [Subs -> Told]]
  BY DEF TypeInv, TypeOK, ReportTypeOK
<1>2. Monitor(h) \in Monitors /\ Current(h).sub \in Subs
  BY CurrentStatus DEF Status
<1>3. QED BY <1>1, <1>2 DEF Tell, ToldTyped

LEMMA ForgetType == ASSUME TypeInv, NEW s, Forget(s) PROVE ToldTyped'
<1>1. told \in [Monitors -> [Subs -> Told]]
  BY DEF TypeInv, TypeOK, ReportTypeOK
<1>2. "nothing" \in Told
  BY DEF Told
<1>3. \A m \in Monitors : [told[m] EXCEPT ![s] = "nothing"] \in [Subs -> Told]
  BY <1>1, <1>2
<1>4. QED BY <1>3 DEF Forget, ToldTyped

\* On to the next status.
LEMMA AdvanceMoves ==
    ASSUME TypeInv, RowsStep, NEW h \in Handlers, handler[h] # Idle, Advance(h)
    PROVE  HandlersFine'
<1>1. handler[h] \in Processing /\ SoundWork(handler[h], outages)
  BY WorkingHandler
<1>2. Len(handler[h].report) \in Nat /\ handler[h].n \in 1..Len(handler[h].report)
  BY CurrentStatus
<1>3. CASE handler[h].n = Len(handler[h].report)
  BY <1>3, HandlerMoves DEF Advance
<1>4. CASE handler[h].n # Len(handler[h].report)
  <2> DEFINE w == [handler[h] EXCEPT !.pc = "lookup", !.n = handler[h].n + 1,
                                     !.cfg = NotConfigured, !.found = <<>>]
  <2>1. handler[h].n + 1 \in 1..Len(handler[h].report) /\ handler[h].n + 1 \in Nat
    BY <1>2, <1>4
  <2>2. w \in Processing
    BY <1>1, <2>1, NothingFound DEF Processing
  <2>3. /\ w.pc = "lookup" /\ w.n = handler[h].n + 1 /\ w.report = handler[h].report
        /\ w.found = <<>>
    BY <1>1 DEF Processing
  <2>4. Become(h, w)
    BY <1>4 DEF Advance
  <2> HIDE DEF w
  <2>5. SoundWork(w, outages')
    BY <2>1, <2>3, NothingFound DEF SoundWork
  <2>6. QED BY <2>2, <2>4, <2>5, HandlerMoves
<1>5. QED BY <1>3, <1>4

\* A move that only changes what the request does next.
LEMMA GotoMoves ==
    ASSUME TypeInv, RowsStep, NEW h \in Handlers, handler[h] # Idle,
           handler[h].pc \in {"decide", "resolve", "create"},
           NEW pc \in {"resolve", "create"}, Goto(h, pc),
           pc = "resolve" => Current(h).status = "Healthy" /\ handler[h].cfg.autoResolve
    PROVE  HandlersFine'
<1> DEFINE w == [handler[h] EXCEPT !.pc = pc]
<1>1. handler[h] \in Processing /\ SoundWork(handler[h], outages')
  BY WorkingHandler, WorkStays
<1>2. /\ w \in Processing /\ w.pc = pc /\ w.n = handler[h].n /\ w.report = handler[h].report
      /\ w.found = handler[h].found /\ w.monitor = handler[h].monitor
      /\ w.cfg = handler[h].cfg
  BY <1>1 DEF Processing
<1>3. Become(h, w)
  BY DEF Goto
<1> HIDE DEF w
<1>4. SoundWork(w, outages')
  BY <1>1, <1>2 DEF SoundWork, Current
<1>5. QED BY <1>2, <1>3, <1>4, HandlerMoves

ReportFine == RowsStep /\ HandlersFine' /\ ToldTyped'

LEMMA ToldStays == ASSUME TypeInv, UNCHANGED told PROVE ToldTyped'
  BY DEF TypeInv, TypeOK, ReportTypeOK, ToldTyped

LEMMA ReceiveReportFine ==
    ASSUME TypeInv, NEW h \in Handlers, NEW m \in Monitors, NEW r \in Reports,
           ReceiveReport(h, m, r)
    PROVE  ReportFine
<1> DEFINE w == [pc |-> "validate", monitor |-> m, report |-> r, n |-> 1,
                 cfg |-> NotConfigured, found |-> <<>>]
<1>1. RowsStep
  BY NoChange DEF ReceiveReport, state
<1>2. 1 \in 1..Len(r)
  BY ReportAssumption DEF ReportAssumption
<1>3. w \in Processing
  BY NothingFound DEF Processing
<1>4. SoundWork(w, outages')
  BY <1>2, NothingFound DEF SoundWork
<1>5. Become(h, w)
  BY DEF ReceiveReport
<1> HIDE DEF w
<1>6. HandlersFine'
  BY <1>1, <1>3, <1>4, <1>5, HandlerMoves
<1>7. QED BY <1>1, <1>6, ToldStays DEF ReceiveReport, ReportFine

LEMMA ValidateRequestFine ==
    ASSUME TypeInv, NEW h \in Handlers, ValidateRequest(h) PROVE ReportFine
<1>1. RowsStep
  BY NoChange DEF ValidateRequest, state
<1>2. handler[h] \in Processing /\ handler[h] # Idle /\ SoundWork(handler[h], outages)
  BY WorkingHandler DEF ValidateRequest
<1>3. Len(handler[h].report) \in Nat /\ handler[h].n \in 1..Len(handler[h].report)
  BY <1>2, CurrentStatus
<1>4. DOMAIN handler[h].found = {} /\ handler[h].pc = "validate"
  BY <1>2 DEF SoundWork, ValidateRequest
<1> DEFINE v == [handler[h] EXCEPT !.n = handler[h].n + 1]
           w == [handler[h] EXCEPT !.pc = "lookup", !.n = 1]
<1>5. \/ Become(h, Idle)
      \/ handler[h].n < Len(handler[h].report) /\ Become(h, v)
      \/ Become(h, w)
  BY DEF ValidateRequest
<1>6. CASE Become(h, Idle)
  BY <1>1, <1>6, HandlerMoves, ToldStays DEF ValidateRequest, ReportFine
<1>7. CASE handler[h].n < Len(handler[h].report) /\ Become(h, v)
  <2>1. handler[h].n + 1 \in 1..Len(handler[h].report) /\ handler[h].n + 1 \in Nat
    BY <1>3, <1>7
  <2>2. v \in Processing /\ v.pc = "validate" /\ v.n = handler[h].n + 1
        /\ v.report = handler[h].report /\ v.found = handler[h].found
    BY <1>2, <1>4, <2>1 DEF Processing
  <2>3. Become(h, v)
    BY <1>7
  <2> HIDE DEF v
  <2>4. SoundWork(v, outages')
    BY <1>4, <2>1, <2>2 DEF SoundWork
  <2>5. QED BY <1>1, <2>2, <2>3, <2>4, HandlerMoves, ToldStays DEF ValidateRequest, ReportFine
<1>8. CASE Become(h, w)
  <2>1. w \in Processing /\ w.pc = "lookup" /\ w.n = 1
        /\ w.report = handler[h].report /\ w.found = handler[h].found
    BY <1>2 DEF Processing
  <2>2. Become(h, w)
    BY <1>8
  <2> HIDE DEF w
  <2>3. SoundWork(w, outages')
    BY <1>3, <1>4, <2>1 DEF SoundWork
  <2>4. QED BY <1>1, <2>1, <2>2, <2>3, HandlerMoves, ToldStays DEF ValidateRequest, ReportFine
<1>9. QED BY <1>5, <1>6, <1>7, <1>8

LEMMA LookupAndPingFine ==
    ASSUME TypeInv, NEW h \in Handlers, LookupAndPing(h) PROVE ReportFine
<1>1. RowsStep
  BY NoChange DEF LookupAndPing
<1>2. handler[h] \in Processing /\ handler[h] # Idle /\ SoundWork(handler[h], outages)
  BY WorkingHandler DEF LookupAndPing
<1>3. CASE Become(h, Idle)
  BY <1>1, <1>3, HandlerMoves, ToldStays DEF LookupAndPing, ReportFine
<1>4. CASE ~Become(h, Idle)
  <2> DEFINE s == Current(h).sub
             w == [handler[h] EXCEPT !.pc = "query", !.cfg = config[s]]
  <2>1. Configured(s) /\ Become(h, w) /\ handler[h].pc = "lookup"
    BY <1>4 DEF LookupAndPing
  <2>2. s \in Subs
    BY <1>2, CurrentStatus DEF Status
  <2>3. config[s] \in SubConfig
    BY <2>1, <2>2 DEF Configured, TypeInv, TypeOK, StateTypeOK
  <2>4. w \in Processing /\ w.pc = "query" /\ w.n = handler[h].n /\ w.cfg = config[s]
        /\ w.report = handler[h].report /\ w.found = handler[h].found
    BY <1>2, <2>3 DEF Processing
  <2> HIDE DEF w
  <2>5. SoundWork(w, outages')
    BY <1>2, <2>1, <2>3, <2>4 DEF SoundWork
  <2>6. QED BY <1>1, <2>1, <2>4, <2>5, HandlerMoves, ToldStays DEF LookupAndPing, ReportFine
<1>5. QED BY <1>3, <1>4

LEMMA QueryActiveFine ==
    ASSUME TypeInv, NEW h \in Handlers, QueryActive(h) PROVE ReportFine
<1>1. RowsStep
  BY NoChange DEF QueryActive, state
<1>2. handler[h] \in Processing /\ handler[h] # Idle /\ SoundWork(handler[h], outages)
  BY WorkingHandler DEF QueryActive
<1> DEFINE s == Current(h).sub
           found == GetActiveOutagesCreatedBy(s, Monitor(h))
           w == [handler[h] EXCEPT !.pc = "decide", !.found = found]
<1>3. s \in Subs /\ Monitor(h) \in Monitors
  BY <1>2, CurrentStatus DEF Status
<1>4. /\ found \in PartialRows /\ DOMAIN found = ActiveBy(s, Monitor(h))
      /\ \A i \in DOMAIN found : found[i] = outages[i]
  BY ReportQuery
<1>5. Become(h, w) /\ handler[h].pc = "query"
  BY DEF QueryActive
<1> HIDE DEF found
<1>6. w \in Processing /\ w.pc = "decide" /\ w.n = handler[h].n /\ w.cfg = handler[h].cfg
      /\ w.report = handler[h].report /\ w.found = found /\ w.monitor = handler[h].monitor
  BY <1>2, <1>4 DEF Processing
<1> HIDE DEF w
<1>7. ASSUME NEW i \in DOMAIN found
     PROVE  found[i].by = w.monitor /\ found[i].sub = w.report[w.n].sub
            /\ Tracks(outages', i, found[i])
  <2>1. outages[i].by = Monitor(h) /\ outages[i].sub = s /\ outages' = outages
    BY <1>4, <1>7 DEF ActiveBy, QueryActive, state
  <2>2. QED BY <1>4, <1>6, <1>7, <2>1 DEF Monitor, Current, Tracks, SameOrigin
<1>8. SoundWork(w, outages')
  BY <1>2, <1>5, <1>6, <1>7 DEF SoundWork
<1>9. HandlersFine'
  BY <1>1, <1>5, <1>6, <1>8, HandlerMoves
<1>10. ToldTyped'
  <2>1. told' = [told EXCEPT ![Monitor(h)] = [told[Monitor(h)] EXCEPT ![s] = "pending"]]
    BY DEF QueryActive
  <2>2. "pending" \in Told
    BY DEF Told
  <2>3. told \in [Monitors -> [Subs -> Told]]
    BY DEF TypeInv, TypeOK, ReportTypeOK
  <2>4. QED BY <1>3, <2>1, <2>2, <2>3 DEF ToldTyped
<1>11. QED BY <1>1, <1>9, <1>10 DEF ReportFine

ToldValues == {"healthy", "unhealthy", "nothing"} \subseteq Told

LEMMA Toldable == ToldValues
  BY DEF Told, ToldValues

LEMMA DecideHealthyFine ==
    ASSUME TypeInv, NEW h \in Handlers, DecideHealthy(h) PROVE ReportFine
<1>1. RowsStep
  BY NoChange DEF DecideHealthy, state
<1>2. /\ handler[h] \in Processing /\ handler[h] # Idle /\ handler[h].pc = "decide"
      /\ Current(h).status = "Healthy" /\ SoundWork(handler[h], outages)
  BY WorkingHandler DEF DecideHealthy
<1>3. \/ \E what \in Told : Advance(h) /\ Tell(h, what)
      \/ handler[h].cfg.autoResolve /\ Goto(h, "resolve") /\ UNCHANGED told
  BY Toldable DEF DecideHealthy, ToldValues
<1>4. CASE \E what \in Told : Advance(h) /\ Tell(h, what)
  BY <1>1, <1>2, <1>4, AdvanceMoves, TellType DEF ReportFine
<1>5. CASE handler[h].cfg.autoResolve /\ Goto(h, "resolve") /\ UNCHANGED told
  BY <1>1, <1>2, <1>5, GotoMoves, ToldStays DEF ReportFine
<1>6. QED BY <1>3, <1>4, <1>5

LEMMA DecideUnhealthyFine ==
    ASSUME TypeInv, NEW h \in Handlers, DecideUnhealthy(h) PROVE ReportFine
<1>1. RowsStep
  BY NoChange DEF DecideUnhealthy, state
<1>2. handler[h] \in Processing /\ handler[h] # Idle /\ handler[h].pc = "decide"
  BY WorkingHandler DEF DecideUnhealthy
<1>3. \/ \E what \in Told : Advance(h) /\ Tell(h, what)
      \/ Goto(h, "create") /\ UNCHANGED told
  BY Toldable DEF DecideUnhealthy, ToldValues
<1>4. CASE \E what \in Told : Advance(h) /\ Tell(h, what)
  BY <1>1, <1>2, <1>4, AdvanceMoves, TellType DEF ReportFine
<1>5. CASE Goto(h, "create") /\ UNCHANGED told
  BY <1>1, <1>2, <1>5, GotoMoves, ToldStays DEF ReportFine
<1>6. QED BY <1>3, <1>4, <1>5

LEMMA EndedCopy ==
    ASSUME NEW c \in Outage, NEW i, Tracks(outages, i, c)
    PROVE  Ended(c) \in Outage /\ Ended(c).ended /\ Tracks(outages, i, Ended(c))
  BY DEF Ended, Outage, Tracks, SameOrigin

LEMMA ResolveOneFine ==
    ASSUME TypeInv, NEW h \in Handlers, ResolveOne(h) PROVE ReportFine
<1> DEFINE found == handler[h].found
           S     == DOMAIN found
<1>1. /\ handler[h] \in Processing /\ handler[h] # Idle /\ handler[h].pc = "resolve"
      /\ SoundWork(handler[h], outages)
  BY WorkingHandler DEF ResolveOne
<1>2. S \subseteq Slots /\ found \in [S -> Outage]
  BY <1>1, PartialRow DEF Processing
<1>3. PICK i \in S :
        /\ \/ UpdateOutage(i, Ended(found[i])) /\ UNCHANGED told
           \/ /\ UNCHANGED outages
              /\ told' = [told EXCEPT ![Monitor(h)][Current(h).sub] = "nothing"]
        /\ Become(h, [handler[h] EXCEPT !.found = [j \in S \ {i} |-> found[j]]])
  BY DEF ResolveOne
<1>4. i \in Slots /\ found[i] \in Outage /\ Tracks(outages, i, found[i])
  BY <1>1, <1>2 DEF SoundWork
<1>5. RowsStep
  <2>1. CASE UpdateOutage(i, Ended(found[i]))
    BY <1>4, <2>1, EndedCopy, Save
  <2>2. CASE UNCHANGED outages
    BY <2>2, NoChange
  <2>3. QED BY <1>3, <2>1, <2>2
<1>6. ToldTyped'
  <2>1. CASE UNCHANGED told
    BY <2>1, ToldStays
  <2>2. CASE told' = [told EXCEPT ![Monitor(h)][Current(h).sub] = "nothing"]
    <3>1. told \in [Monitors -> [Subs -> Told]] /\ "nothing" \in Told
      BY DEF TypeInv, TypeOK, ReportTypeOK, Told
    <3>2. told' = [told EXCEPT ![Monitor(h)] =
                                  [told[Monitor(h)] EXCEPT ![Current(h).sub] = "nothing"]]
      BY <2>2
    <3>3. Monitor(h) \in Monitors
      BY <1>1, CurrentStatus
    <3>4. QED BY <3>1, <3>2, <3>3 DEF ToldTyped
  <2>3. QED BY <1>3, <2>1, <2>2
<1> DEFINE rest == [j \in S \ {i} |-> found[j]]
           w == [handler[h] EXCEPT !.found = rest]
<1>7. rest \in PartialRows /\ DOMAIN rest = S \ {i} /\ \A j \in S \ {i} : rest[j] = found[j]
  BY <1>2, OneLess
<1>8. Become(h, w)
  BY <1>3
<1> HIDE DEF rest
<1>9. w \in Processing /\ w.found = rest /\ w.pc = "resolve" /\ w.n = handler[h].n
      /\ w.report = handler[h].report /\ w.cfg = handler[h].cfg
      /\ w.monitor = handler[h].monitor
  BY <1>1, <1>7 DEF Processing
<1> HIDE DEF w
<1>10. SoundWork(handler[h], outages')
  BY <1>1, <1>5, WorkStays
<1>11. SoundWork(w, outages')
  BY <1>1, <1>7, <1>9, <1>10 DEF SoundWork
<1>12. HandlersFine'
  BY <1>5, <1>8, <1>9, <1>11, HandlerMoves
<1>13. QED BY <1>5, <1>6, <1>12 DEF ReportFine

LEMMA ResolvedAllFine ==
    ASSUME TypeInv, NEW h \in Handlers, ResolvedAll(h) PROVE ReportFine
<1>1. RowsStep
  BY NoChange DEF ResolvedAll, state
<1>2. handler[h] # Idle
  BY WorkingHandler DEF ResolvedAll
<1>3. "healthy" \in Told
  BY DEF Told
<1>4. QED BY <1>1, <1>2, <1>3, AdvanceMoves, TellType DEF ResolvedAll, ReportFine

LEMMA ReportedOutageType ==
    ASSUME TypeInv, NEW h \in Handlers, handler[h].pc = "create"
    PROVE  ReportedOutage(h) \in Outage /\ Origin(ReportedOutage(h))
<1>1. handler[h] \in Processing /\ handler[h] # Idle /\ SoundWork(handler[h], outages)
  BY WorkingHandler
<1>2. Monitor(h) \in Monitors /\ Current(h).sub \in Subs
  BY <1>1, CurrentStatus DEF Status
<1>3. handler[h].cfg \in SubConfig
  BY <1>1 DEF SoundWork
<1>4. (~handler[h].cfg.requiresConfirmation) \in BOOLEAN
  BY <1>3 DEF SubConfig
<1>5. QED BY <1>2, <1>4 DEF ReportedOutage, Outage, Origin

LEMMA CreateReportedFine ==
    ASSUME TypeInv, NEW h \in Handlers, CreateReported(h, FreeSlots) PROVE ReportFine
<1>1. handler[h] # Idle /\ handler[h].pc = "create" /\ Advance(h)
  BY WorkingHandler DEF CreateReported
<1>2. \/ CreateOutage(FreeSlots, ReportedOutage(h)) /\ Tell(h, "unhealthy")
      \/ UNCHANGED outages /\ Tell(h, "nothing")
  BY DEF CreateReported
<1>3. RowsStep
  BY <1>1, <1>2, ReportedOutageType, Creation, NoChange
<1>4. ToldTyped'
  BY <1>1, <1>2, Toldable, TellType DEF ToldValues
<1>5. QED BY <1>1, <1>3, <1>4, AdvanceMoves DEF ReportFine

LEMMA FailRequestFine ==
    ASSUME TypeInv, NEW h \in Handlers, FailRequest(h) PROVE ReportFine
<1>1. RowsStep
  BY NoChange DEF FailRequest, state
<1>2. QED BY <1>1, HandlerMoves, ToldStays DEF FailRequest, ReportFine

\* What the parts outside a request do meanwhile.
LEMMA ReportKeepsRest ==
    ASSUME TypeInv, NEW h \in Handlers,
           \/ \E m \in Monitors, r \in Reports : ReceiveReport(h, m, r)
           \/ HandlerStep(h, FreeSlots)
           \/ FailRequest(h)
    PROVE  UNCHANGED config /\ pings' \in [Subs -> Ages \cup {NoPing}]
<1>1. pings \in [Subs -> Ages \cup {NoPing}] /\ 0 \in Ages
  BY StateAssumption DEF StateAssumption, TypeInv, TypeOK, StateTypeOK, Ages
<1>2. UNCHANGED config
  BY DEF ReceiveReport, HandlerStep, ValidateRequest, LookupAndPing, QueryActive, DecideHealthy,
         DecideUnhealthy, ResolveOne, ResolvedAll, CreateReported, FailRequest, state
<1>3. UNCHANGED pings \/ pings' = [pings EXCEPT ![Current(h).sub] = 0]
  BY DEF ReceiveReport, HandlerStep, ValidateRequest, LookupAndPing, QueryActive, DecideHealthy,
         DecideUnhealthy, ResolveOne, ResolvedAll, CreateReported, FailRequest, state
<1>4. QED BY <1>1, <1>2, <1>3

LEMMA ReportStep == ASSUME TypeInv, ReportAction PROVE TypeInv'
<1>1. PICK h \in Handlers :
        \/ \E m \in Monitors, r \in Reports : ReceiveReport(h, m, r)
        \/ HandlerStep(h, FreeSlots)
        \/ FailRequest(h)
  BY DEF ReportAction
<1>2. ReportFine
  BY <1>1, ReceiveReportFine, ValidateRequestFine, LookupAndPingFine, QueryActiveFine,
     DecideHealthyFine, DecideUnhealthyFine, ResolveOneFine, ResolvedAllFine,
     CreateReportedFine, FailRequestFine DEF HandlerStep
<1>3. RestFine'
  BY <1>1, <1>2, ReportKeepsRest DEF ReportFine, ToldTyped, RestFine, TypeInv, TypeOK, StateTypeOK
<1>4. UNCHANGED checker /\ UNCHANGED editor
  BY DEF ReportAction
<1>5. QED BY <1>2, <1>3, <1>4, CheckerStays, EditorsStay, PartsMakeTypeInv DEF ReportFine

--------------------------------------------------------------------------------
(***************************************************************************)
(* The checker.                                                             *)
(***************************************************************************)
PassFine == RowsStep /\ CheckerFine'

LEMMA CheckerMoves ==
    ASSUME TypeInv, RowsStep, checker' \in Checking, SoundPass(checker', outages')
    PROVE  PassFine
  BY DEF PassFine, CheckerFine, CheckerTypeOK, CheckerSound

LEMMA StartPassFine == ASSUME TypeInv, StartPass PROVE PassFine
<1>1. RowsStep
  BY NoChange DEF StartPass, state
<1>2. config \in [Subs -> SubConfig \cup {NotConfigured}]
  BY DEF TypeInv, TypeOK, StateTypeOK
<1>3. PICK s \in Subs :
        checker' = [pc |-> "next", todo |-> {t \in Subs : Monitored(config[t])}, sub |-> s,
                    cfg |-> config, absent |-> FALSE, found |-> <<>>]
  BY DEF StartPass
<1>4. checker' \in Checking
  BY <1>2, <1>3, NothingFound DEF Checking
<1>5. SoundPass(checker', outages')
  BY <1>2, <1>3, NothingFound DEF SoundPass, Monitored
<1>6. QED BY <1>1, <1>4, <1>5, CheckerMoves

LEMMA EndPassFine == ASSUME TypeInv, EndPass PROVE PassFine
<1>1. RowsStep
  BY NoChange DEF EndPass, state
<1>2. QED BY <1>1 DEF EndPass, PassFine, CheckerFine, CheckerTypeOK, CheckerSound

LEMMA GetLastPingTimeFine == ASSUME TypeInv, GetLastPingTime PROVE PassFine
<1>1. RowsStep
  BY NoChange DEF GetLastPingTime, state
<1>2. checker \in Checking /\ checker # CheckerIdle /\ checker.pc = "next"
  BY WorkingChecker DEF GetLastPingTime
<1>3. PICK s \in checker.todo :
        checker' = [checker EXCEPT !.pc = "query", !.sub = s, !.absent = InOutage(pings[s]),
                                   !.todo = checker.todo \ {s}]
  BY DEF GetLastPingTime
<1>4. s \in Subs /\ InOutage(pings[s]) \in BOOLEAN
  BY <1>2 DEF Checking, InOutage
<1>5. checker' \in Checking
  BY <1>2, <1>3, <1>4 DEF Checking
<1>6. /\ checker'.pc = "query" /\ checker'.sub = s /\ checker'.todo = checker.todo \ {s}
      /\ checker'.found = checker.found /\ checker'.cfg = checker.cfg
  BY <1>2, <1>3 DEF Checking
<1>7. SoundPass(checker, outages')
  BY <1>1, <1>2, PassStays
<1>8. SoundPass(checker', outages')
  BY <1>6, <1>7 DEF SoundPass
<1>9. QED BY <1>1, <1>5, <1>8, CheckerMoves

LEMMA JudgeFine == ASSUME TypeInv, Judge PROVE PassFine
<1> DEFINE s     == checker.sub
           found == GetActiveOutagesDiscoveredFrom(s, AbsentReportSource)
           auto  == checker.cfg[s].autoResolve
           kept  == IF checker.absent \/ ~auto THEN <<>> ELSE found
           pc    == IF checker.absent THEN IF DOMAIN found = {} THEN "create" ELSE "next"
                    ELSE IF auto /\ DOMAIN found # {} THEN "resolve" ELSE "next"
<1>1. RowsStep
  BY NoChange DEF Judge, state
<1>2. checker \in Checking /\ checker # CheckerIdle /\ checker.pc = "query"
  BY WorkingChecker DEF Judge
<1>3. checker' = [checker EXCEPT !.found = kept, !.pc = pc]
  BY DEF Judge
<1>4. /\ found \in CheckerRows /\ DOMAIN found = ActiveAbsent(s)
      /\ \A i \in DOMAIN found : found[i] = outages[i]
  BY AbsentQuery
<1>5. \A i \in DOMAIN found : found[i].source = AbsentReportSource /\ Tracks(outages', i, found[i])
  BY <1>4 DEF ActiveAbsent, Tracks, SameOrigin, Judge, state
<1> HIDE DEF found, auto
<1>6. kept \in CheckerRows
      /\ \A i \in DOMAIN kept : kept[i].source = AbsentReportSource /\ Tracks(outages', i, kept[i])
  BY <1>4, <1>5, NothingFound
<1>7. pc \in {"create", "next", "resolve"} /\ (pc = "resolve" => ~checker.absent /\ auto)
  OBVIOUS
<1> HIDE DEF kept, pc
<1>8. checker' \in Checking
  BY <1>2, <1>3, <1>6, <1>7 DEF Checking
<1>9. /\ checker'.pc = pc /\ checker'.found = kept /\ checker'.cfg = checker.cfg
      /\ checker'.todo = checker.todo /\ checker'.sub = s /\ checker'.absent = checker.absent
  BY <1>2, <1>3 DEF Checking
<1>10. SoundPass(checker, outages')
  BY <1>1, <1>2, PassStays
<1>11. SoundPass(checker', outages')
  BY <1>2, <1>6, <1>7, <1>9, <1>10 DEF SoundPass, auto
<1>12. QED BY <1>1, <1>8, <1>11, CheckerMoves

LEMMA ResolveAbsentFine == ASSUME TypeInv, ResolveAbsent PROVE PassFine
<1> DEFINE found == checker.found
           S     == DOMAIN found
<1>1. /\ checker \in Checking /\ checker # CheckerIdle /\ checker.pc = "resolve"
      /\ SoundPass(checker, outages)
  BY WorkingChecker DEF ResolveAbsent
<1>2. S \subseteq Slots /\ found \in [S -> Outage]
  BY <1>1, CheckerRow DEF Checking
<1>3. PICK i \in S :
        /\ UpdateOutage(i, Ended(found[i])) \/ UNCHANGED outages
        /\ checker' = [checker EXCEPT !.found = [j \in S \ {i} |-> found[j]],
                                      !.pc = IF S \ {i} = {} THEN "next" ELSE "resolve"]
  BY DEF ResolveAbsent
<1>4. i \in Slots /\ found[i] \in Outage /\ Tracks(outages, i, found[i])
  BY <1>1, <1>2 DEF SoundPass
<1>5. RowsStep
  BY <1>3, <1>4, EndedCopy, Save, NoChange
<1> DEFINE rest == [j \in S \ {i} |-> found[j]]
<1>6. rest \in CheckerRows /\ DOMAIN rest = S \ {i} /\ \A j \in S \ {i} : rest[j] = found[j]
  BY <1>2, OneLess
<1>7. PICK pc \in {"next", "resolve"} : checker' = [checker EXCEPT !.found = rest, !.pc = pc]
  BY <1>3
<1> HIDE DEF rest
<1>8. checker' \in Checking
  BY <1>1, <1>6, <1>7 DEF Checking
<1>9. /\ checker'.pc = pc /\ checker'.found = rest /\ checker'.cfg = checker.cfg
      /\ checker'.todo = checker.todo /\ checker'.sub = checker.sub
      /\ checker'.absent = checker.absent
  BY <1>1, <1>7 DEF Checking
<1>10. SoundPass(checker, outages')
  BY <1>1, <1>5, PassStays
<1>11. SoundPass(checker', outages')
  BY <1>1, <1>6, <1>9, <1>10 DEF SoundPass
<1>12. QED BY <1>5, <1>8, <1>11, CheckerMoves

\* Where the pass goes on without anything in hand having changed.
LEMMA PassGoesOn ==
    ASSUME TypeInv, RowsStep, checker # CheckerIdle, checker' = [checker EXCEPT !.pc = "next"]
    PROVE  PassFine
<1>1. checker \in Checking /\ SoundPass(checker, outages')
  BY WorkingChecker, PassStays
<1>2. checker' \in Checking /\ checker'.pc = "next" /\ checker'.found = checker.found
      /\ checker'.cfg = checker.cfg /\ checker'.todo = checker.todo
  BY <1>1 DEF Checking
<1>3. SoundPass(checker', outages')
  BY <1>1, <1>2 DEF SoundPass
<1>4. QED BY <1>2, <1>3, CheckerMoves

LEMMA AbsentOutageType ==
    ASSUME TypeInv, checker.pc = "create"
    PROVE  AbsentOutage \in Outage /\ Origin(AbsentOutage)
<1>1. checker \in Checking /\ SoundPass(checker, outages)
  BY WorkingChecker
<1>2. checker.sub \in Subs /\ checker.cfg[checker.sub] \in SubConfig
  BY <1>1 DEF Checking, SoundPass
<1>3. (~checker.cfg[checker.sub].requiresConfirmation) \in BOOLEAN
  BY <1>2 DEF SubConfig
<1>4. QED BY <1>2, <1>3 DEF AbsentOutage, Outage, Origin

LEMMA CreateAbsentFine == ASSUME TypeInv, CreateAbsent(FreeSlots) PROVE PassFine
<1>1. checker # CheckerIdle
  BY WorkingChecker DEF CreateAbsent
<1>2. CreateOutage(FreeSlots, AbsentOutage) \/ UNCHANGED outages
  BY DEF CreateAbsent
<1>3. RowsStep
  BY <1>2, AbsentOutageType, Creation, NoChange DEF CreateAbsent
<1>4. QED BY <1>1, <1>3, PassGoesOn DEF CreateAbsent

LEMMA SkipSubFine == ASSUME TypeInv, SkipSub PROVE PassFine
<1>1. RowsStep
  BY NoChange DEF SkipSub, state
<1>2. checker # CheckerIdle
  BY WorkingChecker DEF SkipSub
<1>3. QED BY <1>1, <1>2, PassGoesOn DEF SkipSub

LEMMA CheckerStepKeepsTypes == ASSUME TypeInv, CheckerAction PROVE TypeInv'
<1>1. PassFine
  BY StartPassFine, EndPassFine, GetLastPingTimeFine, JudgeFine, ResolveAbsentFine,
     CreateAbsentFine, SkipSubFine DEF CheckerAction, CheckerStep
<1>2. UNCHANGED <<config, pings>>
  BY DEF CheckerAction, CheckerStep, StartPass, EndPass, GetLastPingTime, Judge, ResolveAbsent,
         CreateAbsent, SkipSub, state
<1>3. UNCHANGED <<handler, told, editor>>
  BY DEF CheckerAction, reportVars
<1>4. RestFine'
  BY <1>2, <1>3 DEF RestFine, TypeInv, TypeOK, StateTypeOK, ReportTypeOK
<1>5. QED BY <1>1, <1>3, <1>4, HandlersStay, EditorsStay, PartsMakeTypeInv DEF PassFine

--------------------------------------------------------------------------------
(***************************************************************************)
(* People and the world around.                                             *)
(***************************************************************************)
LEMMA EditedCopy ==
    ASSUME NEW o \in Outage, NEW edit \in Edits
    PROVE  Edited(o, edit) \in Outage /\ SameOrigin(o, Edited(o, edit))
<1>1. edit \in {"end", "reopen", "confirm", "unconfirm"}
  BY EditAssumption DEF EditAssumption
<1>2. QED BY <1>1 DEF Edited, Outage, SameOrigin

LEMMA UserStep == ASSUME TypeInv, UserAction PROVE TypeInv'
<1>1. ASSUME NEW s \in Subs, UserCreates(s) PROVE TypeInv'
  <2>1. PICK confirmed \in BOOLEAN, source \in {Frontend, ComponentMonitor, AbsentReportSource} :
          CreateOutage(FreeSlots,
             [sub |-> s, by |-> EndUser, source |-> source, ended |-> FALSE,
              confirmed |-> confirmed \/ ~config[s].requiresConfirmation])
    BY <1>1 DEF UserCreates
  <2> DEFINE o == [sub |-> s, by |-> EndUser, source |-> source, ended |-> FALSE,
                   confirmed |-> confirmed \/ ~config[s].requiresConfirmation]
  <2>2. config[s] \in SubConfig
    BY <1>1 DEF UserCreates, Configured, TypeInv, TypeOK, StateTypeOK
  <2>3. (confirmed \/ ~config[s].requiresConfirmation) \in BOOLEAN
    BY <2>2 DEF SubConfig
  <2>4. o \in Outage /\ Origin(o)
    BY <2>3 DEF Outage, Origin
  <2>5. RowsStep
    BY <2>1, <2>4, Creation
  <2>6. UNCHANGED <<config, pings, handler, told, checker, editor>>
    BY <1>1 DEF UserCreates, reportVars
  <2>7. RestFine'
    BY <2>6 DEF RestFine, TypeInv, TypeOK, StateTypeOK, ReportTypeOK
  <2>8. QED BY <2>5, <2>6, <2>7, HandlersStay, CheckerStays, EditorsStay, PartsMakeTypeInv
<1>2. ASSUME NEW e \in Editors, NEW i \in Slots, NEW edit \in Edits, UserLoads(e, i, edit)
     PROVE  TypeInv'
  <2>1. RowsStep
    BY <1>2, NoChange DEF UserLoads, state
  <2> DEFINE w == [slot |-> i, copy |-> Edited(outages[i], edit)]
  <2>2. outages[i] \in Outage /\ outages' = outages
    BY <1>2 DEF UserLoads, state, TypeInv, TypeOK, StateTypeOK
  <2>3. w.copy \in Outage /\ SameOrigin(outages[i], w.copy)
    BY <2>2, EditedCopy
  <2>4. w \in Editing /\ Tracks(outages', w.slot, w.copy)
    BY <2>2, <2>3 DEF Editing, Tracks
  <2>5. editor' = [editor EXCEPT ![e] = w] /\ editor \in [Editors -> Editing \cup {Idle}]
    BY <1>2 DEF UserLoads, TypeInv, TypeOK
  <2> HIDE DEF w
  <2>6. EditorsFine'
    <3>1. editor' \in [Editors -> Editing \cup {Idle}]
      BY <2>4, <2>5
    <3>2. ASSUME NEW f \in Editors, editor'[f] # Idle
         PROVE  Tracks(outages', editor'[f].slot, editor'[f].copy)
      <4>1. CASE f = e
        BY <2>4, <2>5, <4>1
      <4>2. CASE f # e
        BY <2>1, <2>5, <3>2, <4>2, EditStays
      <4>3. QED BY <4>1, <4>2
    <3>3. QED BY <3>1, <3>2 DEF EditorsFine, EditorsSound
  <2>7. UNCHANGED <<config, pings, handler, told, checker>>
    BY <1>2 DEF UserLoads, reportVars, state
  <2>8. RestFine'
    BY <2>7 DEF RestFine, TypeInv, TypeOK, StateTypeOK, ReportTypeOK
  <2>9. QED BY <2>1, <2>6, <2>7, <2>8, HandlersStay, CheckerStays, PartsMakeTypeInv
<1>3. ASSUME NEW e \in Editors, UserSaves(e) PROVE TypeInv'
  <2>1. editor[e] \in Editing /\ Tracks(outages, editor[e].slot, editor[e].copy)
    BY <1>3 DEF UserSaves, TypeInv, TypeOK, EditorsSound
  <2>2. editor[e].slot \in Slots /\ editor[e].copy \in Outage
    BY <2>1 DEF Editing
  <2>3. UpdateOutage(editor[e].slot, editor[e].copy)
    BY <1>3 DEF UserSaves
  <2>4. RowsStep
    BY <2>1, <2>2, <2>3, Save
  <2>5. editor' = [editor EXCEPT ![e] = Idle] /\ editor \in [Editors -> Editing \cup {Idle}]
    BY <1>3 DEF UserSaves, TypeInv, TypeOK
  <2>6. EditorsFine'
    <3>1. \A f \in Editors : editor'[f] # Idle => editor'[f] = editor[f]
      BY <2>5
    <3>2. QED BY <2>4, <2>5, <3>1, EditStays DEF EditorsFine, EditorsSound
  <2>7. UNCHANGED <<config, pings, handler, checker>>
    BY <1>3 DEF UserSaves
  <2>8. ToldTyped'
    BY <1>3, ForgetType DEF UserSaves
  <2>9. RestFine'
    BY <2>7, <2>8 DEF ToldTyped, RestFine, TypeInv, TypeOK, StateTypeOK
  <2>10. QED BY <2>4, <2>6, <2>7, <2>9, HandlersStay, CheckerStays, PartsMakeTypeInv
<1>4. ASSUME NEW i \in Slots, UserDeletes(i) PROVE TypeInv'
  <2>1. RowsStep
    BY <1>4, Deletion DEF UserDeletes
  <2>2. UNCHANGED <<config, pings, handler, checker, editor>>
    BY <1>4 DEF UserDeletes
  <2>3. ToldTyped'
    BY <1>4, ForgetType DEF UserDeletes
  <2>4. RestFine'
    BY <2>2, <2>3 DEF ToldTyped, RestFine, TypeInv, TypeOK, StateTypeOK
  <2>5. QED BY <2>1, <2>2, <2>4, HandlersStay, CheckerStays, EditorsStay, PartsMakeTypeInv
<1>5. QED BY <1>1, <1>2, <1>3, <1>4 DEF UserAction

LEMMA WorldStep == ASSUME TypeInv, ReloadConfig \/ Tick PROVE TypeInv'
<1>1. RowsStep /\ UNCHANGED <<handler, told, checker, editor>>
  BY NoChange DEF ReloadConfig, Tick, reportVars
<1>2. RestFine'
  <2>1. CASE ReloadConfig
    BY <1>1, <2>1, ConfigAssumption
       DEF ConfigAssumption, ReloadConfig, RestFine, TypeInv, TypeOK, StateTypeOK, ReportTypeOK
  <2>2. CASE Tick
    <3>1. \A s \in Subs : Older(pings[s]) \in Ages \cup {NoPing}
      BY StateAssumption DEF StateAssumption, Older, Ages, NoPing, TypeInv, TypeOK, StateTypeOK
    <3>2. QED BY <1>1, <2>2, <3>1 DEF Tick, RestFine, TypeInv, TypeOK, StateTypeOK, ReportTypeOK
  <2>3. QED BY <2>1, <2>2
<1>3. QED BY <1>1, <1>2, HandlersStay, CheckerStays, EditorsStay, PartsMakeTypeInv

LEMMA RestartStep == ASSUME TypeInv, Restart PROVE TypeInv'
<1>1. RowsStep
  BY NoChange DEF Restart, state
<1>2. HandlersFine' /\ CheckerFine' /\ EditorsFine'
  BY DEF Restart, HandlersFine, HandlersSound, CheckerFine, CheckerTypeOK, CheckerSound,
         EditorsFine, EditorsSound
<1>3. RestFine'
  BY DEF Restart, state, RestFine, Told, TypeInv, TypeOK, StateTypeOK
<1>4. QED BY <1>1, <1>2, <1>3, PartsMakeTypeInv

LEMMA TypeInit == Init => TypeInv
<1> SUFFICES ASSUME Init PROVE TypeInv
  OBVIOUS
<1>1. StateTypeOK
  BY ConfigAssumption DEF ConfigAssumption, Init, StateInit, StateTypeOK
<1>2. ReportTypeOK /\ CheckerTypeOK
  BY DEF Init, ReportInit, CheckerInit, ReportTypeOK, CheckerTypeOK, Told
<1>3. editor \in [Editors -> Editing \cup {Idle}]
  BY DEF Init
<1>4. RowsSound /\ HandlersSound /\ CheckerSound /\ EditorsSound
  BY DEF Init, StateInit, ReportInit, CheckerInit, RowsSound, HandlersSound, CheckerSound, EditorsSound
<1>5. QED BY <1>1, <1>2, <1>3, <1>4 DEF TypeInv, TypeOK

LEMMA TypeStep == TypeInv /\ [Next]_vars => TypeInv'
<1> SUFFICES ASSUME TypeInv, [Next]_vars PROVE TypeInv'
  OBVIOUS
<1>1. CASE UNCHANGED vars
  BY <1>1 DEF vars, TypeInv, TypeOK, StateTypeOK, ReportTypeOK, CheckerTypeOK, RowsSound,
              HandlersSound, CheckerSound, EditorsSound
<1>2. CASE Next
  BY <1>2, ReportStep, CheckerStepKeepsTypes, UserStep, WorldStep, RestartStep DEF Next
<1>3. QED BY <1>1, <1>2

LEMMA TypeInvariant == Spec => []TypeInv
  BY TypeInit, TypeStep, PTL DEF Spec

\* The table, the pings, requests, the checker's pass and people's copies keep their
\* types, for any number of parties whose steps interleave in any way.
THEOREM TypeCorrect == Spec => []TypeOK
  BY TypeInvariant, PTL DEF TypeInv

--------------------------------------------------------------------------------
(***************************************************************************)
(* Who ends outages.                                                        *)
(***************************************************************************)
LEMMA KeptIsNotEnded == ASSUME NEW i, outages'[i] = outages[i] PROVE ~EndsRow(i)
  BY DEF EndsRow, ActiveRow

LEMMA CreatedIsNotEnded ==
    ASSUME TypeInv, NEW o \in Outage, Origin(o), ~o.ended, CreateOutage(FreeSlots, o),
           NEW i \in Slots
    PROVE  ~EndsRow(i)
  BY Creation DEF EndsRow, ActiveRow

\* Of the steps of a request only the save of a found copy ends an outage.
LEMMA ReportEnds ==
    ASSUME TypeInv, ReportAction, NEW i \in Slots, EndsRow(i)
    PROVE  ItsMonitorResolved(i)
<1>1. PICK h \in Handlers :
        \/ \E m \in Monitors, r \in Reports : ReceiveReport(h, m, r)
        \/ HandlerStep(h, FreeSlots)
        \/ FailRequest(h)
  BY DEF ReportAction
<1>2. outages' # outages
  BY KeptIsNotEnded
<1>3. ~CreateReported(h, FreeSlots)
  <2>1. ASSUME CreateReported(h, FreeSlots) PROVE FALSE
    <3>1. CreateOutage(FreeSlots, ReportedOutage(h)) /\ handler[h].pc = "create"
      BY <1>2, <2>1 DEF CreateReported
    <3>2. ~ReportedOutage(h).ended
      BY DEF ReportedOutage
    <3>3. QED BY <3>1, <3>2, ReportedOutageType, CreatedIsNotEnded
  <2>2. QED BY <2>1
<1>4. ResolveOne(h)
  BY <1>1, <1>2, <1>3
     DEF ReceiveReport, HandlerStep, ValidateRequest, LookupAndPing, QueryActive, DecideHealthy,
         DecideUnhealthy, ResolvedAll, FailRequest, state
<1> DEFINE found == handler[h].found
           S     == DOMAIN found
<1>5. /\ handler[h] \in Processing /\ handler[h] # Idle /\ handler[h].pc = "resolve"
      /\ SoundWork(handler[h], outages)
  BY <1>4, WorkingHandler DEF ResolveOne
<1>6. S \subseteq Slots /\ found \in [S -> Outage]
  BY <1>5, PartialRow DEF Processing
<1>7. PICK k \in S :
        /\ UpdateOutage(k, Ended(found[k]))
        /\ Become(h, [handler[h] EXCEPT !.found = [j \in S \ {k} |-> found[j]]])
  BY <1>2, <1>4 DEF ResolveOne
<1>8. k \in Slots /\ found[k] \in Outage /\ Tracks(outages, k, found[k])
      /\ found[k].by = Monitor(h)
  BY <1>5, <1>6 DEF SoundWork, Monitor
<1>9. i = k
  BY <1>7, <1>8, EndedCopy, Save, KeptIsNotEnded
<1>10. outages[i].by = Monitor(h)
  BY <1>8, <1>9 DEF EndsRow, ActiveRow, Tracks, SameOrigin
<1>11. handler'[h] # handler[h]
  <2> DEFINE rest == [j \in S \ {k} |-> found[j]]
             w    == [handler[h] EXCEPT !.found = rest]
  <2>1. w.found = rest
    BY <1>5 DEF Processing
  <2>2. rest # found
    <3>1. DOMAIN rest = S \ {k}
      OBVIOUS
    <3>2. QED BY <1>7, <3>1
  <2>3. handler'[h] = w
    BY <1>7 DEF Become, TypeInv, TypeOK, ReportTypeOK
  <2> HIDE DEF w, rest
  <2>4. QED BY <2>1, <2>2, <2>3
<1>12. Current(h).status = "Healthy" /\ handler[h].cfg.autoResolve
  BY <1>5 DEF SoundWork, Current
<1>13. QED BY <1>5, <1>10, <1>11, <1>12 DEF ItsMonitorResolved

LEMMA CheckerEnds ==
    ASSUME TypeInv, CheckerAction, NEW i \in Slots, EndsRow(i)
    PROVE  CheckerResolved(i)
<1>1. outages' # outages
  BY KeptIsNotEnded
<1>2. ~CreateAbsent(FreeSlots)
  <2>1. ASSUME CreateAbsent(FreeSlots) PROVE FALSE
    <3>1. CreateOutage(FreeSlots, AbsentOutage) /\ checker.pc = "create"
      BY <1>1, <2>1 DEF CreateAbsent
    <3>2. AbsentOutage \in Outage /\ Origin(AbsentOutage) /\ ~AbsentOutage.ended
      BY <3>1, AbsentOutageType DEF AbsentOutage
    <3>3. QED BY <3>1, <3>2, CreatedIsNotEnded
  <2>2. QED BY <2>1
<1>3. ResolveAbsent
  BY <1>1, <1>2 DEF CheckerAction, CheckerStep, StartPass, EndPass, GetLastPingTime, Judge,
                    SkipSub, state
<1> DEFINE found == checker.found
           S     == DOMAIN found
<1>4. /\ checker \in Checking /\ checker # CheckerIdle /\ checker.pc = "resolve"
      /\ SoundPass(checker, outages)
  BY <1>3, WorkingChecker DEF ResolveAbsent
<1>5. S \subseteq Slots /\ found \in [S -> Outage]
  BY <1>4, CheckerRow DEF Checking
<1>6. PICK k \in S :
        /\ UpdateOutage(k, Ended(found[k]))
        /\ checker' = [checker EXCEPT !.found = [j \in S \ {k} |-> found[j]],
                                      !.pc = IF S \ {k} = {} THEN "next" ELSE "resolve"]
  BY <1>1, <1>3 DEF ResolveAbsent
<1>7. k \in Slots /\ found[k] \in Outage /\ Tracks(outages, k, found[k])
      /\ found[k].source = AbsentReportSource
  BY <1>4, <1>5 DEF SoundPass
<1>8. i = k
  BY <1>6, <1>7, EndedCopy, Save, KeptIsNotEnded
<1>9. outages[i].source = AbsentReportSource
  BY <1>7, <1>8 DEF EndsRow, ActiveRow, Tracks, SameOrigin
<1>10. checker' # checker
  <2> DEFINE rest == [j \in S \ {k} |-> found[j]]
  <2>1. DOMAIN rest # S
    BY <1>6
  <2>2. checker'.found = rest
    BY <1>4, <1>6 DEF Checking
  <2> HIDE DEF rest
  <2>3. QED BY <2>1, <2>2
<1>11. QED BY <1>4, <1>9, <1>10 DEF SoundPass, CheckerResolved

LEMMA UserEnds ==
    ASSUME TypeInv, UserAction, NEW i \in Slots, EndsRow(i)
    PROVE  PersonSaved
<1>1. outages' # outages
  BY KeptIsNotEnded
<1>2. ASSUME NEW s \in Subs, UserCreates(s) PROVE FALSE
  <2>1. PICK o : /\ CreateOutage(FreeSlots, o) /\ ~o.ended
                 /\ \E k \in FreeSlots : outages' = [outages EXCEPT ![k] = o]
    BY <1>2 DEF UserCreates, CreateOutage
  <2>2. outages \in [Slots -> Outage \cup {NoOutage}]
    BY DEF TypeInv, TypeOK, StateTypeOK
  <2>3. QED BY <2>1, <2>2 DEF FreeSlots, Free, EndsRow, ActiveRow
<1>3. ASSUME NEW k \in Slots, UserDeletes(k) PROVE FALSE
  BY <1>3 DEF UserDeletes, EndsRow, ActiveRow, TypeInv, TypeOK, StateTypeOK
<1>4. PICK e \in Editors : UserSaves(e)
  BY <1>1, <1>2, <1>3 DEF UserAction, UserLoads, state
<1>5. editor[e] # Idle /\ editor'[e] = Idle
  BY <1>4 DEF UserSaves, TypeInv, TypeOK
<1>6. QED BY <1>5 DEF PersonSaved

\* Whatever interleaves, and however outdated the copies are that people, requests and
\* the checker write back: an outage is ended by a person, by a healthy report of the
\* monitor that opened it or, with a ping in time, by the checker if its source is an
\* absent report, whoever opened it; and where the configuration read allows it.
THEOREM EndsHaveCause == Spec => EndedForCause
<1>1. TypeInv /\ [Next]_vars =>
        [\A i \in Slots :
           EndsRow(i) => PersonSaved \/ ItsMonitorResolved(i) \/ CheckerResolved(i)]_vars
  <2> SUFFICES ASSUME TypeInv, [Next]_vars, NEW i \in Slots, EndsRow(i)
               PROVE  PersonSaved \/ ItsMonitorResolved(i) \/ CheckerResolved(i)
    OBVIOUS
  <2>1. outages' # outages
    BY KeptIsNotEnded
  <2>2. ReportAction \/ CheckerAction \/ UserAction
    BY <2>1 DEF Next, ReloadConfig, Tick, Restart, vars, state
  <2>3. QED BY <2>2, ReportEnds, CheckerEnds, UserEnds
<1>2. QED BY <1>1, TypeInvariant, PTL DEF Spec, EndedForCause

--------------------------------------------------------------------------------
(***************************************************************************)
(* What reports said, when a monitor's reports are processed one at a time. *)
(***************************************************************************)
OneRequestEach ==
    \A g, h \in Handlers :
        (handler[g] # Idle /\ handler[h] # Idle /\ Monitor(g) = Monitor(h)) => g = h

\* What a request that has queried knows of its monitor's active outages (in A), unless a
\* person has interfered since (told is no longer pending).
WorkTells(w, t, A) ==
    w.pc \in {"decide", "resolve", "create"} =>
      /\ t \in {"pending", "nothing"}
      /\ (t = "pending" /\ w.pc = "decide") => DOMAIN w.found = A
      /\ (t = "pending" /\ w.pc = "resolve") => A \subseteq DOMAIN w.found

FoundTells ==
    \A h \in Handlers :
        handler[h] # Idle =>
            WorkTells(handler[h], told[Monitor(h)][Current(h).sub],
                      ActiveBy(Current(h).sub, Monitor(h)))

PairHolds(t, A) == (t = "healthy" => A = {}) /\ (t = "unhealthy" => A # {})

TellsInv == TypeInv /\ OneRequestEach /\ FoundTells /\ ReportedStateHolds

\* Told and active outages of a pair of monitor and sub-component stay as they are.
PairStays(m, s) == told'[m][s] = told[m][s] /\ ActiveBy(s, m)' = ActiveBy(s, m)

\* A step of anybody but a request: each pair stays, or is forgotten.
LEMMA OthersTell ==
    ASSUME TellsInv, UNCHANGED handler,
           \A m \in Monitors, s \in Subs : PairStays(m, s) \/ told'[m][s] = "nothing"
    PROVE  OneRequestEach' /\ FoundTells' /\ ReportedStateHolds'
<1>1. OneRequestEach'
  BY DEF TellsInv, OneRequestEach, Monitor
<1>2. ASSUME NEW h \in Handlers, handler[h] # Idle,
             NEW m, m = Monitor(h), NEW s, s = Current(h).sub
     PROVE  WorkTells(handler[h], told'[m][s], ActiveBy(s, m)')
  <2>1. m \in Monitors /\ s \in Subs
    BY <1>2, CurrentStatus DEF TellsInv, Status
  <2>2. WorkTells(handler[h], told[m][s], ActiveBy(s, m))
    BY <1>2 DEF TellsInv, FoundTells
  <2>3. CASE PairStays(m, s)
    BY <2>2, <2>3 DEF PairStays
  <2>4. CASE told'[m][s] = "nothing"
    BY <2>4 DEF WorkTells
  <2>5. QED BY <2>1, <2>3, <2>4
<1>3. FoundTells'
  <2> SUFFICES ASSUME NEW h \in Handlers, handler'[h] # Idle
               PROVE  WorkTells(handler[h], told'[Monitor(h)][Current(h).sub],
                                ActiveBy(Current(h).sub, Monitor(h))')
    BY DEF FoundTells, Monitor, Current
  <2>1. Monitor(h)' = Monitor(h) /\ Current(h)' = Current(h)
    BY DEF Monitor, Current
  <2>2. ActiveBy(Current(h).sub, Monitor(h))' =
          {i \in Slots : ActiveRow(i)' /\ outages'[i].sub = Current(h).sub
                           /\ outages'[i].by = Monitor(h)}
    BY <2>1 DEF ActiveBy
  <2>3. QED BY <1>2, <2>2 DEF ActiveBy
<1>4. ASSUME NEW m \in Monitors, NEW s \in Subs PROVE PairHolds(told'[m][s], ActiveBy(s, m)')
  <2>1. PairHolds(told[m][s], ActiveBy(s, m))
    BY DEF TellsInv, ReportedStateHolds, PairHolds
  <2>2. CASE PairStays(m, s)
    BY <2>1, <2>2 DEF PairStays
  <2>3. CASE told'[m][s] = "nothing"
    BY <2>3 DEF PairHolds
  <2>4. QED BY <2>2, <2>3
<1>5. QED BY <1>1, <1>3, <1>4 DEF ReportedStateHolds, PairHolds

\* A step of request h, which becomes w: pairs other than the one it is at stay, that one
\* holds, and w knows what it should.
LEMMA HandlerTells ==
    ASSUME TellsInv, NEW h \in Handlers, handler[h] # Idle,
           NEW m0, m0 = Monitor(h), NEW s0, s0 = Current(h).sub,
           NEW w, Become(h, w), w # Idle => w.monitor = m0,
           w # Idle => WorkTells(w, told'[m0][w.report[w.n].sub], ActiveBy(s0, m0)'),
           w # Idle /\ w.pc \in {"decide", "resolve", "create"} => w.report[w.n].sub = s0,
           \A m \in Monitors, s \in Subs : (m = m0 /\ s = s0) \/ PairStays(m, s),
           PairHolds(told'[m0][s0], ActiveBy(s0, m0)')
    PROVE  OneRequestEach' /\ FoundTells' /\ ReportedStateHolds'
<1>1. /\ handler' \in [Handlers -> Processing \cup {Idle, w}] /\ handler'[h] = w
      /\ \A g \in Handlers \ {h} : handler'[g] = handler[g]
  BY DEF Become, TellsInv, TypeInv, TypeOK, ReportTypeOK
<1>2. OneRequestEach'
  BY <1>1 DEF TellsInv, OneRequestEach, Monitor
<1>3. ASSUME NEW g \in Handlers \ {h}, handler'[g] # Idle,
             NEW m, m = Monitor(g), NEW s, s = Current(g).sub
     PROVE  WorkTells(handler'[g], told'[m][s], ActiveBy(s, m)')
  <2>1. m \in Monitors /\ s \in Subs
    BY <1>1, <1>3, CurrentStatus DEF TellsInv, Status
  <2>2. m # m0
    BY <1>1, <1>3 DEF TellsInv, OneRequestEach
  <2>3. WorkTells(handler[g], told[m][s], ActiveBy(s, m))
    BY <1>1, <1>3 DEF TellsInv, FoundTells
  <2>4. PairStays(m, s)
    BY <2>1, <2>2
  <2>5. QED BY <1>1, <2>3, <2>4 DEF PairStays
<1>4. ASSUME handler'[h] # Idle, NEW s, s = w.report[w.n].sub
     PROVE  WorkTells(handler'[h], told'[m0][s], ActiveBy(s, m0)')
  BY <1>1, <1>4 DEF WorkTells
<1>5. FoundTells'
  <2> SUFFICES ASSUME NEW g \in Handlers, handler'[g] # Idle
               PROVE  WorkTells(handler'[g], told'[Monitor(g)'][Current(g)'.sub],
                                ActiveBy(Current(g).sub, Monitor(g))')
    BY DEF FoundTells
  <2>1. CASE g = h
    <3>1. Monitor(g)' = m0 /\ Current(g)' = w.report[w.n]
      BY <1>1, <2>1 DEF Monitor, Current
    <3>2. ActiveBy(Current(g).sub, Monitor(g))' =
            {i \in Slots : ActiveRow(i)' /\ outages'[i].sub = w.report[w.n].sub
                             /\ outages'[i].by = m0}
      BY <3>1 DEF ActiveBy
    <3>3. QED BY <1>4, <2>1, <3>1, <3>2 DEF ActiveBy
  <2>2. CASE g # h
    <3>1. Monitor(g)' = Monitor(g) /\ Current(g)' = Current(g)
      BY <1>1, <2>2 DEF Monitor, Current
    <3>2. ActiveBy(Current(g).sub, Monitor(g))' =
            {i \in Slots : ActiveRow(i)' /\ outages'[i].sub = Current(g).sub
                             /\ outages'[i].by = Monitor(g)}
      BY <3>1 DEF ActiveBy
    <3>3. \A m, s : ActiveBy(s, m)' =
            {i \in Slots : ActiveRow(i)' /\ outages'[i].sub = s /\ outages'[i].by = m}
      BY DEF ActiveBy
    <3>4. PICK m, s : m = Monitor(g) /\ s = Current(g).sub
      OBVIOUS
    <3>5. ActiveBy(Current(g).sub, Monitor(g))' = ActiveBy(s, m)'
      BY <3>2, <3>3, <3>4
    <3>6. WorkTells(handler'[g], told'[m][s], ActiveBy(s, m)')
      BY <1>3, <2>2, <3>4
    <3>7. QED BY <3>1, <3>4, <3>5, <3>6
  <2>3. QED BY <2>1, <2>2
<1>6. ASSUME NEW m \in Monitors, NEW s \in Subs PROVE PairHolds(told'[m][s], ActiveBy(s, m)')
  <2>1. PairHolds(told[m][s], ActiveBy(s, m))
    BY DEF TellsInv, ReportedStateHolds, PairHolds
  <2>2. CASE PairStays(m, s)
    BY <2>1, <2>2 DEF PairStays
  <2>3. CASE m = m0 /\ s = s0
    BY <2>3
  <2>4. QED BY <2>2, <2>3
<1>7. QED BY <1>2, <1>5, <1>6 DEF ReportedStateHolds, PairHolds

TellsOn == OneRequestEach' /\ FoundTells' /\ ReportedStateHolds'

\* What the kinds of changes do to a pair.
LEMMA SameRows == ASSUME UNCHANGED outages, NEW m, NEW s PROVE ActiveBy(s, m)' = ActiveBy(s, m)
  BY DEF ActiveBy, ActiveRow

LEMMA EndingRows ==
    ASSUME TypeInv, NEW k \in Slots, NEW c \in Outage, Tracks(outages, k, c),
           UpdateOutage(k, Ended(c)), NEW m, NEW s
    PROVE  /\ ActiveBy(s, m)' = ActiveBy(s, m) \ {k}
           /\ k \in ActiveBy(s, m) => m = c.by /\ s = c.sub
<1>1. Ended(c) \in Outage /\ Ended(c).ended /\ Tracks(outages, k, Ended(c))
  BY EndedCopy
<1>2. outages'[k] \in {Ended(c), NoOutage} /\ \A j \in Slots \ {k} : outages'[j] = outages[j]
  BY <1>1, Save
<1>3. ActiveBy(s, m)' = {i \in Slots : ActiveRow(i)' /\ outages'[i].sub = s /\ outages'[i].by = m}
  BY DEF ActiveBy
<1>4. ~ActiveRow(k)' /\ \A j \in Slots \ {k} : ActiveRow(j)' <=> ActiveRow(j)
  BY <1>1, <1>2 DEF ActiveRow
<1>5. ActiveBy(s, m)' = ActiveBy(s, m) \ {k}
  BY <1>2, <1>3, <1>4 DEF ActiveBy
<1>6. k \in ActiveBy(s, m) => m = c.by /\ s = c.sub
  BY DEF ActiveBy, ActiveRow, Tracks, SameOrigin
<1>7. QED BY <1>5, <1>6

LEMMA CreatingRows ==
    ASSUME TypeInv, NEW o \in Outage, Origin(o), ~o.ended, CreateOutage(FreeSlots, o)
    PROVE  \E k \in Slots : \A m, s :
             /\ m = o.by /\ s = o.sub => ActiveBy(s, m)' = ActiveBy(s, m) \cup {k}
             /\ m # o.by \/ s # o.sub => ActiveBy(s, m)' = ActiveBy(s, m)
<1>1. PICK k \in FreeSlots : /\ outages'[k] = o /\ k \in Slots /\ ~ActiveRow(k)
                            /\ \A j \in Slots \ {k} : outages'[j] = outages[j]
  BY Creation
<1>2. ASSUME NEW m, NEW s
     PROVE  /\ m = o.by /\ s = o.sub => ActiveBy(s, m)' = ActiveBy(s, m) \cup {k}
            /\ m # o.by \/ s # o.sub => ActiveBy(s, m)' = ActiveBy(s, m)
  <2>1. ActiveBy(s, m)' = {i \in Slots : ActiveRow(i)' /\ outages'[i].sub = s /\ outages'[i].by = m}
    BY DEF ActiveBy
  <2>2. ActiveRow(k)'
    BY <1>1, RowAssumption DEF RowAssumption, ActiveRow
  <2>3. \A j \in Slots \ {k} : ActiveRow(j)' <=> ActiveRow(j)
    BY <1>1 DEF ActiveRow
  <2>4. ASSUME NEW i \in Slots
       PROVE  i \in ActiveBy(s, m)' <=>
                i \in ActiveBy(s, m) \/ (i = k /\ m = o.by /\ s = o.sub)
    BY <1>1, <2>1, <2>2, <2>3 DEF ActiveBy
  <2>5. ActiveBy(s, m) \subseteq Slots /\ ActiveBy(s, m)' \subseteq Slots
    BY <2>1 DEF ActiveBy
  <2>6. QED BY <1>1, <2>4, <2>5
<1>3. QED BY <1>1, <1>2

LEMMA ToldIsTyped == ASSUME TypeInv PROVE told \in [Monitors -> [Subs -> Told]]
  BY DEF TypeInv, TypeOK, ReportTypeOK

\* What a request says is about its pair only.
LEMMA TellPair ==
    ASSUME TypeInv, NEW h \in Handlers, handler[h] # Idle, NEW what, Tell(h, what),
           NEW m0, m0 = Monitor(h), NEW s0, s0 = Current(h).sub
    PROVE  /\ told[m0][s0] = "pending" => told'[m0][s0] = what
           /\ told[m0][s0] # "pending" => told'[m0][s0] = told[m0][s0]
           /\ \A m \in Monitors, s \in Subs : (m = m0 /\ s = s0) \/ told'[m][s] = told[m][s]
<1>1. m0 \in Monitors /\ s0 \in Subs
  BY CurrentStatus DEF Status
<1>2. CASE told[m0][s0] = "pending"
  <2>1. told' = [told EXCEPT ![m0] = [told[m0] EXCEPT ![s0] = what]]
    BY <1>2 DEF Tell
  <2>2. QED BY <1>1, <1>2, <2>1, ToldIsTyped
<1>3. CASE told[m0][s0] # "pending"
  <2>1. told' = told
    BY <1>3 DEF Tell
  <2>2. QED BY <1>3, <2>1
<1>4. QED BY <1>2, <1>3

\* Steps of a request that leave it without anything found.
LEMMA QuietMoves ==
    ASSUME TellsInv, NEW h \in Handlers, handler[h] # Idle, UNCHANGED <<outages, told>>,
           NEW w, Become(h, w), w # Idle => w.monitor = Monitor(h),
           w # Idle => w.pc \notin {"decide", "resolve", "create"}
    PROVE  TellsOn
<1>1. PICK m0, s0 : m0 = Monitor(h) /\ s0 = Current(h).sub
  OBVIOUS
<1>2. m0 \in Monitors /\ s0 \in Subs
  BY <1>1, CurrentStatus DEF TellsInv, Status
<1>3. \A m \in Monitors, s \in Subs : PairStays(m, s)
  BY SameRows DEF PairStays
<1>4. PairHolds(told'[m0][s0], ActiveBy(s0, m0)')
  BY <1>2, <1>3 DEF PairStays, TellsInv, ReportedStateHolds, PairHolds
<1>5. w # Idle => WorkTells(w, told'[m0][w.report[w.n].sub], ActiveBy(s0, m0)')
  BY DEF WorkTells
<1>6. QED BY <1>1, <1>3, <1>4, <1>5, HandlerTells DEF TellsOn

LEMMA AdvanceTells ==
    ASSUME TellsInv, NEW h \in Handlers, handler[h] # Idle, Advance(h),
           NEW m0, m0 = Monitor(h), NEW s0, s0 = Current(h).sub,
           \A m \in Monitors, s \in Subs : (m = m0 /\ s = s0) \/ PairStays(m, s),
           PairHolds(told'[m0][s0], ActiveBy(s0, m0)')
    PROVE  TellsOn
<1>1. handler[h] \in Processing
  BY WorkingHandler DEF TellsInv
<1> DEFINE v == [handler[h] EXCEPT !.pc = "lookup", !.n = handler[h].n + 1,
                                   !.cfg = NotConfigured, !.found = <<>>]
           w == IF handler[h].n = Len(handler[h].report) THEN Idle ELSE v
<1>2. v.pc = "lookup" /\ v.monitor = m0
  BY <1>1 DEF Processing, Monitor
<1>3. Become(h, w)
  BY DEF Advance
<1> HIDE DEF v
<1>4. w # Idle => w.monitor = m0 /\ w.pc \notin {"decide", "resolve", "create"}
  BY <1>2
<1> HIDE DEF w
<1>5. w # Idle => WorkTells(w, told'[m0][w.report[w.n].sub], ActiveBy(s0, m0)')
  BY <1>4 DEF WorkTells
<1>6. QED BY <1>3, <1>4, <1>5, HandlerTells DEF TellsOn

LEMMA ReceiveReportTells ==
    ASSUME TellsInv, ~Overlap, NEW h \in Handlers, NEW m \in Monitors, NEW r \in Reports,
           ReceiveReport(h, m, r)
    PROVE  TellsOn
<1> DEFINE w == [pc |-> "validate", monitor |-> m, report |-> r, n |-> 1,
                 cfg |-> NotConfigured, found |-> <<>>]
<1>1. /\ handler[h] = Idle /\ Become(h, w) /\ UNCHANGED <<outages, told>>
      /\ \A g \in Handlers : handler[g] # Idle => Monitor(g) # m
  BY DEF ReceiveReport, state
<1>2. w.pc = "validate" /\ w.monitor = m
  OBVIOUS
<1> HIDE DEF w
<1>3. handler'[h] = w /\ \A g \in Handlers \ {h} : handler'[g] = handler[g]
  BY <1>1 DEF Become, TellsInv, TypeInv, TypeOK, ReportTypeOK
<1>4. OneRequestEach'
  BY <1>1, <1>2, <1>3 DEF TellsInv, OneRequestEach, Monitor
<1>5. ASSUME NEW g \in Handlers, handler'[g] # Idle
     PROVE  WorkTells(handler[g], told[Monitor(g)][Current(g).sub],
                      ActiveBy(Current(g).sub, Monitor(g)))'
  <2>1. CASE g = h
    BY <1>2, <1>3, <2>1 DEF WorkTells
  <2>2. CASE g # h
    <3>1. handler'[g] = handler[g] /\ handler[g] # Idle
      BY <1>3, <1>5, <2>2
    <3>2. Monitor(g)' = Monitor(g) /\ Current(g)' = Current(g)
      BY <3>1 DEF Monitor, Current
    <3>3. ActiveBy(Current(g).sub, Monitor(g))' = ActiveBy(Current(g).sub, Monitor(g))
      BY <1>1, <3>2 DEF ActiveBy, ActiveRow
    <3>4. WorkTells(handler[g], told[Monitor(g)][Current(g).sub],
                    ActiveBy(Current(g).sub, Monitor(g)))
      BY <3>1 DEF TellsInv, FoundTells
    <3>5. told' = told
      BY <1>1
    <3>6. QED BY <3>1, <3>2, <3>3, <3>4, <3>5
  <2>3. QED BY <2>1, <2>2
<1>6. FoundTells'
  BY <1>5 DEF FoundTells
<1>7. ReportedStateHolds'
  BY <1>1, SameRows DEF TellsInv, ReportedStateHolds
<1>8. QED BY <1>4, <1>6, <1>7 DEF TellsOn

LEMMA ValidateRequestTells ==
    ASSUME TellsInv, NEW h \in Handlers, ValidateRequest(h) PROVE TellsOn
<1>1. handler[h] \in Processing /\ handler[h] # Idle /\ handler[h].pc = "validate"
  BY WorkingHandler DEF TellsInv, ValidateRequest
<1>2. PICK w \in {Idle, [handler[h] EXCEPT !.n = handler[h].n + 1],
                 [handler[h] EXCEPT !.pc = "lookup", !.n = 1]} : Become(h, w)
  BY DEF ValidateRequest
<1>3. w # Idle => w.monitor = Monitor(h) /\ w.pc \in {"validate", "lookup"}
  BY <1>1, <1>2 DEF Processing, Monitor
<1>4. QED BY <1>1, <1>2, <1>3, QuietMoves DEF ValidateRequest, state

LEMMA LookupAndPingTells ==
    ASSUME TellsInv, NEW h \in Handlers, LookupAndPing(h) PROVE TellsOn
<1>1. handler[h] \in Processing /\ handler[h] # Idle /\ handler[h].pc = "lookup"
  BY WorkingHandler DEF TellsInv, LookupAndPing
<1>2. PICK w \in {Idle, [handler[h] EXCEPT !.pc = "query", !.cfg = config[Current(h).sub]]} :
        Become(h, w)
  BY DEF LookupAndPing
<1>3. w # Idle => w.monitor = Monitor(h) /\ w.pc = "query"
  BY <1>1, <1>2 DEF Processing, Monitor
<1>4. QED BY <1>1, <1>2, <1>3, QuietMoves DEF LookupAndPing

LEMMA FailRequestTells ==
    ASSUME TellsInv, NEW h \in Handlers, FailRequest(h) PROVE TellsOn
<1>1. handler[h] # Idle
  BY WorkingHandler DEF TellsInv, FailRequest
<1>2. QED BY <1>1, QuietMoves DEF FailRequest, state

LEMMA QueryActiveTells ==
    ASSUME TellsInv, NEW h \in Handlers, QueryActive(h) PROVE TellsOn
<1>1. handler[h] \in Processing /\ handler[h] # Idle
  BY WorkingHandler DEF TellsInv, QueryActive
<1>2. PICK m0, s0 : m0 = Monitor(h) /\ s0 = Current(h).sub
  OBVIOUS
<1>3. m0 \in Monitors /\ s0 \in Subs
  BY <1>1, <1>2, CurrentStatus DEF TellsInv, Status
<1> DEFINE found == GetActiveOutagesCreatedBy(s0, m0)
           w     == [handler[h] EXCEPT !.pc = "decide", !.found = found]
<1>4. /\ Become(h, w) /\ UNCHANGED outages
      /\ told' = [told EXCEPT ![m0] = [told[m0] EXCEPT ![s0] = "pending"]]
  BY <1>2 DEF QueryActive, state
<1>5. DOMAIN found = ActiveBy(s0, m0)
  BY ReportQuery DEF TellsInv
<1> HIDE DEF found
<1>6. /\ w.found = found /\ w.pc = "decide" /\ w.monitor = m0
      /\ w.report[w.n] = Current(h)
  BY <1>1, <1>2 DEF Processing, Monitor, Current
<1> HIDE DEF w
<1>7. ActiveBy(s0, m0)' = ActiveBy(s0, m0)
  BY <1>4, SameRows
<1>8. /\ told'[m0][s0] = "pending"
      /\ \A m \in Monitors, s \in Subs : (m = m0 /\ s = s0) \/ told'[m][s] = told[m][s]
  BY <1>3, <1>4, ToldIsTyped DEF TellsInv
<1>9. \A m \in Monitors, s \in Subs : (m = m0 /\ s = s0) \/ PairStays(m, s)
  BY <1>4, <1>8, SameRows DEF PairStays
<1>10. PairHolds(told'[m0][s0], ActiveBy(s0, m0)')
  BY <1>8 DEF PairHolds
<1>11. w.report[w.n].sub = s0
  BY <1>2, <1>6
<1>12. WorkTells(w, told'[m0][w.report[w.n].sub], ActiveBy(s0, m0)')
  BY <1>5, <1>6, <1>7, <1>8, <1>11 DEF WorkTells
<1>13. QED BY <1>1, <1>2, <1>4, <1>6, <1>9, <1>10, <1>11, <1>12, HandlerTells DEF TellsOn

\* A status is done: what it said, if nobody has interfered, is what the table holds.
LEMMA SaysTells ==
    ASSUME TellsInv, NEW h \in Handlers, handler[h] # Idle,
           handler[h].pc \in {"decide", "resolve", "create"},
           UNCHANGED outages, NEW what, Advance(h), Tell(h, what),
           told[Monitor(h)][Current(h).sub] = "pending" =>
               PairHolds(what, ActiveBy(Current(h).sub, Monitor(h)))
    PROVE  TellsOn
<1>1. PICK m0, s0 : m0 = Monitor(h) /\ s0 = Current(h).sub
  OBVIOUS
<1>2. ActiveBy(s0, m0)' = ActiveBy(s0, m0)
  BY SameRows
<1>3. told[m0][s0] \in {"pending", "nothing"}
  BY <1>1 DEF TellsInv, FoundTells, WorkTells
<1>4. /\ told[m0][s0] = "pending" => told'[m0][s0] = what
      /\ told[m0][s0] # "pending" => told'[m0][s0] = told[m0][s0]
      /\ \A m \in Monitors, s \in Subs : (m = m0 /\ s = s0) \/ told'[m][s] = told[m][s]
  BY <1>1, TellPair DEF TellsInv
<1>5. \A m \in Monitors, s \in Subs : (m = m0 /\ s = s0) \/ PairStays(m, s)
  BY <1>4, SameRows DEF PairStays
<1>6. PairHolds(told'[m0][s0], ActiveBy(s0, m0)')
  BY <1>1, <1>2, <1>3, <1>4 DEF PairHolds
<1>7. QED BY <1>1, <1>5, <1>6, AdvanceTells

\* The request goes on to act on what it found.
LEMMA GotoTells ==
    ASSUME TellsInv, NEW h \in Handlers, handler[h] # Idle, handler[h].pc = "decide",
           UNCHANGED <<outages, told>>, NEW pc \in {"resolve", "create"}, Goto(h, pc)
    PROVE  TellsOn
<1>1. handler[h] \in Processing
  BY WorkingHandler DEF TellsInv
<1>2. PICK m0, s0 : m0 = Monitor(h) /\ s0 = Current(h).sub
  OBVIOUS
<1>3. m0 \in Monitors /\ s0 \in Subs
  BY <1>1, <1>2, CurrentStatus DEF TellsInv, Status
<1> DEFINE w == [handler[h] EXCEPT !.pc = pc]
<1>4. Become(h, w)
  BY DEF Goto
<1>5. /\ w.pc = pc /\ w.found = handler[h].found /\ w.monitor = m0
      /\ w.report[w.n] = Current(h)
  BY <1>1, <1>2 DEF Processing, Monitor, Current
<1> HIDE DEF w
<1>6. WorkTells(handler[h], told[m0][s0], ActiveBy(s0, m0))
  BY <1>2 DEF TellsInv, FoundTells
<1>7. \A m \in Monitors, s \in Subs : PairStays(m, s)
  BY SameRows DEF PairStays
<1>8. told'[m0][s0] = told[m0][s0] /\ ActiveBy(s0, m0)' = ActiveBy(s0, m0)
  BY <1>3, <1>7 DEF PairStays
<1>9. PairHolds(told'[m0][s0], ActiveBy(s0, m0)')
  BY <1>3, <1>8 DEF TellsInv, ReportedStateHolds, PairHolds
<1>10. w.report[w.n].sub = s0
  BY <1>2, <1>5
<1>11. WorkTells(w, told'[m0][w.report[w.n].sub], ActiveBy(s0, m0)')
  BY <1>5, <1>6, <1>8, <1>10 DEF WorkTells
<1>12. QED BY <1>2, <1>4, <1>5, <1>7, <1>9, <1>10, <1>11, HandlerTells DEF TellsOn

LEMMA DecideHealthyTells ==
    ASSUME TellsInv, NEW h \in Handlers, DecideHealthy(h) PROVE TellsOn
<1>1. handler[h] # Idle /\ handler[h].pc = "decide" /\ UNCHANGED outages
  BY WorkingHandler DEF TellsInv, DecideHealthy, state
<1>2. told[Monitor(h)][Current(h).sub] = "pending" =>
          DOMAIN handler[h].found = ActiveBy(Current(h).sub, Monitor(h))
  BY <1>1 DEF TellsInv, FoundTells, WorkTells
<1>3. \/ DOMAIN handler[h].found = {} /\ Advance(h) /\ Tell(h, "healthy")
      \/ Advance(h) /\ Tell(h, "nothing")
      \/ Goto(h, "resolve") /\ UNCHANGED told
  BY DEF DecideHealthy
<1>4. CASE DOMAIN handler[h].found = {} /\ Advance(h) /\ Tell(h, "healthy")
  BY <1>1, <1>2, <1>4, SaysTells DEF PairHolds
<1>5. CASE Advance(h) /\ Tell(h, "nothing")
  BY <1>1, <1>5, SaysTells DEF PairHolds
<1>6. CASE Goto(h, "resolve") /\ UNCHANGED told
  BY <1>1, <1>6, GotoTells
<1>7. QED BY <1>3, <1>4, <1>5, <1>6

LEMMA DecideUnhealthyTells ==
    ASSUME TellsInv, NEW h \in Handlers, DecideUnhealthy(h) PROVE TellsOn
<1>1. handler[h] # Idle /\ handler[h].pc = "decide" /\ UNCHANGED outages
  BY WorkingHandler DEF TellsInv, DecideUnhealthy, state
<1>2. told[Monitor(h)][Current(h).sub] = "pending" =>
          DOMAIN handler[h].found = ActiveBy(Current(h).sub, Monitor(h))
  BY <1>1 DEF TellsInv, FoundTells, WorkTells
<1>3. \/ DOMAIN handler[h].found # {} /\ Advance(h) /\ Tell(h, "unhealthy")
      \/ Advance(h) /\ Tell(h, "nothing")
      \/ Goto(h, "create") /\ UNCHANGED told
  BY DEF DecideUnhealthy
<1>4. CASE DOMAIN handler[h].found # {} /\ Advance(h) /\ Tell(h, "unhealthy")
  BY <1>1, <1>2, <1>4, SaysTells DEF PairHolds
<1>5. CASE Advance(h) /\ Tell(h, "nothing")
  BY <1>1, <1>5, SaysTells DEF PairHolds
<1>6. CASE Goto(h, "create") /\ UNCHANGED told
  BY <1>1, <1>6, GotoTells
<1>7. QED BY <1>3, <1>4, <1>5, <1>6

LEMMA ResolvedAllTells ==
    ASSUME TellsInv, NEW h \in Handlers, ResolvedAll(h) PROVE TellsOn
<1>1. /\ handler[h] # Idle /\ handler[h].pc = "resolve" /\ DOMAIN handler[h].found = {}
      /\ UNCHANGED outages /\ Advance(h) /\ Tell(h, "healthy")
  BY WorkingHandler DEF TellsInv, ResolvedAll, state
<1>2. told[Monitor(h)][Current(h).sub] = "pending" =>
          ActiveBy(Current(h).sub, Monitor(h)) \subseteq {}
  BY <1>1 DEF TellsInv, FoundTells, WorkTells
<1>3. QED BY <1>1, <1>2, SaysTells DEF PairHolds

\* One found outage less: it is ended, or the request no longer says anything.
LEMMA ResolveOneTells ==
    ASSUME TellsInv, NEW h \in Handlers, ResolveOne(h) PROVE TellsOn
<1> DEFINE found == handler[h].found
           S     == DOMAIN found
<1>1. /\ handler[h] \in Processing /\ handler[h] # Idle /\ handler[h].pc = "resolve"
      /\ SoundWork(handler[h], outages)
  BY WorkingHandler DEF TellsInv, ResolveOne
<1>2. PICK m0, s0 : m0 = Monitor(h) /\ s0 = Current(h).sub
  OBVIOUS
<1>3. m0 \in Monitors /\ s0 \in Subs
  BY <1>1, <1>2, CurrentStatus DEF TellsInv, Status
<1>4. S \subseteq Slots /\ found \in [S -> Outage]
  BY <1>1, PartialRow DEF Processing
<1>5. PICK k \in S :
        /\ \/ UpdateOutage(k, Ended(found[k])) /\ UNCHANGED told
           \/ UNCHANGED outages /\ told' = [told EXCEPT ![m0][s0] = "nothing"]
        /\ Become(h, [handler[h] EXCEPT !.found = [j \in S \ {k} |-> found[j]]])
  BY <1>2 DEF ResolveOne
<1>6. /\ k \in Slots /\ found[k] \in Outage /\ Tracks(outages, k, found[k])
      /\ found[k].by = m0 /\ found[k].sub = s0
  BY <1>1, <1>2, <1>4 DEF SoundWork, Monitor, Current
<1> DEFINE w == [handler[h] EXCEPT !.found = [j \in S \ {k} |-> found[j]]]
<1>7. /\ DOMAIN w.found = S \ {k} /\ w.pc = "resolve" /\ w.monitor = m0
      /\ w.report[w.n] = Current(h)
  BY <1>1, <1>2 DEF Processing, Monitor, Current
<1>8. Become(h, w)
  BY <1>5
<1> HIDE DEF w
<1>9. w.report[w.n].sub = s0
  BY <1>2, <1>7
<1>10. WorkTells(handler[h], told[m0][s0], ActiveBy(s0, m0))
  BY <1>1, <1>2 DEF TellsInv, FoundTells
<1>11. CASE UpdateOutage(k, Ended(found[k])) /\ UNCHANGED told
  <2>1. ASSUME NEW m, NEW s
       PROVE  /\ ActiveBy(s, m)' = ActiveBy(s, m) \ {k}
              /\ k \in ActiveBy(s, m) => m = m0 /\ s = s0
    BY <1>6, <1>11, EndingRows DEF TellsInv
  <2>2. \A m \in Monitors, s \in Subs : (m = m0 /\ s = s0) \/ PairStays(m, s)
    BY <1>11, <2>1 DEF PairStays
  <2>3. told'[m0][s0] \in {"pending", "nothing"}
    BY <1>1, <1>10, <1>11 DEF WorkTells
  <2>4. PairHolds(told'[m0][s0], ActiveBy(s0, m0)')
    BY <2>3 DEF PairHolds
  <2>5. WorkTells(w, told'[m0][w.report[w.n].sub], ActiveBy(s0, m0)')
    BY <1>1, <1>7, <1>9, <1>10, <1>11, <2>1 DEF WorkTells
  <2>6. QED BY <1>1, <1>2, <1>7, <1>8, <1>9, <2>2, <2>4, <2>5, HandlerTells DEF TellsOn
<1>12. CASE UNCHANGED outages /\ told' = [told EXCEPT ![m0][s0] = "nothing"]
  <2>1. /\ told'[m0][s0] = "nothing"
        /\ \A m \in Monitors, s \in Subs : (m = m0 /\ s = s0) \/ told'[m][s] = told[m][s]
    <3>1. told' = [told EXCEPT ![m0] = [told[m0] EXCEPT ![s0] = "nothing"]]
      BY <1>12
    <3>2. QED BY <1>3, <3>1, ToldIsTyped DEF TellsInv
  <2>2. \A m \in Monitors, s \in Subs : (m = m0 /\ s = s0) \/ PairStays(m, s)
    BY <1>12, <2>1, SameRows DEF PairStays
  <2>3. PairHolds(told'[m0][s0], ActiveBy(s0, m0)')
    BY <2>1 DEF PairHolds
  <2>4. WorkTells(w, told'[m0][w.report[w.n].sub], ActiveBy(s0, m0)')
    BY <1>9, <2>1 DEF WorkTells
  <2>5. QED BY <1>1, <1>2, <1>7, <1>8, <1>9, <2>2, <2>3, <2>4, HandlerTells DEF TellsOn
<1>13. QED BY <1>5, <1>11, <1>12

LEMMA CreateReportedTells ==
    ASSUME TellsInv, NEW h \in Handlers, CreateReported(h, FreeSlots) PROVE TellsOn
<1>1. /\ handler[h] # Idle /\ handler[h].pc = "create" /\ Advance(h)
      /\ TypeInv
  BY WorkingHandler DEF TellsInv, CreateReported
<1>2. CASE UNCHANGED outages /\ Tell(h, "nothing")
  BY <1>1, <1>2, SaysTells DEF PairHolds
<1>3. CASE CreateOutage(FreeSlots, ReportedOutage(h)) /\ Tell(h, "unhealthy")
  <2>1. PICK m0, s0 : m0 = Monitor(h) /\ s0 = Current(h).sub
    OBVIOUS
  <2>2. PICK o : o = ReportedOutage(h)
    OBVIOUS
  <2>3. o \in Outage /\ Origin(o) /\ ~o.ended /\ o.by = m0 /\ o.sub = s0
    BY <1>1, <2>1, <2>2, ReportedOutageType DEF ReportedOutage
  <2>4. PICK k \in Slots : \A m, s :
          /\ m = o.by /\ s = o.sub => ActiveBy(s, m)' = ActiveBy(s, m) \cup {k}
          /\ m # o.by \/ s # o.sub => ActiveBy(s, m)' = ActiveBy(s, m)
    BY <1>1, <1>3, <2>2, <2>3, CreatingRows
  <2>5. /\ told[m0][s0] = "pending" => told'[m0][s0] = "unhealthy"
        /\ told[m0][s0] # "pending" => told'[m0][s0] = told[m0][s0]
        /\ \A m \in Monitors, s \in Subs : (m = m0 /\ s = s0) \/ told'[m][s] = told[m][s]
    BY <1>1, <1>3, <2>1, TellPair
  <2>6. told[m0][s0] \in {"pending", "nothing"}
    BY <1>1, <2>1 DEF TellsInv, FoundTells, WorkTells
  <2>7. \A m \in Monitors, s \in Subs : (m = m0 /\ s = s0) \/ PairStays(m, s)
    BY <2>3, <2>4, <2>5 DEF PairStays
  <2>8. PairHolds(told'[m0][s0], ActiveBy(s0, m0)')
    BY <2>3, <2>4, <2>5, <2>6 DEF PairHolds
  <2>9. QED BY <1>1, <2>1, <2>7, <2>8, AdvanceTells
<1>4. QED BY <1>2, <1>3 DEF CreateReported

LEMMA ReportTells == ASSUME TellsInv, ~Overlap, ReportAction PROVE TellsOn
<1>1. PICK h \in Handlers :
        \/ \E m \in Monitors, r \in Reports : ReceiveReport(h, m, r)
        \/ HandlerStep(h, FreeSlots)
        \/ FailRequest(h)
  BY DEF ReportAction
<1>2. QED
  BY <1>1, ReceiveReportTells, ValidateRequestTells, LookupAndPingTells, QueryActiveTells,
     DecideHealthyTells, DecideUnhealthyTells, ResolveOneTells, ResolvedAllTells,
     CreateReportedTells, FailRequestTells DEF HandlerStep

\* The checker's outages are no monitor's.
LEMMA CheckerTells == ASSUME TellsInv, CheckerAction PROVE TellsOn
<1>t. TypeInv /\ UNCHANGED <<handler, told>>
  BY DEF TellsInv, CheckerAction, reportVars
<1>1. ASSUME NEW m \in Monitors, NEW s \in Subs PROVE ActiveBy(s, m)' = ActiveBy(s, m)
  <2>1. CASE UNCHANGED outages
    BY <2>1, SameRows
  <2>2. CASE CreateAbsent(FreeSlots) /\ ~UNCHANGED outages
    <3>1. CreateOutage(FreeSlots, AbsentOutage) /\ checker.pc = "create"
      BY <2>2 DEF CreateAbsent
    <3>2. PICK o : o = AbsentOutage
      OBVIOUS
    <3>3. o \in Outage /\ Origin(o) /\ ~o.ended /\ o.by = AbsentReportCreator
      BY <1>t, <3>1, <3>2, AbsentOutageType DEF AbsentOutage
    <3>4. m # o.by
      BY <3>3, NameAssumption DEF NameAssumption
    <3>5. QED BY <1>t, <3>1, <3>2, <3>3, <3>4, CreatingRows
  <2>3. CASE ResolveAbsent /\ ~UNCHANGED outages
    <3>1. checker \in Checking /\ SoundPass(checker, outages)
      BY <1>t, <2>3, WorkingChecker DEF ResolveAbsent
    <3>2. DOMAIN checker.found \subseteq Slots /\ checker.found \in [DOMAIN checker.found -> Outage]
      BY <3>1, CheckerRow DEF Checking
    <3>3. PICK k \in DOMAIN checker.found : UpdateOutage(k, Ended(checker.found[k]))
      BY <2>3 DEF ResolveAbsent
    <3>4. PICK c : c = checker.found[k]
      OBVIOUS
    <3>5. k \in Slots /\ c \in Outage /\ Tracks(outages, k, c) /\ c.source = AbsentReportSource
      BY <3>1, <3>2, <3>4 DEF SoundPass
    <3>6. k \notin ActiveBy(s, m)
      <4>1. ASSUME k \in ActiveBy(s, m) PROVE FALSE
        <5>1. outages[k] # NoOutage /\ outages[k].by \in Monitors
          BY <4>1 DEF ActiveBy, ActiveRow
        <5>2. outages[k].source = AbsentReportSource
          BY <3>5, <5>1 DEF Tracks, SameOrigin
        <5>3. Origin(outages[k])
          BY <1>t, <3>5, <5>1 DEF TypeInv, RowsSound
        <5>4. QED BY <5>1, <5>2, <5>3, NameAssumption
                DEF NameAssumption, Origin, ComponentMonitor, AbsentReportSource
      <4>2. QED BY <4>1
    <3>7. QED BY <1>t, <3>3, <3>4, <3>5, <3>6, EndingRows
  <2>4. QED BY <2>1, <2>2, <2>3
         DEF CheckerAction, CheckerStep, StartPass, EndPass, GetLastPingTime, Judge, SkipSub, state
<1>2. \A m \in Monitors, s \in Subs : PairStays(m, s)
  BY <1>t, <1>1 DEF PairStays
<1>3. QED BY <1>t, <1>2, OthersTell DEF TellsOn

\* People's changes are forgotten about, and touch the sub-component only that they forget.
LEMMA ForgetTells ==
    ASSUME TellsInv, UNCHANGED handler, NEW k \in Slots, NEW s0, Forget(s0),
           \A j \in Slots \ {k} : outages'[j] = outages[j],
           \/ outages'[k] = outages[k]
           \/ /\ outages[k].sub = s0
              /\ outages'[k] # NoOutage => outages'[k].sub = s0
    PROVE  TellsOn
<1>1. ASSUME NEW m \in Monitors, NEW s \in Subs PROVE PairStays(m, s) \/ told'[m][s] = "nothing"
  <2>1. told \in [Monitors -> [Subs -> Told]]
    BY ToldIsTyped DEF TellsInv
  <2>2. told'[m] = [told[m] EXCEPT ![s0] = "nothing"]
    BY DEF Forget
  <2>3. CASE s = s0
    BY <2>1, <2>2, <2>3
  <2>4. CASE s # s0
    <3>1. told'[m][s] = told[m][s]
      BY <2>1, <2>2, <2>4
    <3>2. ActiveBy(s, m)' = {i \in Slots : ActiveRow(i)' /\ outages'[i].sub = s /\ outages'[i].by = m}
      BY DEF ActiveBy
    <3>3. ActiveBy(s, m)' = ActiveBy(s, m)
      BY <2>4, <3>2 DEF ActiveBy, ActiveRow
    <3>4. QED BY <3>1, <3>3 DEF PairStays
  <2>5. QED BY <2>3, <2>4
<1>2. QED BY <1>1, OthersTell DEF TellsOn

LEMMA UserTells == ASSUME TellsInv, UserAction PROVE TellsOn
<1>t. TypeInv
  BY DEF TellsInv
<1>r. outages \in [Slots -> Outage \cup {NoOutage}]
  BY <1>t DEF TypeInv, TypeOK, StateTypeOK
<1>1. ASSUME NEW s0 \in Subs, UserCreates(s0) PROVE TellsOn
  <2>1. UNCHANGED <<handler, told>>
    BY <1>1 DEF UserCreates, reportVars
  <2>2. PICK confirmed \in BOOLEAN, source \in {Frontend, ComponentMonitor, AbsentReportSource} :
          CreateOutage(FreeSlots,
             [sub |-> s0, by |-> EndUser, source |-> source, ended |-> FALSE,
              confirmed |-> confirmed \/ ~config[s0].requiresConfirmation])
    BY <1>1 DEF UserCreates
  <2> DEFINE o == [sub |-> s0, by |-> EndUser, source |-> source, ended |-> FALSE,
                   confirmed |-> confirmed \/ ~config[s0].requiresConfirmation]
  <2>3. config[s0] \in SubConfig
    BY <1>t, <1>1 DEF UserCreates, Configured, TypeInv, TypeOK, StateTypeOK
  <2>4. (confirmed \/ ~config[s0].requiresConfirmation) \in BOOLEAN
    BY <2>3 DEF SubConfig
  <2>5. o \in Outage /\ Origin(o) /\ ~o.ended /\ o.by = EndUser
    BY <2>4 DEF Outage, Origin
  <2>6. CreateOutage(FreeSlots, o)
    BY <2>2
  <2> HIDE DEF o
  <2>7. \A m \in Monitors, s \in Subs : PairStays(m, s)
    <3>1. ASSUME NEW m \in Monitors, NEW s \in Subs PROVE ActiveBy(s, m)' = ActiveBy(s, m)
      <4>1. m # o.by
        BY <2>5, NameAssumption DEF NameAssumption
      <4>2. QED BY <1>t, <2>5, <2>6, <4>1, CreatingRows
    <3>2. QED BY <2>1, <3>1 DEF PairStays
  <2>8. QED BY <2>1, <2>7, OthersTell DEF TellsOn
<1>2. ASSUME NEW e \in Editors, NEW i \in Slots, NEW edit \in Edits, UserLoads(e, i, edit)
     PROVE  TellsOn
  <2>1. UNCHANGED <<outages, handler, told>>
    BY <1>2 DEF UserLoads, state, reportVars
  <2>2. \A m \in Monitors, s \in Subs : PairStays(m, s)
    BY <2>1, SameRows DEF PairStays
  <2>3. QED BY <2>1, <2>2, OthersTell DEF TellsOn
<1>3. ASSUME NEW e \in Editors, UserSaves(e) PROVE TellsOn
  <2>1. editor[e] \in Editing /\ Tracks(outages, editor[e].slot, editor[e].copy)
    BY <1>t, <1>3 DEF UserSaves, TypeInv, TypeOK, EditorsSound
  <2>2. PICK k, c : k = editor[e].slot /\ c = editor[e].copy
    OBVIOUS
  <2>3. k \in Slots /\ c \in Outage /\ Tracks(outages, k, c)
    BY <2>1, <2>2 DEF Editing
  <2>4. UpdateOutage(k, c) /\ Forget(c.sub) /\ UNCHANGED handler
    BY <1>3, <2>2 DEF UserSaves
  <2>5. CASE outages[k] = NoOutage
    <3>1. outages' = outages
      BY <2>4, <2>5 DEF UpdateOutage
    <3>2. QED BY <2>3, <2>4, <3>1, ForgetTells
  <2>6. CASE outages[k] # NoOutage
    <3>1. outages' = [outages EXCEPT ![k] = c] /\ outages[k].sub = c.sub
      BY <2>3, <2>4, <2>6 DEF UpdateOutage, Tracks, SameOrigin
    <3>2. outages'[k] = c /\ \A j \in Slots \ {k} : outages'[j] = outages[j]
      BY <1>r, <2>3, <3>1
    <3>3. QED BY <2>3, <2>4, <3>1, <3>2, ForgetTells
  <2>7. QED BY <2>5, <2>6
<1>4. ASSUME NEW k \in Slots, UserDeletes(k) PROVE TellsOn
  <2>1. /\ outages'[k] = NoOutage /\ \A j \in Slots \ {k} : outages'[j] = outages[j]
        /\ Forget(outages[k].sub) /\ UNCHANGED handler
    BY <1>r, <1>4 DEF UserDeletes
  <2>2. QED BY <2>1, ForgetTells
<1>5. QED BY <1>1, <1>2, <1>3, <1>4 DEF UserAction

LEMMA TellsStep == ASSUME ~Overlap PROVE TellsInv /\ [Next]_vars => TellsInv'
<1> SUFFICES ASSUME TellsInv, [Next]_vars PROVE TellsInv'
  OBVIOUS
<1>1. TypeInv'
  BY TypeStep DEF TellsInv
<1>2. TellsOn
  <2>1. CASE ReloadConfig \/ Tick \/ UNCHANGED vars
    <3>1. UNCHANGED <<outages, handler, told>>
      BY <2>1 DEF ReloadConfig, Tick, vars, reportVars
    <3>2. \A m \in Monitors, s \in Subs : PairStays(m, s)
      BY <3>1, SameRows DEF PairStays
    <3>3. QED BY <3>1, <3>2, OthersTell DEF TellsOn
  <2>2. CASE Restart
    <3>1. \A h \in Handlers : handler'[h] = Idle
      BY <2>2 DEF Restart
    <3>2. \A m \in Monitors, s \in Subs : told'[m][s] = "nothing"
      BY <2>2 DEF Restart
    <3>3. QED BY <3>1, <3>2 DEF TellsOn, OneRequestEach, FoundTells, ReportedStateHolds
  <2>3. CASE ReportAction
    BY <2>3, ReportTells
  <2>4. CASE CheckerAction
    BY <2>4, CheckerTells
  <2>5. CASE UserAction
    BY <2>5, UserTells
  <2>6. QED BY <2>1, <2>2, <2>3, <2>4, <2>5 DEF Next
<1>3. QED BY <1>1, <1>2 DEF TellsOn, TellsInv

LEMMA TellsInit == Init => TellsInv
<1> SUFFICES ASSUME Init PROVE TellsInv
  OBVIOUS
<1>1. \A h \in Handlers : handler[h] = Idle
  BY DEF Init, ReportInit
<1>2. \A m \in Monitors, s \in Subs : told[m][s] = "nothing"
  BY DEF Init, ReportInit
<1>3. QED BY <1>1, <1>2, TypeInit DEF TellsInv, OneRequestEach, FoundTells, ReportedStateHolds

\* When a monitor's reports are processed one at a time, the table agrees with what the last
\* one said of a sub-component, for any number of monitors, whatever statements fail and
\* whatever people, reloads and restarts do, until a person changes an outage there.
THEOREM ReportsAreKept == ASSUME ~Overlap PROVE Spec => []ReportedStateHolds
<1>1. TellsInv => ReportedStateHolds
  BY DEF TellsInv
<1>2. TellsInv /\ [Next]_vars => TellsInv'
  BY TellsStep
<1>3. QED BY <1>1, <1>2, TellsInit, PTL DEF Spec

--------------------------------------------------------------------------------
(***************************************************************************)
(* One active outage per source, where besides nobody edits outages.        *)
(***************************************************************************)
Sources == Monitors \cup {AbsentReportCreator}

\* Whoever is about to create an outage has seen that there is none.
FoundNone ==
    /\ \A h \in Handlers :
         (handler[h] # Idle /\ (\/ handler[h].pc = "create"
                                \/ handler[h].pc = "decide" /\ DOMAIN handler[h].found = {}))
             => ActiveBy(Current(h).sub, Monitor(h)) = {}
    /\ checker.pc = "create" => ActiveBy(checker.sub, AbsentReportCreator) = {}

OneRowEach == \A s \in Subs, by \in Sources : \A i, j \in ActiveBy(s, by) : i = j

\* People who are at work end the outage they hold.
EditsAreEnds == \A e \in Editors : editor[e] # Idle => editor[e].copy.ended

SourceInv == TellsInv /\ FoundNone /\ OneRowEach /\ EditsAreEnds

\* No source gets another active outage.
RowsShrink == \A s \in Subs, by \in Sources : ActiveBy(s, by)' \subseteq ActiveBy(s, by)

\* How a request comes to the point where it relies on having found nothing.
LEMMA AdvanceTo ==
    ASSUME TypeInv, NEW h \in Handlers, handler[h] # Idle, Advance(h), handler'[h] # Idle
    PROVE  handler'[h].pc = "lookup"
<1>1. handler[h] \in Processing /\ handler \in [Handlers -> Processing \cup {Idle}]
  BY WorkingHandler DEF TypeInv, TypeOK, ReportTypeOK
<1> DEFINE w == [handler[h] EXCEPT !.pc = "lookup", !.n = handler[h].n + 1,
                                   !.cfg = NotConfigured, !.found = <<>>]
<1>2. w.pc = "lookup"
  BY <1>1 DEF Processing
<1>3. Become(h, Idle) \/ Become(h, w)
  BY DEF Advance
<1> HIDE DEF w
<1>4. QED BY <1>1, <1>2, <1>3 DEF Become

LEMMA HandlerMovesAlone ==
    ASSUME TypeInv, NEW g \in Handlers,
           \/ \E m \in Monitors, r \in Reports : ReceiveReport(g, m, r)
           \/ HandlerStep(g, FreeSlots)
           \/ FailRequest(g)
    PROVE  \A h \in Handlers \ {g} : handler'[h] = handler[h]
<1>1. \E w : Become(g, w)
  <2>1. Advance(g) => \E w : Become(g, w)
    BY DEF Advance
  <2>2. \A pc : Goto(g, pc) => \E w : Become(g, w)
    BY DEF Goto
  <2>3. QED BY <2>1, <2>2
         DEF ReceiveReport, HandlerStep, ValidateRequest, LookupAndPing, QueryActive,
             DecideHealthy, DecideUnhealthy, ResolveOne, ResolvedAll, CreateReported, FailRequest
<1>2. QED BY <1>1 DEF Become, TypeInv, TypeOK, ReportTypeOK

CreateFromNothing(h) ==
    DecideUnhealthy(h) /\ Goto(h, "create") /\ DOMAIN handler[h].found = {}

LEMMA HandlerArrives ==
    ASSUME TypeInv, [Next]_vars, NEW h \in Handlers, handler'[h] # Idle,
           handler'[h].pc \in {"decide", "create"}
    PROVE  handler'[h] = handler[h] \/ QueryActive(h) \/ CreateFromNothing(h)
<1>1. CASE ~ReportAction
  BY <1>1 DEF Next, CheckerAction, UserAction, UserCreates, UserLoads, UserSaves, UserDeletes,
              ReloadConfig, Tick, Restart, reportVars, vars
<1>2. CASE ReportAction
  <2>1. PICK g \in Handlers :
          \/ \E m \in Monitors, r \in Reports : ReceiveReport(g, m, r)
          \/ HandlerStep(g, FreeSlots)
          \/ FailRequest(g)
    BY <1>2 DEF ReportAction
  <2>2. CASE g # h
    BY <2>1, <2>2, HandlerMovesAlone
  <2>3. CASE g = h
    <3>t. handler \in [Handlers -> Processing \cup {Idle}]
      BY DEF TypeInv, TypeOK, ReportTypeOK
    <3>m. \A w : Become(h, w) => handler'[h] = w
      BY <3>t DEF Become
    <3>1. ASSUME NEW m \in Monitors, NEW r \in Reports, ReceiveReport(h, m, r) PROVE FALSE
      BY <3>1, <3>m DEF ReceiveReport
    <3>2. ASSUME ValidateRequest(h) PROVE FALSE
      <4>1. handler[h] \in Processing /\ handler[h].pc = "validate"
        BY <3>2, WorkingHandler DEF ValidateRequest
      <4>2. PICK w \in {Idle, [handler[h] EXCEPT !.n = handler[h].n + 1],
                       [handler[h] EXCEPT !.pc = "lookup", !.n = 1]} : Become(h, w)
        BY <3>2 DEF ValidateRequest
      <4>3. w # Idle => w.pc \in {"validate", "lookup"}
        BY <4>1, <4>2 DEF Processing
      <4>4. QED BY <3>m, <4>2, <4>3
    <3>3. ASSUME LookupAndPing(h) PROVE FALSE
      <4>1. handler[h] \in Processing
        BY <3>3, WorkingHandler DEF LookupAndPing
      <4>2. PICK w \in {Idle, [handler[h] EXCEPT !.pc = "query", !.cfg = config[Current(h).sub]]} :
              Become(h, w)
        BY <3>3 DEF LookupAndPing
      <4>3. w # Idle => w.pc = "query"
        BY <4>1, <4>2 DEF Processing
      <4>4. QED BY <3>m, <4>2, <4>3
    <3>4. ASSUME handler[h] # Idle, Advance(h) PROVE FALSE
      BY <3>4, AdvanceTo
    <3>5. ASSUME handler[h] # Idle, NEW pc, Goto(h, pc) PROVE handler'[h].pc = pc
      <4>1. handler[h] \in Processing
        BY <3>5, WorkingHandler
      <4>2. [handler[h] EXCEPT !.pc = pc].pc = pc
        BY <4>1 DEF Processing
      <4>3. QED BY <3>5, <3>m, <4>2 DEF Goto
    <3>6. ASSUME DecideHealthy(h) PROVE FALSE
      <4>1. handler[h] # Idle
        BY <3>6, WorkingHandler DEF DecideHealthy
      <4>2. QED BY <3>4, <3>5, <3>6, <4>1 DEF DecideHealthy
    <3>7. ASSUME DecideUnhealthy(h) PROVE CreateFromNothing(h)
      <4>1. handler[h] # Idle
        BY <3>7, WorkingHandler DEF DecideUnhealthy
      <4>2. QED BY <3>4, <3>7, <4>1 DEF DecideUnhealthy, CreateFromNothing
    <3>8. ASSUME ResolveOne(h) PROVE FALSE
      <4>1. handler[h] \in Processing /\ handler[h].pc = "resolve"
        BY <3>8, WorkingHandler DEF ResolveOne
      <4>2. PICK rest : Become(h, [handler[h] EXCEPT !.found = rest])
        BY <3>8 DEF ResolveOne
      <4>3. [handler[h] EXCEPT !.found = rest].pc = "resolve"
        BY <4>1 DEF Processing
      <4>4. QED BY <3>m, <4>2, <4>3
    <3>9. ASSUME ResolvedAll(h) \/ CreateReported(h, FreeSlots) PROVE FALSE
      <4>1. handler[h] # Idle /\ Advance(h)
        BY <3>9, WorkingHandler DEF ResolvedAll, CreateReported
      <4>2. QED BY <3>4, <4>1
    <3>10. ASSUME FailRequest(h) PROVE FALSE
      BY <3>10, <3>m DEF FailRequest
    <3>11. QED BY <2>1, <2>3, <3>1, <3>2, <3>3, <3>6, <3>7, <3>8, <3>9, <3>10 DEF HandlerStep
  <2>4. QED BY <2>2, <2>3
<1>3. QED BY <1>1, <1>2

\* A step gives one source a row, or none.
Adds(m0, s0, k) ==
    \A m, s : /\ m = m0 /\ s = s0 => ActiveBy(s, m)' = ActiveBy(s, m) \cup {k}
              /\ m # m0 \/ s # s0 => ActiveBy(s, m)' = ActiveBy(s, m)

ReporterAdds ==
    \E h \in Handlers, k \in Slots :
        /\ handler[h] # Idle /\ handler[h].pc = "create" /\ CreateReported(h, FreeSlots)
        /\ Adds(Monitor(h), Current(h).sub, k)
        /\ UNCHANGED checker

CheckerAdds ==
    \E k \in Slots :
        /\ checker.pc = "create" /\ checker.sub \in Subs /\ CreateAbsent(FreeSlots)
        /\ Adds(AbsentReportCreator, checker.sub, k)
        /\ UNCHANGED handler

LEMMA KeptRowsShrink == ASSUME UNCHANGED outages PROVE RowsShrink
  BY SameRows DEF RowsShrink

LEMMA EndingShrinks ==
    ASSUME TypeInv, NEW k \in Slots, NEW c \in Outage, Tracks(outages, k, c),
           UpdateOutage(k, Ended(c))
    PROVE  RowsShrink
  BY EndingRows DEF RowsShrink

LEMMA WhoAdds ==
    ASSUME TypeInv, EditsAreEnds, [Next]_vars
    PROVE  RowsShrink \/ ReporterAdds \/ CheckerAdds
<1>1. CASE UNCHANGED outages
  BY <1>1, KeptRowsShrink
<1>2. CASE ReportAction /\ ~UNCHANGED outages
  <2>1. PICK h \in Handlers : ResolveOne(h) \/ CreateReported(h, FreeSlots)
    BY <1>2 DEF ReportAction, ReceiveReport, HandlerStep, ValidateRequest, LookupAndPing,
                QueryActive, DecideHealthy, DecideUnhealthy, ResolvedAll, FailRequest, state
  <2>2. CASE ResolveOne(h)
    <3>1. handler[h] \in Processing /\ SoundWork(handler[h], outages)
      BY <2>2, WorkingHandler DEF ResolveOne
    <3>2. /\ DOMAIN handler[h].found \subseteq Slots
          /\ handler[h].found \in [DOMAIN handler[h].found -> Outage]
      BY <3>1, PartialRow DEF Processing
    <3>3. PICK k \in DOMAIN handler[h].found : UpdateOutage(k, Ended(handler[h].found[k]))
      BY <1>2, <2>2 DEF ResolveOne
    <3>4. PICK c : c = handler[h].found[k]
      OBVIOUS
    <3>5. k \in Slots /\ c \in Outage /\ Tracks(outages, k, c)
      BY <3>1, <3>2, <3>4 DEF SoundWork
    <3>6. QED BY <3>3, <3>4, <3>5, EndingShrinks
  <2>3. CASE CreateReported(h, FreeSlots)
    <3>1. CreateOutage(FreeSlots, ReportedOutage(h)) /\ handler[h].pc = "create"
      BY <1>2, <2>3 DEF CreateReported
    <3>2. PICK o : o = ReportedOutage(h)
      OBVIOUS
    <3>3. /\ o \in Outage /\ Origin(o) /\ ~o.ended
          /\ o.by = Monitor(h) /\ o.sub = Current(h).sub
      BY <3>1, <3>2, ReportedOutageType DEF ReportedOutage
    <3>4. \E k \in Slots : Adds(Monitor(h), Current(h).sub, k)
      BY <3>1, <3>2, <3>3, CreatingRows DEF Adds
    <3>5. handler[h] # Idle /\ UNCHANGED checker
      BY <1>2, <3>1, WorkingHandler DEF ReportAction
    <3>6. QED BY <2>3, <3>1, <3>4, <3>5 DEF ReporterAdds
  <2>4. QED BY <2>1, <2>2, <2>3
<1>3. CASE CheckerAction /\ ~UNCHANGED outages
  <2>1. CASE ResolveAbsent
    <3>1. checker \in Checking /\ SoundPass(checker, outages)
      BY <2>1, WorkingChecker DEF ResolveAbsent
    <3>2. DOMAIN checker.found \subseteq Slots /\ checker.found \in [DOMAIN checker.found -> Outage]
      BY <3>1, CheckerRow DEF Checking
    <3>3. PICK k \in DOMAIN checker.found : UpdateOutage(k, Ended(checker.found[k]))
      BY <1>3, <2>1 DEF ResolveAbsent
    <3>4. PICK c : c = checker.found[k]
      OBVIOUS
    <3>5. k \in Slots /\ c \in Outage /\ Tracks(outages, k, c)
      BY <3>1, <3>2, <3>4 DEF SoundPass
    <3>6. QED BY <3>3, <3>4, <3>5, EndingShrinks
  <2>2. CASE CreateAbsent(FreeSlots)
    <3>1. CreateOutage(FreeSlots, AbsentOutage) /\ checker.pc = "create"
      BY <1>3, <2>2 DEF CreateAbsent
    <3>2. PICK o : o = AbsentOutage
      OBVIOUS
    <3>3. /\ o \in Outage /\ Origin(o) /\ ~o.ended
          /\ o.by = AbsentReportCreator /\ o.sub = checker.sub
      BY <3>1, <3>2, AbsentOutageType DEF AbsentOutage
    <3>4. \E k \in Slots : Adds(AbsentReportCreator, checker.sub, k)
      BY <3>1, <3>2, <3>3, CreatingRows DEF Adds
    <3>5. checker.sub \in Subs /\ UNCHANGED handler
      BY <1>3, <3>1, WorkingChecker DEF Checking, CheckerAction, reportVars
    <3>6. QED BY <2>2, <3>1, <3>4, <3>5 DEF CheckerAdds
  <2>3. QED BY <1>3, <2>1, <2>2
         DEF CheckerAction, CheckerStep, StartPass, EndPass, GetLastPingTime, Judge, SkipSub, state
<1>4. CASE UserAction /\ ~UNCHANGED outages
  <2>1. ASSUME NEW s0 \in Subs, UserCreates(s0) PROVE RowsShrink
    <3>1. PICK confirmed \in BOOLEAN, source \in {Frontend, ComponentMonitor, AbsentReportSource} :
            CreateOutage(FreeSlots,
               [sub |-> s0, by |-> EndUser, source |-> source, ended |-> FALSE,
                confirmed |-> confirmed \/ ~config[s0].requiresConfirmation])
      BY <2>1 DEF UserCreates
    <3> DEFINE o == [sub |-> s0, by |-> EndUser, source |-> source, ended |-> FALSE,
                     confirmed |-> confirmed \/ ~config[s0].requiresConfirmation]
    <3>2. config[s0] \in SubConfig
      BY <2>1 DEF UserCreates, Configured, TypeInv, TypeOK, StateTypeOK
    <3>3. (confirmed \/ ~config[s0].requiresConfirmation) \in BOOLEAN
      BY <3>2 DEF SubConfig
    <3>4. o \in Outage /\ Origin(o) /\ ~o.ended /\ o.by = EndUser
      BY <3>3 DEF Outage, Origin
    <3>5. CreateOutage(FreeSlots, o)
      BY <3>1
    <3> HIDE DEF o
    <3>6. ASSUME NEW s \in Subs, NEW by \in Sources PROVE ActiveBy(s, by)' = ActiveBy(s, by)
      <4>1. by # o.by
        BY <3>4, NameAssumption DEF NameAssumption, Sources, EndUser, AbsentReportCreator
      <4>2. QED BY <3>4, <3>5, <4>1, CreatingRows
    <3>7. QED BY <3>6 DEF RowsShrink
  <2>2. ASSUME NEW k \in Slots, UserDeletes(k) PROVE RowsShrink
    <3>1. outages'[k] = NoOutage /\ \A j \in Slots \ {k} : outages'[j] = outages[j]
      BY <2>2 DEF UserDeletes, TypeInv, TypeOK, StateTypeOK
    <3>2. ASSUME NEW s, NEW by PROVE ActiveBy(s, by)' \subseteq ActiveBy(s, by)
      <4>1. ActiveBy(s, by)' = {i \in Slots : ActiveRow(i)' /\ outages'[i].sub = s /\ outages'[i].by = by}
        BY DEF ActiveBy
      <4>2. QED BY <3>1, <4>1 DEF ActiveBy, ActiveRow
    <3>3. QED BY <3>2 DEF RowsShrink
  <2>3. ASSUME NEW e \in Editors, NEW i \in Slots, NEW edit \in Edits, UserLoads(e, i, edit)
       PROVE  RowsShrink
    BY <2>3, KeptRowsShrink DEF UserLoads, state
  <2>4. ASSUME NEW e \in Editors, UserSaves(e) PROVE RowsShrink
    <3>1. editor[e] # Idle /\ UpdateOutage(editor[e].slot, editor[e].copy)
      BY <2>4 DEF UserSaves
    <3>2. editor[e] \in Editing /\ Tracks(outages, editor[e].slot, editor[e].copy)
      BY <3>1 DEF TypeInv, TypeOK, EditorsSound
    <3>3. PICK k, c : k = editor[e].slot /\ c = editor[e].copy
      OBVIOUS
    <3>4. k \in Slots /\ c \in Outage /\ c.ended /\ Tracks(outages, k, c)
      BY <3>1, <3>2, <3>3 DEF Editing, EditsAreEnds
    <3>5. c = Ended(c)
      BY <3>4 DEF Ended, Outage
    <3>6. QED BY <3>1, <3>3, <3>4, <3>5, EndingShrinks
  <2>5. QED BY <1>4, <2>1, <2>2, <2>3, <2>4 DEF UserAction
<1>5. QED BY <1>1, <1>2, <1>3, <1>4 DEF Next, ReloadConfig, Tick, Restart, vars, state

\* One row each: whoever adds one had seen none.
LEMMA OneRowStep ==
    ASSUME SourceInv, [Next]_vars PROVE OneRowEach'
<1>t. TypeInv /\ EditsAreEnds
  BY DEF SourceInv, TellsInv
<1>1. CASE RowsShrink
  BY <1>1 DEF RowsShrink, SourceInv, OneRowEach
<1>2. ASSUME NEW m0 \in Sources, NEW s0 \in Subs, NEW k, Adds(m0, s0, k), ActiveBy(s0, m0) = {}
     PROVE  OneRowEach'
  <2>1. ASSUME NEW s \in Subs, NEW by \in Sources, NEW i \in ActiveBy(s, by)', NEW j \in ActiveBy(s, by)'
       PROVE  i = j
    <3>1. CASE by = m0 /\ s = s0
      <4>1. ActiveBy(s, by)' = ActiveBy(s0, m0) \cup {k}
        BY <1>2, <3>1 DEF Adds
      <4>2. QED BY <1>2, <2>1, <4>1
    <3>2. CASE by # m0 \/ s # s0
      <4>1. ActiveBy(s, by)' = ActiveBy(s, by)
        BY <1>2, <3>2 DEF Adds
      <4>2. QED BY <2>1, <4>1 DEF SourceInv, OneRowEach
    <3>3. QED BY <3>1, <3>2
  <2>2. QED BY <2>1 DEF OneRowEach
<1>3. CASE ReporterAdds
  <2>1. PICK h \in Handlers, k \in Slots :
          /\ handler[h] # Idle /\ handler[h].pc = "create"
          /\ Adds(Monitor(h), Current(h).sub, k)
    BY <1>3 DEF ReporterAdds
  <2>2. ActiveBy(Current(h).sub, Monitor(h)) = {}
    BY <2>1 DEF SourceInv, FoundNone
  <2>3. Monitor(h) \in Sources /\ Current(h).sub \in Subs
    BY <1>t, <2>1, CurrentStatus DEF Sources, Status
  <2>4. QED BY <1>2, <2>1, <2>2, <2>3
<1>4. CASE CheckerAdds
  BY <1>2, <1>4 DEF CheckerAdds, SourceInv, FoundNone, Sources
<1>5. QED BY <1>t, <1>1, <1>3, <1>4, WhoAdds

\* Requests that rely on having found nothing.
LEMMA HandlerFoundNone ==
    ASSUME SourceInv, [Next]_vars, NEW h \in Handlers, handler'[h] # Idle,
           \/ handler'[h].pc = "create"
           \/ handler'[h].pc = "decide" /\ DOMAIN handler'[h].found = {}
    PROVE  ActiveBy(Current(h).sub, Monitor(h))' = {}
<1>t. TypeInv /\ EditsAreEnds
  BY DEF SourceInv, TellsInv
<1>a. \A s, m : ActiveBy(s, m)' =
          {i \in Slots : ActiveRow(i)' /\ outages'[i].sub = s /\ outages'[i].by = m}
  BY DEF ActiveBy
<1>b. ActiveBy(Current(h).sub, Monitor(h))' =
          {i \in Slots : ActiveRow(i)' /\ outages'[i].sub = Current(h)'.sub
                           /\ outages'[i].by = Monitor(h)'}
  BY DEF ActiveBy
<1>1. handler'[h] = handler[h] \/ QueryActive(h) \/ CreateFromNothing(h)
  BY <1>t, HandlerArrives
<1>2. CASE handler'[h] = handler[h]
  <2>1. handler[h] # Idle /\ Monitor(h)' = Monitor(h) /\ Current(h)' = Current(h)
    BY <1>2 DEF Monitor, Current
  <2>2. PICK m, s : m = Monitor(h) /\ s = Current(h).sub
    OBVIOUS
  <2>3. m \in Monitors /\ s \in Subs
    BY <1>t, <2>1, <2>2, CurrentStatus DEF Status
  <2>4. ActiveBy(s, m) = {}
    BY <1>2, <2>1, <2>2 DEF SourceInv, FoundNone
  <2>5. ActiveBy(s, m)' \subseteq ActiveBy(s, m)
    <3>1. CASE RowsShrink
      BY <2>3, <3>1 DEF RowsShrink, Sources
    <3>2. CASE ReporterAdds
      <4>1. PICK g \in Handlers, k \in Slots :
              /\ handler[g] # Idle /\ handler[g].pc = "create" /\ CreateReported(g, FreeSlots)
              /\ Adds(Monitor(g), Current(g).sub, k)
        BY <3>2 DEF ReporterAdds
      <4>2. handler'[g] # Idle => handler'[g].pc = "lookup"
        BY <1>t, <4>1, AdvanceTo DEF CreateReported
      <4>3. g # h
        BY <1>2, <2>1, <4>1, <4>2
      <4>4. Monitor(g) # m
        BY <2>1, <2>2, <4>1, <4>3 DEF SourceInv, TellsInv, OneRequestEach
      <4>5. ActiveBy(s, m)' = ActiveBy(s, m)
        BY <4>1, <4>4 DEF Adds
      <4>6. QED BY <4>5
    <3>3. CASE CheckerAdds
      <4>1. m # AbsentReportCreator
        BY <2>3, NameAssumption DEF NameAssumption
      <4>2. ActiveBy(s, m)' = ActiveBy(s, m)
        BY <3>3, <4>1 DEF CheckerAdds, Adds
      <4>3. QED BY <4>2
    <3>4. QED BY <1>t, <3>1, <3>2, <3>3, WhoAdds
  <2>6. ActiveBy(Current(h).sub, Monitor(h))' = ActiveBy(s, m)'
    BY <1>a, <1>b, <2>1, <2>2
  <2>7. QED BY <2>4, <2>5, <2>6
<1>3. ASSUME handler[h] # Idle, UNCHANGED outages, ActiveBy(Current(h).sub, Monitor(h)) = {},
             Monitor(h)' = Monitor(h), Current(h)' = Current(h)
     PROVE  ActiveBy(Current(h).sub, Monitor(h))' = {}
  BY <1>3 DEF ActiveBy, ActiveRow
<1>4. CASE QueryActive(h)
  <2>1. handler[h] \in Processing /\ handler[h] # Idle
    BY <1>t, <1>4, WorkingHandler DEF QueryActive
  <2> DEFINE found == GetActiveOutagesCreatedBy(Current(h).sub, Monitor(h))
             w     == [handler[h] EXCEPT !.pc = "decide", !.found = found]
  <2>2. handler'[h] = w /\ UNCHANGED outages
    BY <1>t, <1>4 DEF QueryActive, Become, state, TypeInv, TypeOK, ReportTypeOK
  <2>3. DOMAIN found = ActiveBy(Current(h).sub, Monitor(h))
    BY <1>t, ReportQuery
  <2> HIDE DEF found
  <2>4. /\ w.pc = "decide" /\ w.found = found /\ w.monitor = handler[h].monitor
        /\ w.report = handler[h].report /\ w.n = handler[h].n
    BY <2>1 DEF Processing
  <2> HIDE DEF w
  <2>5. ActiveBy(Current(h).sub, Monitor(h)) = {}
    BY <2>2, <2>3, <2>4
  <2>6. Monitor(h)' = Monitor(h) /\ Current(h)' = Current(h)
    BY <2>2, <2>4 DEF Monitor, Current
  <2>7. QED BY <1>3, <2>1, <2>2, <2>5, <2>6
<1>5. CASE CreateFromNothing(h)
  <2>1. handler[h] \in Processing /\ handler[h] # Idle /\ handler[h].pc = "decide"
    BY <1>t, <1>5, WorkingHandler DEF CreateFromNothing, DecideUnhealthy
  <2> DEFINE w == [handler[h] EXCEPT !.pc = "create"]
  <2>2. handler'[h] = w /\ UNCHANGED outages
    BY <1>t, <1>5
       DEF CreateFromNothing, DecideUnhealthy, Goto, Become, state, TypeInv, TypeOK, ReportTypeOK
  <2>3. /\ w.monitor = handler[h].monitor
        /\ w.report = handler[h].report /\ w.n = handler[h].n
    BY <2>1 DEF Processing
  <2> HIDE DEF w
  <2>4. ActiveBy(Current(h).sub, Monitor(h)) = {}
    BY <1>5, <2>1 DEF CreateFromNothing, SourceInv, FoundNone
  <2>5. Monitor(h)' = Monitor(h) /\ Current(h)' = Current(h)
    BY <2>2, <2>3 DEF Monitor, Current
  <2>6. QED BY <1>3, <2>1, <2>2, <2>4, <2>5
<1>6. QED BY <1>1, <1>2, <1>4, <1>5

\* The checker when it is about to create an outage.
LEMMA CheckerArrives ==
    ASSUME TypeInv, [Next]_vars, checker'.pc = "create"
    PROVE  \/ checker' = checker
           \/ /\ Judge
              /\ DOMAIN GetActiveOutagesDiscoveredFrom(checker.sub, AbsentReportSource) = {}
              /\ checker'.sub = checker.sub
<1>1. CASE ~CheckerAction
  BY <1>1, IdleIsIdle
     DEF Next, ReportAction, UserAction, UserCreates, UserLoads, UserSaves, UserDeletes,
         ReloadConfig, Tick, Restart, vars
<1>2. CASE CheckerAction
  <2>1. ASSUME StartPass \/ EndPass PROVE FALSE
    BY <2>1, IdleIsIdle DEF StartPass, EndPass
  <2>2. ASSUME GetLastPingTime PROVE FALSE
    <3>1. checker \in Checking
      BY <2>2, WorkingChecker DEF GetLastPingTime
    <3>2. QED BY <2>2, <3>1 DEF GetLastPingTime, Checking
  <2>3. ASSUME ResolveAbsent PROVE FALSE
    <3>1. checker \in Checking
      BY <2>3, WorkingChecker DEF ResolveAbsent
    <3>2. PICK rest, pc \in {"next", "resolve"} : checker' = [checker EXCEPT !.found = rest, !.pc = pc]
      BY <2>3 DEF ResolveAbsent
    <3>3. QED BY <3>1, <3>2 DEF Checking
  <2>4. ASSUME CreateAbsent(FreeSlots) \/ SkipSub PROVE FALSE
    <3>1. checker \in Checking
      BY <2>4, WorkingChecker DEF CreateAbsent, SkipSub
    <3>2. QED BY <2>4, <3>1 DEF CreateAbsent, SkipSub, Checking
  <2>5. CASE Judge
    <3>1. checker \in Checking
      BY <2>5, WorkingChecker DEF Judge
    <3> DEFINE found == GetActiveOutagesDiscoveredFrom(checker.sub, AbsentReportSource)
               auto  == checker.cfg[checker.sub].autoResolve
               pc    == IF checker.absent THEN IF DOMAIN found = {} THEN "create" ELSE "next"
                        ELSE IF auto /\ DOMAIN found # {} THEN "resolve" ELSE "next"
               kept  == IF checker.absent \/ ~auto THEN <<>> ELSE found
    <3>2. checker' = [checker EXCEPT !.found = kept, !.pc = pc]
      BY <2>5 DEF Judge
    <3>3. pc = "create" => DOMAIN found = {}
      OBVIOUS
    <3> HIDE DEF found, pc, kept
    <3>4. checker'.pc = pc /\ checker'.sub = checker.sub
      BY <3>1, <3>2 DEF Checking
    <3>5. QED BY <2>5, <3>3, <3>4 DEF found
  <2>6. QED BY <1>2, <2>1, <2>2, <2>3, <2>4, <2>5 DEF CheckerAction, CheckerStep
<1>3. QED BY <1>1, <1>2

LEMMA CheckerFoundNone ==
    ASSUME SourceInv, [Next]_vars, checker'.pc = "create"
    PROVE  ActiveBy(checker.sub, AbsentReportCreator)' = {}
<1>t. TypeInv /\ EditsAreEnds
  BY DEF SourceInv, TellsInv
<1>a. \A s, m : ActiveBy(s, m)' =
          {i \in Slots : ActiveRow(i)' /\ outages'[i].sub = s /\ outages'[i].by = m}
  BY DEF ActiveBy
<1>b. ActiveBy(checker.sub, AbsentReportCreator)' =
          {i \in Slots : ActiveRow(i)' /\ outages'[i].sub = checker'.sub
                           /\ outages'[i].by = AbsentReportCreator}
  BY DEF ActiveBy, AbsentReportCreator
<1>1. CASE checker' = checker
  <2>1. checker \in Checking
    BY <1>t, <1>1, WorkingChecker
  <2>2. PICK s : s = checker.sub
    OBVIOUS
  <2>3. s \in Subs /\ ActiveBy(s, AbsentReportCreator) = {}
    BY <1>1, <2>1, <2>2 DEF Checking, SourceInv, FoundNone
  <2>4. ActiveBy(s, AbsentReportCreator)' \subseteq ActiveBy(s, AbsentReportCreator)
    <3>1. CASE RowsShrink
      BY <2>3, <3>1 DEF RowsShrink, Sources, AbsentReportCreator
    <3>2. CASE ReporterAdds
      <4>1. PICK h \in Handlers, k \in Slots : handler[h] # Idle /\ Adds(Monitor(h), Current(h).sub, k)
        BY <3>2 DEF ReporterAdds
      <4>2. Monitor(h) # AbsentReportCreator
        BY <1>t, <4>1, CurrentStatus, NameAssumption DEF NameAssumption
      <4>3. QED BY <4>1, <4>2 DEF Adds, AbsentReportCreator
    <3>3. CASE CheckerAdds
      <4>1. checker \in Checking /\ CreateAbsent(FreeSlots)
        BY <2>1, <3>3 DEF CheckerAdds
      <4>2. checker'.pc = "next"
        BY <4>1 DEF CreateAbsent, Checking
      <4>3. QED BY <4>2
    <3>4. QED BY <1>t, <3>1, <3>2, <3>3, WhoAdds
  <2>5. ActiveBy(checker.sub, AbsentReportCreator)' = ActiveBy(s, AbsentReportCreator)'
    BY <1>1, <2>2
  <2>6. QED BY <2>3, <2>4, <2>5
<1>2. CASE Judge /\ checker'.sub = checker.sub
             /\ DOMAIN GetActiveOutagesDiscoveredFrom(checker.sub, AbsentReportSource) = {}
  <2>1. ActiveAbsent(checker.sub) = {}
    BY <1>t, <1>2, AbsentQuery
  <2>2. ASSUME NEW i \in Slots, ActiveRow(i), outages[i].sub = checker.sub,
               outages[i].by = AbsentReportCreator
       PROVE  FALSE
    <3>1. Origin(outages[i])
      BY <1>t, <2>2 DEF TypeInv, RowsSound, ActiveRow
    <3>2. outages[i].source = AbsentReportSource
      BY <2>2, <3>1, NameAssumption DEF NameAssumption, Origin, AbsentReportCreator, EndUser
    <3>3. QED BY <2>1, <2>2, <3>2 DEF ActiveAbsent
  <2>3. UNCHANGED outages
    BY <1>2 DEF Judge, state
  <2>4. QED BY <1>2, <1>b, <2>2, <2>3 DEF ActiveRow
<1>3. QED BY <1>t, <1>1, <1>2, CheckerArrives

\* People load an outage to end it and save what they have loaded.
LEMMA EndsStep ==
    ASSUME Edits \subseteq {"end"}, TypeInv, EditsAreEnds, [Next]_vars PROVE EditsAreEnds'
<1>t. editor \in [Editors -> Editing \cup {Idle}]
  BY DEF TypeInv, TypeOK
<1>1. CASE UNCHANGED editor
  BY <1>1 DEF EditsAreEnds
<1>2. ASSUME NEW e \in Editors, NEW i \in Slots, NEW edit \in Edits, UserLoads(e, i, edit)
     PROVE  EditsAreEnds'
  <2> DEFINE w == [slot |-> i, copy |-> Edited(outages[i], edit)]
  <2>1. editor' = [editor EXCEPT ![e] = w]
    BY <1>2 DEF UserLoads
  <2>2. outages[i] \in Outage /\ edit = "end"
    BY <1>2 DEF UserLoads, TypeInv, TypeOK, StateTypeOK
  <2>3. w.copy.ended
    BY <2>2 DEF Edited, Outage
  <2> HIDE DEF w
  <2>4. QED BY <1>t, <2>1, <2>3 DEF EditsAreEnds
<1>3. ASSUME NEW e \in Editors, editor' = [editor EXCEPT ![e] = Idle] PROVE EditsAreEnds'
  BY <1>t, <1>3 DEF EditsAreEnds
<1>4. CASE Restart
  BY <1>4 DEF Restart, EditsAreEnds
<1>5. QED BY <1>1, <1>2, <1>3, <1>4
       DEF Next, ReportAction, CheckerAction, UserAction, UserCreates, UserSaves, UserDeletes,
           ReloadConfig, Tick, vars

LEMMA SourceStep ==
    ASSUME ~Overlap, Edits \subseteq {"end"} PROVE SourceInv /\ [Next]_vars => SourceInv'
<1> SUFFICES ASSUME SourceInv, [Next]_vars PROVE SourceInv'
  OBVIOUS
<1>1. TellsInv'
  BY TellsStep DEF SourceInv
<1>2. OneRowEach'
  BY OneRowStep
<1>3. FoundNone'
  BY HandlerFoundNone, CheckerFoundNone DEF FoundNone
<1>4. EditsAreEnds'
  BY EndsStep DEF SourceInv, TellsInv
<1>5. QED BY <1>1, <1>2, <1>3, <1>4 DEF SourceInv

LEMMA SourceInit == Init => SourceInv
<1> SUFFICES ASSUME Init PROVE SourceInv
  OBVIOUS
<1>1. \A h \in Handlers : handler[h] = Idle
  BY DEF Init, ReportInit
<1>2. checker = CheckerIdle /\ \A i \in Slots : outages[i] = NoOutage
  BY DEF Init, StateInit, CheckerInit
<1>3. FoundNone
  BY <1>1, <1>2, IdleIsIdle DEF FoundNone
<1>4. OneRowEach
  BY <1>2 DEF OneRowEach, ActiveBy, ActiveRow
<1>5. EditsAreEnds
  BY DEF Init, EditsAreEnds
<1>6. QED BY <1>3, <1>4, <1>5, TellsInit DEF SourceInv

\* With a monitor's reports processed one at a time and people who create, end and delete
\* outages but edit nothing else of them, each monitor and the checker have at most one active
\* outage per sub-component: for any number of monitors, requests, people and sub-components,
\* whatever is reloaded, fails or restarts.  (An edit that leaves the end time alone is enough
\* for a second one: it writes back what it has read, and so reopens what was ended meanwhile.)
THEOREM NoDuplicates == ASSUME ~Overlap, Edits \subseteq {"end"} PROVE Spec => []OneActivePerSource
<1>1. ASSUME SourceInv PROVE OneActivePerSource
  <2>1. ASSUME NEW s \in Subs, NEW by \in Sources PROVE Cardinality(ActiveBy(s, by)) <= 1
    <3>1. CASE ActiveBy(s, by) = {}
      BY <3>1, FS_EmptySet
    <3>2. CASE ActiveBy(s, by) # {}
      <4>1. PICK i : ActiveBy(s, by) = {i}
        BY <1>1, <2>1, <3>2 DEF SourceInv, OneRowEach
      <4>2. Cardinality({i}) = 1
        BY FS_Singleton
      <4>3. QED BY <4>1, <4>2
    <3>3. QED BY <3>1, <3>2
  <2>2. QED BY <2>1 DEF OneActivePerSource, Sources
<1>2. SourceInv /\ [Next]_vars => SourceInv'
  BY SourceStep
<1>3. QED BY <1>1, <1>2, SourceInit, PTL DEF Spec
================================================================================
