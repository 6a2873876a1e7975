------------------------------- MODULE PageProofs -------------------------------
(***************************************************************************)
(* Theorems about the two pages the dashboard composes for its readers:    *)
(* ComponentStatus for any number of sub-components and outages, and         *)
(* ExternalPageCache for any number of requests, any TTL and time limit and  *)
(* any versions of the page.  The two share no state.                        *)
(***************************************************************************)
EXTENDS ComponentStatus, ExternalPageCache, FiniteSetTheorems, TLAPS

--------------------------------------------------------------------------------
(***************************************************************************)
(* ComponentStatus.                                                         *)
(***************************************************************************)
LEMMA OutageFields ==
    ASSUME NEW o \in Outage
    PROVE  o.sub \in AllSubs /\ o.severity \in Severities
  BY StatusAssumption DEF Outage

\* The status pages keep nothing, so what their inputs are is all there is to keep.
THEOREM TypeCorrect == Spec => []TypeOK
<1>1. Init => TypeOK
  BY DEF Init, TypeOK
<1>2. TypeOK /\ [Next]_vars => TypeOK'
  <2> SUFFICES ASSUME TypeOK, [Next]_vars PROVE TypeOK'
    OBVIOUS
  <2>1. ASSUME NEW i \in Slots, CreateOutage(i) \/ UpdateOutage(i) PROVE TypeOK'
    BY <2>1 DEF CreateOutage, UpdateOutage, TypeOK
  <2>2. ASSUME NEW i \in Slots, DeleteOutage(i) PROVE TypeOK'
    BY <2>2 DEF DeleteOutage, TypeOK
  <2>3. ASSUME NEW i \in Slots, EndTimePasses(i) PROVE TypeOK'
    <3>1. outages[i] \in Outage
      BY <2>3 DEF EndTimePasses, TypeOK
    <3>2. [outages[i] EXCEPT !.end = "past"] \in Outage
      BY <3>1 DEF Outage
    <3>3. outages' = [outages EXCEPT ![i] = [outages[i] EXCEPT !.end = "past"]]
      BY <2>3 DEF EndTimePasses, TypeOK
    <3>4. QED BY <2>3, <3>2, <3>3 DEF EndTimePasses, TypeOK
  <2>4. CASE ReloadConfig \/ UNCHANGED vars
    BY <2>4 DEF ReloadConfig, TypeOK, vars
  <2>5. QED BY <2>1, <2>2, <2>3, <2>4 DEF Next
<1>3. QED BY <1>1, <1>2, PTL DEF Spec

--------------------------------------------------------------------------------
(***************************************************************************)
(* What determineStatusFromSeverity returns.                                *)
(***************************************************************************)
Level(i) == GetSeverityLevel(outages[i].severity)

Rows == SUBSET GetActiveOutagesForComponent

Confirmed(rows) == {i \in rows : outages[i].confirmed}

LEMMA ActiveRows ==
    ASSUME TypeOK, NEW rows \in Rows, NEW i \in rows
    PROVE  i \in Slots /\ Active(i) /\ outages[i].severity \in Severities /\ outages[i].sub \in AllSubs
<1>1. i \in Slots /\ Active(i)
  BY DEF Rows, GetActiveOutagesForComponent
<1>2. outages[i] \in Outage
  BY <1>1 DEF Active, TypeOK
<1>3. QED BY <1>1, <1>2, OutageFields

LEMMA LevelsDiffer ==
    \A s, t \in Severities :
        /\ GetSeverityLevel(s) \in 1..4
        /\ GetSeverityLevel(s) = GetSeverityLevel(t) => s = t
  BY DEF Severities, GetSeverityLevel

LEMMA HasWorst ==
    ASSUME NEW S \in SUBSET Severities, S # {}
    PROVE  \E s \in S : \A t \in S : GetSeverityLevel(t) <= GetSeverityLevel(s)
<1>1. CASE "Down" \in S
  BY <1>1 DEF Severities, GetSeverityLevel
<1>2. CASE "Down" \notin S /\ "Degraded" \in S
  BY <1>2 DEF Severities, GetSeverityLevel
<1>3. CASE "Down" \notin S /\ "Degraded" \notin S /\ "CapacityExhausted" \in S
  BY <1>3 DEF Severities, GetSeverityLevel
<1>4. CASE "Down" \notin S /\ "Degraded" \notin S /\ "CapacityExhausted" \notin S
  BY <1>4 DEF Severities, GetSeverityLevel
<1>5. QED BY <1>1, <1>2, <1>3, <1>4

LEMMA WorstOfRows ==
    ASSUME TypeOK, NEW rows \in Rows, rows # {}
    PROVE  /\ \E i \in rows : Worst(rows) = outages[i].severity
           /\ \A i \in rows : Level(i) <= GetSeverityLevel(Worst(rows))
<1> DEFINE S == {outages[i].severity : i \in rows}
<1>1. S \in SUBSET Severities /\ S # {}
  BY ActiveRows
<1>2. PICK s \in S : \A t \in S : GetSeverityLevel(t) <= GetSeverityLevel(s)
  <2> HIDE DEF S
  <2>1. QED BY <1>1, HasWorst
<1>3. \A i \in rows : Level(i) <= GetSeverityLevel(s)
  BY <1>2 DEF Level
<1>4. Worst(rows) \in S /\ \A i \in rows : Level(i) <= GetSeverityLevel(Worst(rows))
  BY <1>3 DEF Worst, Level
<1>5. QED BY <1>4

\* With confirmed outages, the severity of the worst of them.
LEMMA DeterminedByConfirmed ==
    ASSUME TypeOK, NEW rows \in Rows, Confirmed(rows) # {}
    PROVE  LET status == DetermineStatusFromSeverity(rows)
           IN  /\ \E i \in Confirmed(rows) : status = outages[i].severity
               /\ \A i \in Confirmed(rows) : Level(i) <= GetSeverityLevel(status)
               /\ status \in Severities
<1>1. Confirmed(rows) \in Rows
  BY DEF Confirmed, Rows
<1>2. PICK i \in Confirmed(rows) : Worst(Confirmed(rows)) = outages[i].severity
  BY <1>1, WorstOfRows
<1>3. Worst(Confirmed(rows)) \in Severities
  BY <1>1, <1>2, ActiveRows
<1>4. DetermineStatusFromSeverity(rows) = Worst(Confirmed(rows))
  BY <1>3 DEF DetermineStatusFromSeverity, Confirmed, ToStatus
<1>5. QED BY <1>1, <1>2, <1>3, <1>4, WorstOfRows

LEMMA SuspectedWithoutConfirmed ==
    ASSUME NEW rows, rows # {}, Confirmed(rows) = {}
    PROVE  DetermineStatusFromSeverity(rows) = "Suspected"
  BY DEF DetermineStatusFromSeverity, Confirmed

--------------------------------------------------------------------------------
RowsOf(s) == GetActiveOutagesForSubComponent(s)

LEMMA PageOfSub ==
    ASSUME TypeOK, NEW s
    PROVE  /\ RowsOf(s) \in Rows
           /\ RowsOf(s) = {} => GetSubComponentStatus(s) = "Healthy"
           /\ RowsOf(s) # {} => /\ GetSubComponentStatus(s) = DetermineStatusFromSeverity(RowsOf(s))
                                /\ GetSubComponentStatus(s) \in Severities
<1>1. RowsOf(s) \in Rows
  BY DEF RowsOf, Rows, GetActiveOutagesForSubComponent, GetActiveOutagesForComponent
<1>2. RowsOf(s) # {} => DetermineStatusFromSeverity(RowsOf(s)) \in Severities
  BY <1>1, DeterminedByConfirmed, SuspectedWithoutConfirmed DEF Severities
<1>3. QED BY <1>1, <1>2 DEF GetSubComponentStatus, RowsOf

\* A sub-component's page is never worse than that of all outages together, and that of one
\* sub-component says the same.
LEMMA WorstPage ==
    ASSUME TypeOK, NEW all \in Rows, all = GetActiveOutagesForComponent, all # {}
    PROVE  LET status == DetermineStatusFromSeverity(all)
           IN  /\ \A s : RowsOf(s) # {} => LevelOf(GetSubComponentStatus(s)) <= LevelOf(status)
               /\ \E i \in all : GetSubComponentStatus(outages[i].sub) = status
<1> DEFINE status == DetermineStatusFromSeverity(all)
<1>0. \A s : RowsOf(s) \subseteq all /\ Confirmed(RowsOf(s)) \subseteq Confirmed(all)
  BY DEF RowsOf, GetActiveOutagesForSubComponent, GetActiveOutagesForComponent, Confirmed
<1>1. \A i \in all : i \in RowsOf(outages[i].sub)
  BY DEF RowsOf, GetActiveOutagesForSubComponent, GetActiveOutagesForComponent
<1>2. CASE Confirmed(all) = {}
  <2>1. \A s : RowsOf(s) # {} => GetSubComponentStatus(s) = "Suspected"
    BY <1>0, <1>2, PageOfSub, SuspectedWithoutConfirmed
  <2>2. status = "Suspected"
    BY <1>2, SuspectedWithoutConfirmed
  <2>3. LevelOf("Suspected") = 1
    BY DEF LevelOf, ToSeverity, Severities, GetSeverityLevel
  <2>4. QED BY <1>1, <2>1, <2>2, <2>3
<1>3. CASE Confirmed(all) # {}
  <2>1. PICK i \in Confirmed(all) : status = outages[i].severity
    BY <1>3, DeterminedByConfirmed
  <2>2. status \in Severities /\ \A j \in Confirmed(all) : Level(j) <= GetSeverityLevel(status)
    BY <1>3, DeterminedByConfirmed
  <2> HIDE DEF status
  <2>3. ASSUME NEW s, RowsOf(s) # {} PROVE LevelOf(GetSubComponentStatus(s)) <= LevelOf(status)
    <3>1. GetSubComponentStatus(s) = DetermineStatusFromSeverity(RowsOf(s))
            /\ GetSubComponentStatus(s) \in Severities /\ RowsOf(s) \in Rows
      BY <2>3, PageOfSub
    <3>2. CASE Confirmed(RowsOf(s)) = {}
      <4>1. GetSubComponentStatus(s) = "Suspected"
        BY <2>3, <3>1, <3>2, SuspectedWithoutConfirmed
      <4>2. LevelOf("Suspected") = 1
        BY DEF LevelOf, ToSeverity, Severities, GetSeverityLevel
      <4>3. LevelOf(status) \in 1..4
        BY <2>2, LevelsDiffer DEF LevelOf, ToSeverity
      <4>4. QED BY <4>1, <4>2, <4>3
    <3>3. CASE Confirmed(RowsOf(s)) # {}
      <4>1. PICK j \in Confirmed(RowsOf(s)) : GetSubComponentStatus(s) = outages[j].severity
        BY <3>1, <3>3, DeterminedByConfirmed
      <4>2. j \in Confirmed(all)
        BY <1>0
      <4>3. QED BY <2>2, <3>1, <4>1, <4>2 DEF LevelOf, ToSeverity, Level
    <3>4. QED BY <3>2, <3>3
  <2>4. GetSubComponentStatus(outages[i].sub) = status
    <3> DEFINE s == outages[i].sub
    <3>1. i \in all /\ i \in Confirmed(RowsOf(s))
      BY <1>1 DEF Confirmed
    <3>2. RowsOf(s) # {} /\ RowsOf(s) \in Rows
      BY <3>1, PageOfSub DEF Confirmed
    <3>3. GetSubComponentStatus(s) = DetermineStatusFromSeverity(RowsOf(s))
            /\ GetSubComponentStatus(s) \in Severities
      BY <3>2, PageOfSub
    <3>4. Level(i) <= GetSeverityLevel(GetSubComponentStatus(s))
      BY <3>1, <3>2, <3>3, DeterminedByConfirmed
    <3>5. LevelOf(GetSubComponentStatus(s)) <= LevelOf(status)
      BY <2>3, <3>2
    <3> HIDE DEF s
    <3>6. /\ GetSeverityLevel(GetSubComponentStatus(s)) <= GetSeverityLevel(status)
          /\ GetSeverityLevel(status) <= GetSeverityLevel(GetSubComponentStatus(s))
      BY <2>1, <2>2, <3>3, <3>4, <3>5 DEF LevelOf, ToSeverity, Level
    <3>7. GetSeverityLevel(GetSubComponentStatus(s)) = GetSeverityLevel(status)
      BY <2>2, <3>3, <3>6, LevelsDiffer
    <3>8. QED BY <2>2, <3>3, <3>7, LevelsDiffer DEF s
  <2>5. QED BY <2>3, <2>4 DEF status, Confirmed
<1>4. QED BY <1>2, <1>3

--------------------------------------------------------------------------------
\* As long as outages are of configured sub-components, the component is healthy when all of
\* its sub-components are, partial when some are, and else shows what the worst of their
\* pages shows (getComponentStatus): for any number of sub-components and outages.
THEOREM PagesAgree == Spec => []AgreesWithSubComponents
<1>1. ASSUME TypeOK PROVE AgreesWithSubComponents
  <2> SUFFICES ASSUME \A i \in Slots : Active(i) => outages[i].sub \in subs
               PROVE  /\ Affected = {} => GetComponentStatus = "Healthy"
                      /\ Affected \notin {{}, subs} => GetComponentStatus = "Partial"
                      /\ (Affected = subs /\ subs # {}) =>
                            /\ GetComponentStatus \in {GetSubComponentStatus(s) : s \in subs}
                            /\ \A s \in subs : LevelOf(GetSubComponentStatus(s))
                                                 <= LevelOf(GetComponentStatus)
    BY DEF AgreesWithSubComponents
  <2> DEFINE all == GetActiveOutagesForComponent
             affected == {outages[i].sub : i \in all}
  <2>1. all \in Rows
    BY DEF Rows
  <2>2. affected = Affected /\ \A s \in affected : RowsOf(s) # {}
    <3>1. \A s \in subs : s \in Affected <=> RowsOf(s) # {}
      BY <1>1, PageOfSub DEF Affected, Severities
    <3>2. \A s : RowsOf(s) # {} <=> s \in affected
      BY DEF RowsOf, GetActiveOutagesForSubComponent, GetActiveOutagesForComponent
    <3>3. affected \subseteq subs
      BY DEF GetActiveOutagesForComponent
    <3>4. QED BY <3>1, <3>2, <3>3 DEF Affected
  <2>3. IsFiniteSet(subs) /\ affected \subseteq subs
    BY <1>1, <2>2, StatusAssumption, FS_Subset DEF TypeOK, Affected
  <2>4. ASSUME Affected = {} PROVE GetComponentStatus = "Healthy"
    <3>1. all = {}
      BY <2>2, <2>4
    <3>2. QED BY <3>1 DEF GetComponentStatus
  <2>5. ASSUME Affected # {}, Affected # subs PROVE GetComponentStatus = "Partial"
    <3>1. all # {} /\ affected # subs
      BY <2>2, <2>5
    <3>2. /\ Cardinality(subs) \in Nat /\ Cardinality(affected) \in Nat
          /\ Cardinality(affected) <= Cardinality(subs) /\ Cardinality(affected) # Cardinality(subs)
      BY <2>3, <3>1, FS_Subset, FS_CardinalityType
    <3>3. Cardinality(affected) < Cardinality(subs)
      BY <3>2
    <3>4. QED BY <3>1, <3>3 DEF GetComponentStatus
  <2>6. ASSUME Affected = subs, subs # {}
        PROVE  /\ GetComponentStatus \in {GetSubComponentStatus(s) : s \in subs}
               /\ \A s \in subs : LevelOf(GetSubComponentStatus(s)) <= LevelOf(GetComponentStatus)
    <3>1. all # {} /\ affected = subs
      BY <2>2, <2>6
    <3>2. Cardinality(affected) = Cardinality(subs) /\ Cardinality(subs) \in Nat
      BY <2>3, <3>1, FS_CardinalityType
    <3>3. ~(Cardinality(affected) < Cardinality(subs))
      BY <3>2
    <3>4. GetComponentStatus = DetermineStatusFromSeverity(all)
      BY <3>1, <3>3 DEF GetComponentStatus
    <3>5. \A s \in subs : LevelOf(GetSubComponentStatus(s)) <= LevelOf(GetComponentStatus)
      BY <1>1, <2>1, <2>2, <3>1, <3>4, WorstPage
    <3>6. PICK i \in all : GetSubComponentStatus(outages[i].sub) = GetComponentStatus
      BY <1>1, <2>1, <3>1, <3>4, WorstPage
    <3>7. outages[i].sub \in subs
      BY <3>1
    <3>8. QED BY <3>5, <3>6, <3>7
  <2>7. QED BY <2>4, <2>5, <2>6
<1>2. QED BY <1>1, TypeCorrect, PTL

--------------------------------------------------------------------------------
(***************************************************************************)
(* ExternalPageCache.                                                       *)
(***************************************************************************)
\* The records a request may become.
LEMMA RequestRecords ==
    ASSUME NEW q \in Request
    PROVE  /\ Idle \in Request
           /\ \A pc \in Pcs : [q EXCEPT !.pc = pc] \in Request
           /\ \A pc \in Pcs, v \in Versions \cup {0} : [q EXCEPT !.pc = pc, !.page = v] \in Request
           /\ \A pc \in Pcs, v \in Versions \cup {0}, b \in BOOLEAN :
                 [q EXCEPT !.pc = pc, !.page = v, !.failed = b] \in Request
           /\ \A f \in Versions \cup {0} : [Idle EXCEPT !.pc = "look", !.floor = f] \in Request
  BY DEF Request, Idle, Pcs

\* An answer leaves requests and history in shape.
LEMMA AnswerKeepsShape ==
    ASSUME CacheTypeOK, NEW r \in Requests, NEW v \in Versions \cup {0}, NEW b \in BOOLEAN,
           Answer(r, v, b)
    PROVE  req' \in [Requests -> Request] /\ seen' \in Versions \cup {0}
<1>1. [req[r] EXCEPT !.pc = "answered", !.page = v, !.failed = b] \in Request
  BY RequestRecords DEF CacheTypeOK, Pcs
<1>2. req' \in [Requests -> Request]
  BY <1>1, Zenon DEF Answer, CacheTypeOK
<1>3. QED BY <1>2 DEF Answer, Newer, CacheTypeOK

\* The cache and its requests keep their shape.
THEOREM CacheTypeCorrect == CacheSpec => []CacheTypeOK
<1> USE CacheAssumption DEF CacheAssumption
<1>1. CacheInit => CacheTypeOK
  BY DEF CacheInit, CacheTypeOK, Versions, Longest, Idle, Request, Pcs
<1>2. CacheTypeOK /\ [CacheNext]_cacheVars => CacheTypeOK'
  <2> SUFFICES ASSUME CacheTypeOK, [CacheNext]_cacheVars PROVE CacheTypeOK'
    OBVIOUS
  <2>1. ASSUME NEW r \in Requests, Ask(r) PROVE CacheTypeOK'
    BY <2>1, RequestRecords DEF Ask, CacheTypeOK, copy, history
  <2>2. ASSUME NEW r \in Requests, ReadCached(r) PROVE CacheTypeOK'
    <3>1. CASE Fresh
      <4>1. Answer(r, content, FALSE)
        BY <2>2, <3>1, Zenon DEF ReadCached
      <4>2. req' \in [Requests -> Request] /\ seen' \in Versions \cup {0}
        BY <4>1, AnswerKeepsShape DEF CacheTypeOK
      <4>3. QED BY <2>2, <4>2 DEF ReadCached, CacheTypeOK, copy
    <3>2. CASE ~Fresh
      <4>1. Goto(r, "lock") /\ seen' = seen
        BY <2>2, <3>2, Zenon DEF ReadCached
      <4>2. QED BY <2>2, <4>1, RequestRecords DEF ReadCached, Goto, CacheTypeOK, copy, Pcs
    <3>3. QED BY <3>1, <3>2
  <2>3. ASSUME NEW r \in Requests, TakeLock(r) PROVE CacheTypeOK'
    BY <2>3, RequestRecords DEF TakeLock, Goto, CacheTypeOK, copy, history, Pcs
  <2>4. ASSUME NEW r \in Requests, CheckAgain(r) PROVE CacheTypeOK'
    <3>1. CASE Fresh
      <4>1. Answer(r, content, FALSE)
        BY <2>4, <3>1, Zenon DEF CheckAgain
      <4>2. req' \in [Requests -> Request] /\ seen' \in Versions \cup {0}
        BY <4>1, AnswerKeepsShape DEF CacheTypeOK
      <4>3. QED BY <2>4, <3>1, <4>2 DEF CheckAgain, Unlock, CacheTypeOK, copy
    <3>2. CASE ~Fresh
      <4>1. Goto(r, "fetch") /\ spent' = 0 /\ UNCHANGED <<lock, seen, content, age, source, gone>>
        BY <2>4, <3>2, Zenon DEF CheckAgain, copy
      <4>2. req' \in [Requests -> Request]
        BY <4>1, RequestRecords DEF Goto, CacheTypeOK, Pcs
      <4>3. spent' \in 0..MaxFetch
        BY <4>1
      <4>4. QED BY <4>1, <4>2, <4>3 DEF CacheTypeOK
    <3>3. QED BY <3>1, <3>2
  <2>5. ASSUME NEW r \in Requests, Respond(r) PROVE CacheTypeOK'
    BY <2>5, RequestRecords DEF Respond, CacheTypeOK, copy, history, Pcs
  <2>6. ASSUME NEW r \in Requests, Store(r) PROVE CacheTypeOK'
    <3>1. Answer(r, req[r].page, FALSE) /\ req[r].page \in Versions \cup {0}
      BY <2>6 DEF Store, CacheTypeOK, Request
    <3>2. req' \in [Requests -> Request] /\ seen' \in Versions \cup {0}
      BY <3>1, AnswerKeepsShape
    <3>3. QED BY <2>6, <3>1, <3>2 DEF Store, Unlock, CacheTypeOK
  <2>7. ASSUME NEW r \in Requests, FetchFails(r) PROVE CacheTypeOK'
    <3>1. \E v \in Versions \cup {0} : Answer(r, v, TRUE)
      BY <2>7, Zenon DEF FetchFails, CacheTypeOK
    <3>2. req' \in [Requests -> Request] /\ seen' \in Versions \cup {0}
      BY <3>1, AnswerKeepsShape
    <3>3. QED BY <2>7, <3>2 DEF FetchFails, Unlock, CacheTypeOK, copy
  <2>8. CASE Publish
    BY <2>8 DEF Publish, CacheTypeOK, copy, history, Versions
  <2>9. CASE Tick
    BY <2>9 DEF Tick, CacheTypeOK, Longest
  <2>10. CASE UNCHANGED cacheVars
    BY <2>10 DEF cacheVars, CacheTypeOK
  <2>11. QED
    BY <2>1, <2>2, <2>3, <2>4, <2>5, <2>6, <2>7, <2>8, <2>9, <2>10 DEF CacheNext, Get
<1>3. QED BY <1>1, <1>2, PTL DEF CacheSpec
--------------------------------------------------------------------------------
\* Whoever is past the lock holds it.
Exclusive == \A r \in Requests : req[r].pc \in {"check", "fetch", "body"} => lock = r

\* The versions in the cache, on their way there and answered are in order.
Ordered ==
    /\ seen = content
    /\ content <= source
    /\ \A r \in Requests :
          /\ req[r].floor <= seen
          /\ At(r, "body") =>
                content <= req[r].page /\ req[r].page <= source /\ req[r].page # 0

CacheInv ==
    /\ Exclusive
    /\ FetchesOnlyWhenExpired
    /\ Ordered
    /\ PagesNeverGoBack
    /\ ServedOnceServedAlways

\* What the two ways to move a request do to its fields.
LEMMA GotoFields ==
    ASSUME CacheTypeOK, NEW r \in Requests, NEW pc \in Pcs, Goto(r, pc)
    PROVE  /\ req'[r].pc = pc /\ req'[r].page = req[r].page /\ req'[r].floor = req[r].floor
           /\ \A q \in Requests \ {r} : req'[q] = req[q]
  BY DEF CacheTypeOK, Goto, Request

LEMMA AnswerFields ==
    ASSUME CacheTypeOK, NEW r \in Requests, NEW v, NEW b, Answer(r, v, b)
    PROVE  /\ req'[r].pc = "answered" /\ req'[r].page = v /\ req'[r].floor = req[r].floor
           /\ \A q \in Requests \ {r} : req'[q] = req[q]
           /\ seen' = Newer(v, seen)
  BY DEF CacheTypeOK, Answer, Request

\* An answer with the copy, or with an error when there is none, by a request that
\* may look at it.
LEMMA AnswerFromCopy ==
    ASSUME CacheTypeOK, CacheInv, NEW r \in Requests, NEW v, NEW b, Answer(r, v, b),
           (HasContent /\ v = content) \/ (~HasContent /\ v = 0),
           content' = content, age' = age, source' = source, lock' = Nobody,
           lock = Nobody \/ lock = r
    PROVE  CacheInv'
<1> USE CacheAssumption DEF CacheAssumption
<1>1. /\ req'[r].pc = "answered" /\ req'[r].floor = req[r].floor
      /\ req'[r].page = v
      /\ \A q \in Requests \ {r} : req'[q] = req[q]
      /\ seen' = Newer(v, seen)
  BY AnswerFields
<1>2. Exclusive'
  BY <1>1 DEF CacheInv, Exclusive
<1>3. FetchesOnlyWhenExpired'
  BY <1>1 DEF CacheInv, FetchesOnlyWhenExpired, Fetching, At, Fresh, HasContent
<1>4. seen' = seen
  <2>1. seen \in Nat /\ seen = content
    BY DEF CacheInv, Ordered, CacheTypeOK, Versions
  <2>2. v = seen \/ v = 0
    BY <2>1
  <2>3. QED BY <1>1, <2>1, <2>2 DEF Newer
<1>5. Ordered'
  BY <1>1, <1>4 DEF CacheInv, Ordered, At
<1>6. PagesNeverGoBack'
  <2>1. v # 0 => v >= req[r].floor
    BY DEF CacheInv, Ordered, CacheTypeOK, Versions, Request
  <2>2. QED BY <1>1, <2>1 DEF CacheInv, PagesNeverGoBack, At
<1>7. ServedOnceServedAlways'
  <2>1. v = 0 => seen = 0 \/ \E w \in EmptyPages : w <= source
    <3>1. seen \in Nat /\ seen = content /\ content <= source
      BY DEF CacheInv, Ordered, CacheTypeOK, Versions
    <3>2. v = 0 => content = 0 \/ content \in EmptyPages
      BY DEF HasContent
    <3>3. QED BY <3>1, <3>2
  <2>2. v = 0 => req[r].floor = 0 \/ \E w \in EmptyPages : w <= source
    BY <2>1 DEF CacheInv, Ordered, CacheTypeOK, Versions, Request
  <2>3. QED BY <1>1, <2>2 DEF CacheInv, ServedOnceServedAlways, At
<1>8. QED BY <1>2, <1>3, <1>5, <1>6, <1>7 DEF CacheInv

LEMMA CacheStep == CacheTypeOK /\ CacheInv /\ [CacheNext]_cacheVars => CacheInv'
<1> SUFFICES ASSUME CacheTypeOK, CacheInv, [CacheNext]_cacheVars PROVE CacheInv'
  OBVIOUS
<1> USE CacheAssumption DEF CacheAssumption
\* A request that moves on without an answer.
<1>a. ASSUME NEW r \in Requests, NEW pc \in Pcs, Goto(r, pc), pc \notin {"answered", "body"},
             UNCHANGED <<content, age, source, seen>>,
             pc \in {"check", "fetch"} => lock' = r,
             lock = Nobody \/ lock' = lock,
             pc = "fetch" => ~Fresh
      PROVE  CacheInv'
  <2>1. /\ req'[r].pc = pc /\ req'[r].floor = req[r].floor
        /\ \A q \in Requests \ {r} : req'[q] = req[q]
    BY <1>a, GotoFields
  <2>2. Exclusive'
    BY <1>a, <2>1 DEF CacheInv, Exclusive
  <2>3. FetchesOnlyWhenExpired'
    BY <1>a, <2>1 DEF CacheInv, FetchesOnlyWhenExpired, Fetching, At, Fresh, HasContent
  <2>4. Ordered'
    BY <1>a, <2>1 DEF CacheInv, Ordered, At
  <2>5. PagesNeverGoBack' /\ ServedOnceServedAlways'
    BY <1>a, <2>1 DEF CacheInv, PagesNeverGoBack, ServedOnceServedAlways, At
  <2>6. QED BY <2>2, <2>3, <2>4, <2>5 DEF CacheInv
<1>1. ASSUME NEW r \in Requests, Ask(r) PROVE CacheInv'
  <2>1. /\ req'[r].pc = "look" /\ req'[r].floor = seen
        /\ \A q \in Requests \ {r} : req'[q] = req[q]
        /\ UNCHANGED <<content, age, lock, source, seen>>
    BY <1>1 DEF Ask, CacheTypeOK, Idle, copy, history
  <2>2. Exclusive' /\ FetchesOnlyWhenExpired'
    BY <2>1 DEF CacheInv, Exclusive, FetchesOnlyWhenExpired, Fetching, At, Fresh, HasContent
  <2>3. Ordered'
    BY <2>1 DEF CacheInv, Ordered, At, CacheTypeOK, Versions
  <2>4. PagesNeverGoBack' /\ ServedOnceServedAlways'
    BY <2>1 DEF CacheInv, PagesNeverGoBack, ServedOnceServedAlways, At
  <2>5. QED BY <2>2, <2>3, <2>4 DEF CacheInv
<1>2. ASSUME NEW r \in Requests, ReadCached(r) PROVE CacheInv'
  <2>1. CASE Fresh
    <3>1. Answer(r, content, FALSE) /\ HasContent
      BY <1>2, <2>1, Zenon DEF ReadCached, Fresh
    <3>2. content' = content /\ age' = age /\ source' = source /\ lock' = Nobody /\ lock = Nobody
      BY <1>2 DEF ReadCached, copy
    <3>3. QED BY <3>1, <3>2, AnswerFromCopy, Zenon
  <2>2. CASE ~Fresh
    <3>1. Goto(r, "lock") /\ seen' = seen
      BY <1>2, <2>2, Zenon DEF ReadCached
    <3>2. UNCHANGED <<content, age, source, lock>>
      BY <1>2 DEF ReadCached, copy
    <3>3. QED BY <3>1, <3>2, <1>a DEF Pcs
  <2>3. QED BY <2>1, <2>2
<1>3. ASSUME NEW r \in Requests, TakeLock(r) PROVE CacheInv'
  BY <1>3, <1>a DEF TakeLock, Pcs, copy, history
<1>4. ASSUME NEW r \in Requests, CheckAgain(r) PROVE CacheInv'
  <2>1. lock = r
    BY <1>4 DEF CheckAgain, CacheInv, Exclusive, At
  <2>2. content' = content /\ age' = age /\ source' = source
    BY <1>4 DEF CheckAgain, copy
  <2>3. CASE Fresh
    <3>1. Answer(r, content, FALSE) /\ HasContent /\ lock' = Nobody
      BY <1>4, <2>3, Zenon DEF CheckAgain, Fresh, Unlock
    <3>2. QED BY <2>1, <2>2, <3>1, AnswerFromCopy, Zenon
  <2>4. CASE ~Fresh
    <3>1. Goto(r, "fetch") /\ UNCHANGED <<lock, seen>>
      BY <1>4, <2>4, Zenon DEF CheckAgain
    <3>2. QED BY <2>1, <2>2, <2>4, <3>1, <1>a DEF Pcs
  <2>5. QED BY <2>3, <2>4
<1>5. ASSUME NEW r \in Requests, Respond(r) PROVE CacheInv'
  <2>1. /\ req'[r].pc = "body" /\ req'[r].page = source /\ req'[r].floor = req[r].floor
        /\ \A q \in Requests \ {r} : req'[q] = req[q]
        /\ UNCHANGED <<content, age, lock, source, seen>>
    BY <1>5 DEF Respond, CacheTypeOK, Request, copy, history
  <2>2. lock = r /\ ~Fresh
    BY <1>5 DEF Respond, CacheInv, Exclusive, FetchesOnlyWhenExpired, Fetching, At
  <2>3. Exclusive' /\ FetchesOnlyWhenExpired'
    BY <2>1, <2>2 DEF CacheInv, Exclusive, FetchesOnlyWhenExpired, Fetching, At, Fresh, HasContent
  <2>4. Ordered'
    BY <2>1 DEF CacheInv, Ordered, At, CacheTypeOK, Versions
  <2>5. PagesNeverGoBack' /\ ServedOnceServedAlways'
    BY <2>1 DEF CacheInv, PagesNeverGoBack, ServedOnceServedAlways, At
  <2>6. QED BY <2>3, <2>4, <2>5 DEF CacheInv
<1>6. ASSUME NEW r \in Requests, Store(r) PROVE CacheInv'
  <2>1. /\ req'[r].pc = "answered" /\ req'[r].page = req[r].page /\ req'[r].floor = req[r].floor
        /\ \A q \in Requests \ {r} : req'[q] = req[q]
        /\ seen' = Newer(req[r].page, seen) /\ content' = req[r].page
        /\ UNCHANGED source /\ lock' = Nobody
    BY <1>6, AnswerFields DEF Store, Unlock
  <2>2. lock = r /\ seen = content /\ content <= req[r].page /\ req[r].page <= source /\ req[r].page # 0
    <3>1. req[r].pc = "body"
      BY <1>6 DEF Store, At
    <3>2. QED BY <3>1 DEF CacheInv, Exclusive, Ordered, At
  <2>3. \A q \in Requests \ {r} : req[q].pc \notin {"check", "fetch", "body"}
    BY <2>2 DEF CacheInv, Exclusive
  <2>4. Exclusive' /\ FetchesOnlyWhenExpired'
    BY <2>1, <2>3 DEF Exclusive, FetchesOnlyWhenExpired, Fetching, At
  <2>5. seen' = req[r].page
    BY <2>1, <2>2 DEF Newer, CacheTypeOK, Versions, Request
  <2>6. Ordered'
    BY <2>1, <2>2, <2>3, <2>5 DEF CacheInv, Ordered, At, CacheTypeOK, Versions, Request
  <2>7. PagesNeverGoBack'
    <3>0. seen \in Int /\ content \in Int /\ req[r].page \in Int /\ req[r].floor \in Int /\ req[r].floor <= seen
      BY DEF CacheInv, Ordered, CacheTypeOK, Versions, Request
    <3>1. req'[r].page >= req'[r].floor
      BY <2>1, <3>0, <2>2 DEF CacheInv, Ordered, CacheTypeOK, Versions, Request
    <3>2. QED BY <2>1, <3>1 DEF CacheInv, PagesNeverGoBack, At
  <2>8. ServedOnceServedAlways'
    BY <2>1, <2>2 DEF CacheInv, ServedOnceServedAlways, At
  <2>9. QED BY <2>4, <2>6, <2>7, <2>8 DEF CacheInv
<1>7. ASSUME NEW r \in Requests, FetchFails(r) PROVE CacheInv'
  <2>1. lock = r
    BY <1>7 DEF FetchFails, CacheInv, Exclusive, At
  <2>2. PICK v : Answer(r, v, TRUE) /\ v = IF HasContent THEN content ELSE 0
    BY <1>7, Zenon DEF FetchFails
  <2>2a. (HasContent /\ v = content) \/ (~HasContent /\ v = 0)
    BY <2>2, Zenon
  <2>3. content' = content /\ age' = age /\ source' = source /\ lock' = Nobody
    BY <1>7 DEF FetchFails, Unlock, copy
  <2>4. QED BY <2>1, <2>2, <2>2a, <2>3, AnswerFromCopy, Zenon
<1>8. CASE Publish
  BY <1>8 DEF Publish, copy, history, CacheInv, Exclusive, FetchesOnlyWhenExpired, Fetching, At, Fresh,
              HasContent, Ordered, PagesNeverGoBack, ServedOnceServedAlways, CacheTypeOK, Versions, Request
<1>9. CASE Tick
  <2>1. FetchesOnlyWhenExpired'
    BY <1>9 DEF Tick, CacheInv, FetchesOnlyWhenExpired, Fetching, At, Fresh, HasContent, CacheTypeOK
  <2>2. QED
    BY <1>9, <2>1 DEF Tick, CacheInv, Exclusive, At, Ordered, PagesNeverGoBack, ServedOnceServedAlways
<1>10. CASE UNCHANGED cacheVars
  BY <1>10 DEF cacheVars, CacheInv, Exclusive, FetchesOnlyWhenExpired, Fetching, At, Fresh,
               HasContent, Ordered, PagesNeverGoBack, ServedOnceServedAlways
<1>11. QED
  BY <1>1, <1>2, <1>3, <1>4, <1>5, <1>6, <1>7, <1>8, <1>9, <1>10 DEF CacheNext, Get

\* The invariant of the cache, for any number of overlapping requests.
LEMMA CacheIsSound == CacheSpec => []CacheInv
<1>1. CacheInit => CacheInv
  BY CacheAssumption DEF CacheAssumption, CacheInit, Idle, Versions, CacheInv, Exclusive, FetchesOnlyWhenExpired, Fetching, At,
                         Ordered, PagesNeverGoBack, ServedOnceServedAlways
<1>2. QED BY <1>1, CacheStep, CacheTypeCorrect, PTL DEF CacheSpec

\* Nobody sees the page go back: whoever is answered after somebody else was gets a page
\* that is no older.
THEOREM PagesAdvance == CacheSpec => []PagesNeverGoBack
<1>1. CacheInv => PagesNeverGoBack
  BY DEF CacheInv
<1>2. QED BY <1>1, CacheIsSound, PTL

\* Nobody asks the source while the copy could be served, however many wait for the lock.
THEOREM NoFetchWithoutNeed == CacheSpec => []FetchesOnlyWhenExpired
<1>1. CacheInv => FetchesOnlyWhenExpired
  BY DEF CacheInv
<1>2. QED BY <1>1, CacheIsSound, PTL

\* Once somebody was answered with a page nobody is refused, whatever fails, until the source
\* serves an empty page.
THEOREM NobodyIsRefused == CacheSpec => []ServedOnceServedAlways
<1>1. CacheInv => ServedOnceServedAlways
  BY DEF CacheInv
<1>2. QED BY <1>1, CacheIsSound, PTL

--------------------------------------------------------------------------------
\* How long ago the source had what is in the cache or on its way there.
Recency ==
    /\ \A v \in Versions : v >= source => gone[v] = 0
    /\ \A r \in Requests : At(r, "body") => gone[req[r].page] <= spent
    /\ content # 0 /\ age < TTL => gone[content] <= MaxFetch + age

LEMMA RecencyStep == CacheTypeOK /\ CacheInv /\ Recency /\ [CacheNext]_cacheVars => Recency'
<1> SUFFICES ASSUME CacheTypeOK, CacheInv, Recency, [CacheNext]_cacheVars PROVE Recency'
  OBVIOUS
<1> USE CacheAssumption DEF CacheAssumption
\* A request that moves anywhere but to "body", next to an unchanged copy.
<1>a. ASSUME NEW r \in Requests, req'[r].pc # "body", \A q \in Requests \ {r} : req'[q] = req[q],
             UNCHANGED <<content, age, source, spent, gone>>
      PROVE  Recency'
  BY <1>a DEF Recency, At
<1>1. ASSUME NEW r \in Requests, Ask(r) PROVE Recency'
  <2>1. req'[r].pc = "look" /\ \A q \in Requests \ {r} : req'[q] = req[q]
    BY <1>1 DEF Ask, CacheTypeOK, Idle
  <2>2. QED BY <1>1, <2>1, <1>a DEF Ask, copy, history
<1>2. ASSUME NEW r \in Requests, ReadCached(r) PROVE Recency'
  <2>1. req'[r].pc # "body" /\ \A q \in Requests \ {r} : req'[q] = req[q]
    <3>1. Answer(r, content, FALSE) \/ Goto(r, "lock")
      BY <1>2, Zenon DEF ReadCached
    <3>2. QED BY <3>1, AnswerFields, GotoFields DEF Pcs
  <2>2. QED BY <1>2, <2>1, <1>a DEF ReadCached, copy
<1>3. ASSUME NEW r \in Requests, TakeLock(r) PROVE Recency'
  <2>1. req'[r].pc # "body" /\ \A q \in Requests \ {r} : req'[q] = req[q]
    BY <1>3, GotoFields DEF TakeLock, Pcs
  <2>2. QED BY <1>3, <2>1, <1>a DEF TakeLock, copy, history
<1>4. ASSUME NEW r \in Requests, CheckAgain(r) PROVE Recency'
  <2>1. req'[r].pc # "body" /\ \A q \in Requests \ {r} : req'[q] = req[q]
    <3>1. Answer(r, content, FALSE) \/ Goto(r, "fetch")
      BY <1>4, Zenon DEF CheckAgain
    <3>2. QED BY <3>1, AnswerFields, GotoFields DEF Pcs
  \* Nobody else is fetching.
  <2>2. \A q \in Requests : ~At(q, "body")
    BY <1>4 DEF CheckAgain, CacheInv, Exclusive, At
  <2>3. \A q \in Requests : req'[q].pc # "body"
    BY <2>1, <2>2 DEF At
  <2>4. UNCHANGED <<content, age, source, gone>>
    BY <1>4 DEF CheckAgain, copy
  <2>5. QED BY <2>3, <2>4 DEF Recency, At
<1>5. ASSUME NEW r \in Requests, Respond(r) PROVE Recency'
  <2>1. /\ req'[r].page = source
        /\ \A q \in Requests \ {r} : req'[q] = req[q]
        /\ UNCHANGED <<content, age, source, spent, gone>>
    BY <1>5 DEF Respond, CacheTypeOK, Request, copy, history
  <2>2. gone[source] = 0
    BY DEF Recency, CacheTypeOK, Versions
  <2>3. spent >= 0
    BY DEF CacheTypeOK
  <2>4. QED BY <2>1, <2>2, <2>3 DEF Recency, At
<1>6. ASSUME NEW r \in Requests, Store(r) PROVE Recency'
  <2>1. /\ req'[r].pc = "answered" /\ \A q \in Requests \ {r} : req'[q] = req[q]
        /\ content' = req[r].page /\ age' = 0 /\ UNCHANGED <<source, spent, gone>>
    BY <1>6, AnswerFields DEF Store
  <2>2. gone[req[r].page] <= spent /\ req[r].page # 0
    BY <1>6 DEF Store, Recency, CacheInv, Ordered
  <2>3. spent <= MaxFetch /\ spent \in Int /\ gone[req[r].page] \in Int
    BY <2>2 DEF CacheTypeOK, Request
  <2>4. QED BY <2>1, <2>2, <2>3 DEF Recency, At
<1>7. ASSUME NEW r \in Requests, FetchFails(r) PROVE Recency'
  <2>1. PICK v : Answer(r, v, TRUE)
    BY <1>7, Zenon DEF FetchFails
  <2>2. req'[r].pc # "body" /\ \A q \in Requests \ {r} : req'[q] = req[q]
    BY <2>1, AnswerFields
  <2>3. QED BY <1>7, <2>2, <1>a DEF FetchFails, copy
<1>8. CASE Publish
  BY <1>8 DEF Publish, Recency, At, copy, history, CacheTypeOK, Versions
<1>9. CASE Tick
  <2>1. \A v \in Versions : v >= source => gone'[v] = 0
    BY <1>9 DEF Tick, Recency, CacheTypeOK, Versions
  <2>2. \A v \in Versions : gone[v] \in Int /\ gone'[v] \in Int /\ gone'[v] <= gone[v] + 1
    BY <1>9 DEF Tick, CacheTypeOK
  <2>3. ASSUME NEW r \in Requests, At(r, "body") PROVE gone'[req[r].page] <= spent'
    <3>1. spent' = spent + 1
      BY <1>9, <2>3, Zenon DEF Tick, Fetching
    <3>2. req[r].page \in Versions
      BY <2>3 DEF CacheInv, Ordered, CacheTypeOK, Request
    <3>3. gone[req[r].page] <= spent /\ spent \in Int
      BY <2>3 DEF Recency, CacheTypeOK
    <3>4. QED BY <2>2, <3>1, <3>2, <3>3
  <2>4. ASSUME content # 0, age' < TTL PROVE gone'[content] <= MaxFetch + age'
    <3>1. age \in Int /\ age < TTL /\ age' = age + 1
      BY <1>9, <2>4 DEF Tick, CacheTypeOK
    <3>2. content \in Versions /\ gone[content] <= MaxFetch + age
      BY <2>4, <3>1 DEF Recency, CacheTypeOK
    <3>3. QED BY <2>2, <3>1, <3>2
  <2>5. UNCHANGED <<content, req, source>>
    BY <1>9 DEF Tick
  <2>6. QED BY <2>1, <2>3, <2>4, <2>5 DEF Recency, At
<1>10. CASE UNCHANGED cacheVars
  BY <1>10 DEF cacheVars, Recency, At
<1>11. QED
  BY <1>1, <1>2, <1>3, <1>4, <1>5, <1>6, <1>7, <1>8, <1>9, <1>10 DEF CacheNext, Get

\* Whoever is answered without a failed refresh gets a page the source had less than
\* the TTL and one fetch ago, for any TTL and time limit.
THEOREM AnswersAreRecent == CacheSpec => PagesAreRecent
<1> DEFINE Recent ==
      \A r \in Requests :
          (~At(r, "answered") /\ req'[r].pc = "answered" /\ ~req'[r].failed) =>
              gone[req'[r].page] < Longest
<1>1. CacheInit => CacheInv
  BY CacheAssumption DEF CacheAssumption, CacheInit, Idle, Versions, CacheInv, Exclusive, FetchesOnlyWhenExpired, Fetching, At,
                         Ordered, PagesNeverGoBack, ServedOnceServedAlways
<1>2. CacheInit => Recency
  BY CacheAssumption DEF CacheAssumption, CacheInit, Recency, Idle, At
<1>3. CacheTypeOK /\ CacheInv /\ Recency /\ [CacheNext]_cacheVars => [Recent]_cacheVars
  <2> SUFFICES ASSUME CacheTypeOK, CacheInv, Recency, CacheNext,
                      NEW r \in Requests, ~At(r, "answered"), req'[r].pc = "answered", ~req'[r].failed
               PROVE  gone[req'[r].page] < Longest
    BY Zenon
  <2> USE CacheAssumption DEF CacheAssumption
  \* The copy, or what was just fetched.
  <2>1. Fresh => gone[content] < Longest
    <3>1. Fresh => gone[content] <= MaxFetch + age /\ age < TTL /\ content \in Versions
      BY DEF Recency, Fresh, HasContent, CacheTypeOK
    <3>2. Fresh => gone[content] \in Int
      BY <3>1 DEF CacheTypeOK
    <3>3. QED BY <3>1, <3>2 DEF CacheTypeOK, Longest
  <2>2. ASSUME NEW q \in Requests, q # r,
               req'[r] = req[r]
        PROVE  FALSE
    BY <2>2 DEF At
  <2>3. ASSUME NEW q \in Requests, Ask(q) PROVE gone[req'[r].page] < Longest
    <3>1. req'[q].pc = "look" /\ \A x \in Requests \ {q} : req'[x] = req[x]
      BY <2>3 DEF Ask, CacheTypeOK, Idle
    <3>2. QED BY <3>1, <2>2
  <2>4. ASSUME NEW q \in Requests, ReadCached(q) \/ CheckAgain(q) PROVE gone[req'[r].page] < Longest
    <3>1. \/ Fresh /\ Answer(q, content, FALSE)
          \/ \E pc \in {"lock", "fetch"} : Goto(q, pc)
      BY <2>4, Zenon DEF ReadCached, CheckAgain
    <3>2. CASE Fresh /\ Answer(q, content, FALSE)
      <4>1. req'[q].page = content /\ \A x \in Requests \ {q} : req'[x] = req[x]
        BY <3>2, AnswerFields
      <4>2. QED BY <3>2, <4>1, <2>1, <2>2
    <3>3. CASE \E pc \in {"lock", "fetch"} : Goto(q, pc)
      <4>1. req'[q].pc # "answered" /\ \A x \in Requests \ {q} : req'[x] = req[x]
        BY <3>3, GotoFields DEF Pcs
      <4>2. QED BY <4>1, <2>2
    <3>4. QED BY <3>1, <3>2, <3>3
  <2>5. ASSUME NEW q \in Requests, TakeLock(q) PROVE gone[req'[r].page] < Longest
    <3>1. req'[q].pc # "answered" /\ \A x \in Requests \ {q} : req'[x] = req[x]
      BY <2>5, GotoFields DEF TakeLock, Pcs
    <3>2. QED BY <3>1, <2>2
  <2>6. ASSUME NEW q \in Requests, Respond(q) PROVE gone[req'[r].page] < Longest
    <3>1. req'[q].pc = "body" /\ \A x \in Requests \ {q} : req'[x] = req[x]
      BY <2>6 DEF Respond, CacheTypeOK, Request
    <3>2. QED BY <3>1, <2>2
  <2>7. ASSUME NEW q \in Requests, Store(q) PROVE gone[req'[r].page] < Longest
    <3>1. req'[q].page = req[q].page /\ \A x \in Requests \ {q} : req'[x] = req[x]
      BY <2>7, AnswerFields DEF Store
    <3>2. gone[req[q].page] <= spent /\ req[q].page # 0
      BY <2>7 DEF Store, Recency, CacheInv, Ordered
    <3>3. spent <= MaxFetch /\ spent \in Int /\ gone[req[q].page] \in Int
      BY <3>2 DEF CacheTypeOK, Request
    <3>4. gone[req[q].page] < Longest
      BY <3>2, <3>3 DEF Longest
    <3>5. QED BY <3>1, <3>4, <2>2
  <2>8. ASSUME NEW q \in Requests, FetchFails(q) PROVE gone[req'[r].page] < Longest
    <3>1. PICK v : Answer(q, v, TRUE)
      BY <2>8, Zenon DEF FetchFails
    <3>2. req'[q].failed = TRUE /\ \A x \in Requests \ {q} : req'[x] = req[x]
      BY <3>1 DEF Answer, CacheTypeOK, Request
    <3>3. QED BY <3>2, <2>2
  <2>9. CASE Publish \/ Tick
    BY <2>9 DEF Publish, Tick, At
  <2>10. QED
    BY <2>3, <2>4, <2>5, <2>6, <2>7, <2>8, <2>9 DEF CacheNext, Get
<1>4. QED
  BY <1>1, <1>2, <1>3, CacheStep, RecencyStep, CacheTypeCorrect, PTL DEF CacheSpec, PagesAreRecent
================================================================================
