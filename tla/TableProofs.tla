------------------------------ MODULE TableProofs -------------------------------
(***************************************************************************)
(* Theorems about the dashboard's two tables and the requests that write   *)
(* them side by side.  Of OutageStore, for any number of outages, requests, *)
(* users and PATCH bodies: the invariant is TypeOK, RequestsKnowTheirOutage  *)
(* (a request that is past its first read works on an id that was handed     *)
(* out) and the properties of the audit log.  Of PingUpsert, for any     *)
(* number of overlapping reports, any sub-components and any reports.  The   *)
(* two share no state.                                                       *)
(***************************************************************************)
EXTENDS SerialRequests, PingUpsert, TLAPS

--------------------------------------------------------------------------------
(***************************************************************************)
(* OutageStore.                                                             *)
(***************************************************************************)
Active(p) == req[p] # Idle

RequestsKnowTheirOutage ==
    \A p \in Procs : req[p] # Idle => outages[req[p].target] # NoRow

\* Editing a copy of a row, either way, yields a row.
LEMMA EditsAreRows ==
    ASSUME NEW row \in Row, NEW patch \in Patch
    PROVE  ApplyPatch(row, patch) \in Row /\ Resolved(row) \in Row
<1>1. PICK F \in SUBSET Fields : patch \in [F -> Values]
  BY DEF Patch
<1>2. ApplyPatch(row, patch) \in Row
  BY <1>1 DEF ApplyPatch, Row
<1>3. Resolved(row) \in Row
  BY DEF Resolved, Row, Values
<1> QED
  BY <1>2, <1>3

\* A request that is not idle is a request on an outage.
LEMMA ActiveIsRequest ==
    ASSUME TypeOK, NEW p \in Procs, req[p].pc # "idle" \/ req[p] # Idle
    PROVE  req[p] \in Request
  BY DEF TypeOK, Idle

\* One more well-formed entry leaves the audit log well-formed.
LEMMA LogType ==
    ASSUME TypeOK, NEW i \in Ids, NEW op \in {"CREATE", "UPDATE", "DELETE"}, NEW u \in Users,
           NEW old \in Row \cup {NoRow}, NEW new \in Row \cup {NoRow}, Log(i, op, u, old, new)
    PROVE  audit' \in [Ids -> Seq(AuditEntry)]
<1> DEFINE e == [op |-> op, user |-> u, old |-> old, new |-> new]
<1>1. e \in AuditEntry
  BY DEF AuditEntry
<1>2. audit[i] \in Seq(AuditEntry)
  BY DEF TypeOK
<1>3. Append(audit[i], e) \in Seq(AuditEntry)
  BY <1>1, <1>2
<1>4. audit' = [audit EXCEPT ![i] = Append(audit[i], e)]
  BY DEF Log
<1> QED
  BY <1>3, <1>4 DEF TypeOK

\* A request stays a request when it moves on, with or without a captured row.
LEMMA MovedRequest ==
    ASSUME NEW r \in Request, NEW b \in Row \cup {NoRow},
           NEW to \in {"manager", "beforeUpdate", "update", "beforeDelete", "delete"}
    PROVE  [r EXCEPT !.pc = to] \in Request /\ [r EXCEPT !.pc = to, !.before = b] \in Request
  BY DEF Request

LEMMA TypeInit == Init => TypeOK
  BY DEF Init, TypeOK

LEMMA TypeStep == TypeOK /\ [Next]_vars => TypeOK'
<1> SUFFICES ASSUME TypeOK, [Next]_vars PROVE TypeOK'
  OBVIOUS
<1> USE StoreAssumption
<1>1. ASSUME NEW i \in Ids, NEW u \in Users, NEW row \in NewOutages, CreateOutage(i, u, row)
      PROVE  TypeOK'
  <2>1. row \in Row
    BY <1>1
  <2>2. audit' \in [Ids -> Seq(AuditEntry)]
    BY <1>1, <2>1, LogType DEF CreateOutage
  <2> QED
    BY <1>1, <2>1, <2>2 DEF CreateOutage, TypeOK
<1>2. ASSUME NEW p \in Procs, NEW i \in Ids, NEW u \in Users, Start(p) PROVE TypeOK'
  <2>1. ASSUME NEW j \in Ids, NEW w \in Users, NEW patch \in Patches, LoadForPatch(p, j, w, patch)
        PROVE  TypeOK'
    <3>1. outages[j] \in Row /\ patch \in Patch
      BY <2>1 DEF LoadForPatch, Live, TypeOK
    <3>2. ApplyPatch(outages[j], patch) \in Row
      BY <3>1, EditsAreRows
    <3>3. DOMAIN patch \in SUBSET Fields
      BY <3>1 DEF Patch
    <3> QED
      BY <2>1, <3>2, <3>3 DEF LoadForPatch, Take, TypeOK, Request
  <2>2. ASSUME NEW j \in Ids, NEW w \in Users, LoadForResolve(p, j, w) PROVE TypeOK'
    <3>1. outages[j] \in Row
      BY <2>2 DEF LoadForResolve, Live, TypeOK
    <3>2. Resolved(outages[j]) \in Row
      BY <3>1 DEF Resolved, Row, Values
    <3> QED
      BY <2>2, <3>2 DEF LoadForResolve, Take, TypeOK, Request, Fields
  <2>3. ASSUME NEW j \in Ids, NEW w \in Users, LoadForDelete(p, j, w) PROVE TypeOK'
    <3>1. outages[j] \in Row
      BY <2>3 DEF LoadForDelete, Live, TypeOK
    <3> QED
      BY <2>3, <3>1 DEF LoadForDelete, Take, TypeOK, Request
  <2> QED
    BY <1>2, <2>1, <2>2, <2>3 DEF Start
<1>3. ASSUME NEW p \in Procs, ManagerLoad(p) PROVE TypeOK'
  <2>1. req[p] \in Request
    BY <1>3, ActiveIsRequest DEF ManagerLoad
  <2>2. [req[p] EXCEPT !.pc = "beforeUpdate"] \in Request
    BY <2>1, MovedRequest
  <2>3. req' = [req EXCEPT ![p] = [req[p] EXCEPT !.pc = "beforeUpdate"]] \/ req' = [req EXCEPT ![p] = Idle]
    BY <1>3 DEF ManagerLoad, Goto, Finish
  <2> QED
    BY <1>3, <2>2, <2>3 DEF ManagerLoad, TypeOK
<1>4. ASSUME NEW p \in Procs, NEW to \in {"update", "delete"}, CaptureOld(p, to),
             req[p] \in Request
      PROVE  TypeOK'
  <2> DEFINE row == outages[req[p].target]
             moved == [req[p] EXCEPT !.pc = to, !.before = row]
  <2>1. row \in Row \cup {NoRow}
    BY <1>4 DEF TypeOK, Request
  <2>2. moved \in Request
    BY <1>4, <2>1, MovedRequest
  <2>3. req' = [req EXCEPT ![p] = moved] \/ req' = [req EXCEPT ![p] = Idle]
    BY <1>4 DEF CaptureOld, Finish
  <2> QED
    BY <1>4, <2>2, <2>3 DEF CaptureOld, TypeOK
<1>5. ASSUME NEW p \in Procs, SaveOutage(p) PROVE TypeOK'
  <2>1. req[p] \in Request
    BY <1>5, ActiveIsRequest DEF SaveOutage
  <2>2. audit' \in [Ids -> Seq(AuditEntry)]
    <3>1. req[p].target \in Ids /\ req[p].user \in Users /\ req[p].draft \in Row
          /\ req[p].before \in Row \cup {NoRow}
      BY <2>1 DEF Request
    <3>2. CASE Live(req[p].target)
      BY <1>5, <3>1, <3>2, LogType DEF SaveOutage
    <3>3. CASE ~Live(req[p].target)
      BY <1>5, <3>3 DEF SaveOutage, TypeOK
    <3> QED
      BY <3>2, <3>3
  <2> QED
    BY <1>5, <2>1, <2>2 DEF SaveOutage, Finish, TypeOK, Request
<1>6. ASSUME NEW p \in Procs, DeleteOutage(p) PROVE TypeOK'
  <2>1. req[p] \in Request
    BY <1>6, ActiveIsRequest DEF DeleteOutage
  <2>2. audit' \in [Ids -> Seq(AuditEntry)]
    <3>1. req[p].target \in Ids /\ req[p].user \in Users /\ req[p].before \in Row \cup {NoRow}
      BY <2>1 DEF Request
    <3> QED
      BY <1>6, <3>1, LogType DEF DeleteOutage
  <2> QED
    BY <1>6, <2>1, <2>2 DEF DeleteOutage, Finish, TypeOK, Request
<1>7. ASSUME NEW p \in Procs, Abort(p) PROVE TypeOK'
  BY <1>7 DEF Abort, Finish, TypeOK
<1>8. CASE UNCHANGED vars
  BY <1>8 DEF vars, TypeOK
<1>9. ASSUME NEW p \in Procs, Step(p) PROVE TypeOK'
  <2>1. CASE BeforeUpdate(p)
    BY <2>1, <1>4, ActiveIsRequest DEF BeforeUpdate
  <2>2. CASE BeforeDelete(p)
    BY <2>2, <1>4, ActiveIsRequest DEF BeforeDelete
  <2> QED
    BY <1>9, <1>3, <1>5, <1>6, <2>1, <2>2 DEF Step
<1> QED
  BY <1>1, <1>2, <1>7, <1>8, <1>9 DEF Next, Start

\* The state of the store and of its requests keeps its shape.
THEOREM TypeCorrect == Spec => []TypeOK
  BY TypeInit, TypeStep, PTL DEF Spec

--------------------------------------------------------------------------------
(***************************************************************************)
(* The audit log.  Every step either leaves table and log alone, or is one *)
(* of three: a creation, a save of a live row, a deletion.  The lemma        *)
(* StepKinds says so once, and the properties of the log, finality of       *)
(* deletion and the refinement all follow from it.                          *)
(***************************************************************************)

Quiet == UNCHANGED <<outages, deleted, audit>>

Creates(i) ==
    /\ outages[i] = NoRow
    /\ \E u \in Users, row \in Row :
          /\ outages' = [outages EXCEPT ![i] = row]
          /\ Log(i, "CREATE", u, NoRow, row)
    /\ UNCHANGED deleted

Saves(i) ==
    /\ Live(i)
    /\ \E u \in Users, old \in Row \cup {NoRow}, row \in Row :
          /\ outages' = [outages EXCEPT ![i] = row]
          /\ Log(i, "UPDATE", u, old, row)
    /\ UNCHANGED deleted

Deletes(i) ==
    /\ outages[i] # NoRow
    /\ deleted' = deleted \cup {i}
    /\ \E u \in Users, old \in Row \cup {NoRow} : Log(i, "DELETE", u, old, NoRow)
    /\ UNCHANGED outages

LEMMA StepKinds ==
    ASSUME TypeOK, RequestsKnowTheirOutage, [Next]_vars
    PROVE  Quiet \/ \E i \in Ids : Creates(i) \/ Saves(i) \/ Deletes(i)
<1> USE StoreAssumption
<1>1. ASSUME NEW i \in Ids, NEW u \in Users, NEW row \in NewOutages, CreateOutage(i, u, row)
      PROVE  Creates(i)
  <2>1. row \in Row
    OBVIOUS
  <2> QED
    BY <1>1, <2>1 DEF CreateOutage, Creates
<1>2. ASSUME NEW p \in Procs, Start(p) PROVE Quiet
  BY <1>2 DEF Start, LoadForPatch, LoadForResolve, LoadForDelete, Take, Quiet
<1>3. ASSUME NEW p \in Procs, ManagerLoad(p) \/ BeforeUpdate(p) \/ BeforeDelete(p) \/ Abort(p)
      PROVE  Quiet
  BY <1>3 DEF ManagerLoad, BeforeUpdate, BeforeDelete, CaptureOld, Abort, Quiet
<1>4. ASSUME NEW p \in Procs, SaveOutage(p)
      PROVE  Quiet \/ \E i \in Ids : Saves(i)
  <2>1. req[p] \in Request
    BY <1>4, ActiveIsRequest DEF SaveOutage
  <2>2. req[p].target \in Ids /\ req[p].user \in Users /\ req[p].draft \in Row
        /\ req[p].before \in Row \cup {NoRow}
    BY <2>1 DEF Request
  <2>3. CASE Live(req[p].target)
    <3>1. Saves(req[p].target)
      BY <1>4, <2>2, <2>3 DEF SaveOutage, Saves
    <3> QED
      BY <2>2, <3>1
  <2>4. CASE ~Live(req[p].target)
    BY <1>4, <2>4 DEF SaveOutage, Quiet
  <2> QED
    BY <2>3, <2>4
<1>5. ASSUME NEW p \in Procs, DeleteOutage(p)
      PROVE  \E i \in Ids : Deletes(i)
  <2>1. req[p] \in Request
    BY <1>5, ActiveIsRequest DEF DeleteOutage
  <2>2. req[p].target \in Ids /\ req[p].user \in Users /\ req[p].before \in Row \cup {NoRow}
    BY <2>1 DEF Request
  <2>3. req[p] # Idle
    BY <1>5 DEF DeleteOutage, Idle
  <2>4. outages[req[p].target] # NoRow
    BY <2>3 DEF RequestsKnowTheirOutage
  <2>5. Deletes(req[p].target)
    BY <1>5, <2>2, <2>4 DEF DeleteOutage, Deletes
  <2> QED
    BY <2>2, <2>5
<1>6. CASE UNCHANGED vars
  BY <1>6 DEF vars, Quiet
<1> QED
  BY <1>1, <1>2, <1>3, <1>4, <1>5, <1>6 DEF Next, Step

LEMMA RequestsInit == Init => RequestsKnowTheirOutage
  BY DEF Init, RequestsKnowTheirOutage

\* Rows are never forgotten, and a request settles only on a row it has read.
LEMMA RequestsStep ==
    TypeOK /\ RequestsKnowTheirOutage /\ [Next]_vars => RequestsKnowTheirOutage'
<1> SUFFICES ASSUME TypeOK, RequestsKnowTheirOutage, [Next]_vars, NEW q \in Procs, req'[q] # Idle
             PROVE  outages'[req'[q].target] # NoRow
  BY DEF RequestsKnowTheirOutage
<1> USE StoreAssumption
<1>1. \A i \in Ids : outages[i] # NoRow => outages'[i] # NoRow
  BY StepKinds DEF Quiet, Creates, Saves, Deletes, TypeOK
<1> DEFINE Same == req[q] # Idle /\ req'[q].target = req[q].target
           Fresh == \E i \in Ids : Live(i) /\ req'[q].target = i
<1>2. Same \/ Fresh
  <2>1. CASE req' = req
    BY <2>1
  <2>2. ASSUME NEW p \in Procs, Start(p)
        PROVE  Same \/ Fresh
    <3>1. PICK i, r : i \in Ids /\ Live(i) /\ r.target = i /\ req' = [req EXCEPT ![p] = r]
      <4>1. ASSUME NEW i, NEW u, NEW d, NEW fields, NEW label, Take(p, i, u, d, fields, label)
            PROVE  \E r : r.target = i /\ req' = [req EXCEPT ![p] = r]
        <5> DEFINE r == [pc |-> label, target |-> i, user |-> u, draft |-> d,
                         provided |-> fields, before |-> NoRow]
        <5>1. r.target = i /\ req' = [req EXCEPT ![p] = r]
          BY <4>1 DEF Take
        <5> QED
          BY <5>1
      <4>2. \E i, u, d, fields, label : i \in Ids /\ Live(i) /\ Take(p, i, u, d, fields, label)
        BY <2>2, Zenon DEF Start, LoadForPatch, LoadForResolve, LoadForDelete
      <4> QED
        BY <4>1, <4>2
    <3>2. req'[q] = r \/ (req'[q] = req[q] /\ q # p)
      BY <3>1 DEF TypeOK
    <3> QED
      BY <3>1, <3>2
  <2>3. ASSUME NEW p \in Procs, Step(p) \/ Abort(p)
        PROVE  Same
    <3>1. req[p] # Idle
      BY <2>3 DEF Step, Abort, ManagerLoad, BeforeUpdate, BeforeDelete, SaveOutage, DeleteOutage, Idle
    <3>2. req[p] \in Request
      BY <3>1, ActiveIsRequest
    <3>3. \/ req' = [req EXCEPT ![p] = Idle]
          \/ \E r : r.target = req[p].target /\ req' = [req EXCEPT ![p] = r]
      <4>1. ASSUME NEW to, CaptureOld(p, to)
            PROVE  <3>3
        <5> DEFINE r == [req[p] EXCEPT !.pc = to, !.before = outages[req[p].target]]
        <5>1. r.target = req[p].target
          BY <3>2 DEF Request
        <5>2. req' = [req EXCEPT ![p] = r] \/ req' = [req EXCEPT ![p] = Idle]
          BY <4>1 DEF CaptureOld, Finish
        <5> QED
          BY <5>1, <5>2
      <4>2. ASSUME ManagerLoad(p)
            PROVE  <3>3
        <5> DEFINE r == [req[p] EXCEPT !.pc = "beforeUpdate"]
        <5>1. r.target = req[p].target
          BY <3>2 DEF Request
        <5>2. req' = [req EXCEPT ![p] = r] \/ req' = [req EXCEPT ![p] = Idle]
          BY <4>2 DEF ManagerLoad, Goto, Finish
        <5> QED
          BY <5>1, <5>2
      <4> QED
        BY <2>3, <4>1, <4>2 DEF Step, Abort, BeforeUpdate, BeforeDelete, SaveOutage, DeleteOutage, Finish
    <3> QED
      BY <3>1, <3>3 DEF TypeOK
  <2> QED
    BY <2>1, <2>2, <2>3 DEF Next, vars, CreateOutage
<1>3. req[q] # Idle => req[q].target \in Ids /\ outages[req[q].target] # NoRow
  BY ActiveIsRequest DEF RequestsKnowTheirOutage, Request
<1> QED
  BY <1>1, <1>2, <1>3 DEF Live

LogInv == TypeOK /\ RequestsKnowTheirOutage /\ AuditMirrorsRow /\ NothingAfterDelete

\* What appending one entry to the log of outage i does to every log.
Grew(i, op, u, old, new) ==
    /\ \A j \in Ids : j # i => audit'[j] = audit[j]
    /\ Len(audit[i]) \in Nat
    /\ Len(audit'[i]) = Len(audit[i]) + 1
    /\ \A k \in 1..Len(audit[i]) : audit'[i][k] = audit[i][k]
    /\ audit'[i][Len(audit[i]) + 1] = [op |-> op, user |-> u, old |-> old, new |-> new]

LEMMA LogGrows ==
    ASSUME TypeOK, NEW i \in Ids, NEW op, NEW u, NEW old, NEW new, Log(i, op, u, old, new)
    PROVE  Grew(i, op, u, old, new)
<1> DEFINE e == [op |-> op, user |-> u, old |-> old, new |-> new]
<1>1. audit[i] \in Seq(AuditEntry)
  BY DEF TypeOK
<1>2. audit' = [audit EXCEPT ![i] = Append(audit[i], e)]
  BY DEF Log
<1>3. audit'[i] = Append(audit[i], e) /\ \A j \in Ids : j # i => audit'[j] = audit[j]
  BY <1>2 DEF TypeOK
<1> HIDE DEF e
<1>4. /\ Len(audit[i]) \in Nat
      /\ Len(Append(audit[i], e)) = Len(audit[i]) + 1
      /\ \A k \in 1..Len(audit[i]) : Append(audit[i], e)[k] = audit[i][k]
      /\ Append(audit[i], e)[Len(audit[i]) + 1] = e
  BY <1>1
<1> QED
  BY <1>3, <1>4 DEF e, Grew

LEMMA LogInit == Init => AuditMirrorsRow /\ NothingAfterDelete
  BY DEF Init, AuditMirrorsRow, Mirrors, NothingAfterDelete, ClosedByDelete

LEMMA MirrorsStep == LogInv /\ [Next]_vars => AuditMirrorsRow'
<1> SUFFICES ASSUME LogInv, [Next]_vars, NEW j \in Ids PROVE Mirrors(j)'
  BY DEF AuditMirrorsRow
<1>t. TypeOK /\ Mirrors(j)
  BY DEF LogInv, AuditMirrorsRow
<1>u. ASSUME audit'[j] = audit[j], outages'[j] = outages[j] PROVE Mirrors(j)'
  BY <1>t, <1>u DEF Mirrors, LastRewrite
<1>1. CASE Quiet
  BY <1>1, <1>u DEF Quiet
<1>2. ASSUME NEW i \in Ids, Creates(i) PROVE Mirrors(j)'
  <2>1. PICK u \in Users, row \in Row :
            /\ outages' = [outages EXCEPT ![i] = row]
            /\ Log(i, "CREATE", u, NoRow, row)
    BY <1>2 DEF Creates
  <2>2. CASE j # i
    BY <1>t, <1>u, <2>1, <2>2, LogGrows DEF TypeOK, Grew
  <2>3. CASE j = i
    <3>1. Len(audit[j]) = 0
      BY <1>2, <1>t, <2>3 DEF Creates, Mirrors
    <3>0. Grew(i, "CREATE", u, NoRow, row)
      BY <1>t, <2>1, LogGrows
    <3>2. Len(audit'[j]) = 1 /\ audit'[j][1] = [op |-> "CREATE", user |-> u, old |-> NoRow, new |-> row]
      BY <2>3, <3>0, <3>1 DEF Grew
    <3>3. outages'[j] = row /\ row # NoRow
      BY <1>t, <2>1, <2>3, StoreAssumption DEF TypeOK
    <3>4. audit'[j] # <<>>
      BY <3>2
    <3> QED
      BY <3>2, <3>3, <3>4 DEF Mirrors
  <2> QED
    BY <2>2, <2>3
<1>3. ASSUME NEW i \in Ids, NEW op \in {"UPDATE", "DELETE"}, NEW u, NEW old, NEW new,
             Log(i, op, u, old, new), outages[i] # NoRow,
             outages'[i] # NoRow, \A h \in Ids : h # i => outages'[h] = outages[h],
             IF op = "UPDATE" THEN outages'[i] = new ELSE outages'[i] = outages[i]
      PROVE  Mirrors(j)'
  <2>1. CASE j # i
    BY <1>t, <1>u, <1>3, <2>1, LogGrows DEF Grew
  <2>2. CASE j = i
    <3> DEFINE n == Len(audit[j])
    <3>0. Grew(i, op, u, old, new)
      BY <1>t, <1>3, LogGrows
    <3>1. /\ n \in Nat
          /\ Len(audit'[j]) = n + 1
          /\ \A k \in 1..n : audit'[j][k] = audit[j][k]
          /\ audit'[j][n + 1].op = op /\ audit'[j][n + 1].new = new
      BY <2>2, <3>0 DEF Grew
    <3>2. audit[j] # <<>>
      BY <1>t, <1>3, <2>2 DEF Mirrors
    <3>3. n > 0
      BY <1>t, <3>1, <3>2 DEF TypeOK
    <3>4. audit'[j] # <<>>
      BY <3>1, <3>3
    <3> HIDE DEF n
    <3>5. ASSUME NEW k \in 1..(n + 1)
          PROVE  (audit'[j][k].op = "CREATE") <=> (k = 1)
      BY <1>t, <1>3, <3>1, <3>3, <3>5 DEF Mirrors, n
    <3>6. ASSUME NEW k \in 1..(n + 1), LastRewrite(j, k)'
          PROVE  audit'[j][k].new = outages'[j]
      <4>1. CASE op = "UPDATE"
        BY <1>3, <2>2, <3>1, <3>6, <4>1 DEF LastRewrite
      <4>2. CASE op = "DELETE"
        <5>1. k \in 1..n
          BY <3>1, <3>6, <4>2 DEF LastRewrite
        <5>2. LastRewrite(j, k)
          BY <3>1, <3>6, <5>1 DEF LastRewrite, n
        <5> QED
          BY <1>t, <1>3, <2>2, <3>1, <4>2, <5>1, <5>2 DEF Mirrors, n
      <4> QED
        BY <4>1, <4>2
    <3> QED
      BY <1>3, <2>2, <3>1, <3>4, <3>5, <3>6 DEF Mirrors
  <2> QED
    BY <2>1, <2>2
<1>4. ASSUME NEW i \in Ids, Saves(i) PROVE Mirrors(j)'
  <2>1. PICK u \in Users, old \in Row \cup {NoRow}, row \in Row :
            /\ outages' = [outages EXCEPT ![i] = row]
            /\ Log(i, "UPDATE", u, old, row)
    BY <1>4 DEF Saves
  <2>2. /\ outages'[i] = row /\ outages'[i] # NoRow
        /\ \A h \in Ids : h # i => outages'[h] = outages[h]
    BY <1>t, <2>1, StoreAssumption DEF TypeOK
  <2>3. outages[i] # NoRow
    BY <1>4 DEF Saves, Live
  <2> QED
    BY <1>3, <2>1, <2>2, <2>3
<1>5. ASSUME NEW i \in Ids, Deletes(i) PROVE Mirrors(j)'
  <2>1. PICK u \in Users, old \in Row \cup {NoRow} : Log(i, "DELETE", u, old, NoRow)
    BY <1>5 DEF Deletes
  <2>2. outages[i] # NoRow /\ outages' = outages
    BY <1>5 DEF Deletes
  <2> QED
    BY <1>3, <2>1, <2>2
<1> QED
  BY <1>1, <1>2, <1>4, <1>5, StepKinds DEF LogInv

LEMMA NothingStep == LogInv /\ [Next]_vars => NothingAfterDelete'
<1> SUFFICES ASSUME LogInv, [Next]_vars, NEW j \in Ids PROVE ClosedByDelete(j)'
  BY DEF NothingAfterDelete
<1>t. TypeOK /\ ClosedByDelete(j)
  BY DEF LogInv, NothingAfterDelete
<1>u. ASSUME audit'[j] = audit[j], (j \in deleted') <=> (j \in deleted) PROVE ClosedByDelete(j)'
  BY <1>t, <1>u DEF ClosedByDelete
<1>1. CASE Quiet
  BY <1>1, <1>u DEF Quiet
<1>2. ASSUME NEW i \in Ids, NEW op \in {"CREATE", "UPDATE", "DELETE"}, NEW u, NEW old, NEW new,
             Log(i, op, u, old, new),
             op = "DELETE" \/ i \notin deleted,
             deleted' = IF op = "DELETE" THEN deleted \cup {i} ELSE deleted
      PROVE  ClosedByDelete(j)'
  <2>1. CASE j # i
    BY <1>t, <1>u, <1>2, <2>1, LogGrows DEF Grew
  <2>2. CASE j = i
    <3> DEFINE n == Len(audit[j])
    <3>0. Grew(i, op, u, old, new)
      BY <1>t, <1>2, LogGrows
    <3>1. /\ n \in Nat
          /\ Len(audit'[j]) = n + 1
          /\ \A k \in 1..n : audit'[j][k] = audit[j][k]
          /\ audit'[j][n + 1].op = op
      BY <2>2, <3>0 DEF Grew
    <3> HIDE DEF n
    <3>2. CASE op = "DELETE"
      <4>1. j \in deleted'
        BY <1>2, <2>2, <3>2
      <4>2. n + 1 \in 1..(n + 1)
        BY <3>1
      <4>3. ASSUME NEW k \in 1..(n + 1), NEW m \in 1..(n + 1), k < m, audit'[j][k].op = "DELETE"
            PROVE  audit'[j][m].op = "DELETE"
        <5>1. k \in 1..n /\ (m \in 1..n \/ m = n + 1)
          BY <3>1, <4>3
        <5>2. CASE m = n + 1
          BY <3>1, <3>2, <5>2
        <5>3. CASE m \in 1..n
          <6>1. audit'[j][k] = audit[j][k] /\ audit'[j][m] = audit[j][m]
            BY <3>1, <5>1, <5>3
          <6> QED
            BY <1>t, <4>3, <5>1, <5>3, <6>1 DEF ClosedByDelete, n
        <5> QED
          BY <5>1, <5>2, <5>3
      <4> QED
        BY <3>1, <3>2, <4>1, <4>2, <4>3 DEF ClosedByDelete
    <3>3. CASE op # "DELETE"
      <4>1. j \notin deleted /\ j \notin deleted'
        BY <1>2, <2>2, <3>3
      <4>2. \A k \in 1..n : audit[j][k].op # "DELETE"
        BY <1>t, <4>1 DEF ClosedByDelete, n
      <4>3. \A k \in 1..(n + 1) : audit'[j][k].op # "DELETE"
        BY <3>1, <3>3, <4>2
      <4> QED
        BY <3>1, <4>1, <4>3 DEF ClosedByDelete
    <3> QED
      BY <3>2, <3>3
  <2> QED
    BY <2>1, <2>2
<1>3. ASSUME NEW i \in Ids, Creates(i) PROVE ClosedByDelete(j)'
  <2>1. i \notin deleted
    BY <1>3 DEF Creates, LogInv, AuditMirrorsRow, Mirrors, NothingAfterDelete, ClosedByDelete
  <2> QED
    BY <1>2, <1>3, <2>1 DEF Creates
<1>4. ASSUME NEW i \in Ids, Saves(i) PROVE ClosedByDelete(j)'
  BY <1>2, <1>4 DEF Saves, Live
<1>5. ASSUME NEW i \in Ids, Deletes(i) PROVE ClosedByDelete(j)'
  BY <1>2, <1>5 DEF Deletes
<1> QED
  BY <1>1, <1>3, <1>4, <1>5, StepKinds DEF LogInv

LEMMA LogInvariant == Spec => []LogInv
<1>1. Init => LogInv
  BY TypeInit, RequestsInit, LogInit DEF LogInv
<1>2. LogInv /\ [Next]_vars => LogInv'
  BY TypeStep, RequestsStep, MirrorsStep, NothingStep DEF LogInv
<1> QED
  BY <1>1, <1>2, PTL DEF Spec

\* The audit log mirrors every row, however the requests interleave: the entry
\* AfterUpdate and AfterCreate write is what the row holds until the next one.
THEOREM AuditFaithful == Spec => []AuditMirrorsRow
  BY LogInvariant, PTL DEF LogInv

\* A save that overlaps a deletion leaves no trace after it.
THEOREM DeleteEndsLog == Spec => []NothingAfterDelete
  BY LogInvariant, PTL DEF LogInv

\* What makes it hold: the row a request's hook has captured is a version too.
HooksHoldVersions ==
    \A p \in Procs : req[p].pc \in {"update", "delete"} =>
        IsVersion(req[p].target, req[p].before, Len(audit[req[p].target]))

VersionInv == LogInv /\ HooksHoldVersions /\ OldSidesAreVersions

\* Whatever the step, a log keeps its entries.
LEMMA LogsKeep ==
    ASSUME LogInv, [Next]_vars, NEW i \in Ids
    PROVE  /\ Len(audit[i]) \in Nat /\ Len(audit'[i]) \in Nat
           /\ Len(audit[i]) <= Len(audit'[i])
           /\ \A k \in 1..Len(audit[i]) : audit'[i][k] = audit[i][k]
<1>t. TypeOK /\ RequestsKnowTheirOutage
  BY DEF LogInv
<1>0. Len(audit[i]) \in Nat
  BY <1>t DEF TypeOK
<1>1. ASSUME audit'[i] = audit[i]
      PROVE  /\ Len(audit'[i]) \in Nat
             /\ Len(audit[i]) <= Len(audit'[i])
             /\ \A k \in 1..Len(audit[i]) : audit'[i][k] = audit[i][k]
  BY <1>0, <1>1
<1>2. ASSUME NEW j \in Ids, Creates(j) \/ Saves(j) \/ Deletes(j)
      PROVE  \E op, u, old, new : Log(j, op, u, old, new)
  BY <1>2, Zenon DEF Creates, Saves, Deletes
<1>3. ASSUME NEW j \in Ids, NEW op, NEW u, NEW old, NEW new, Log(j, op, u, old, new)
      PROVE  /\ Len(audit'[i]) \in Nat
             /\ Len(audit[i]) <= Len(audit'[i])
             /\ \A k \in 1..Len(audit[i]) : audit'[i][k] = audit[i][k]
  <2>1. Grew(j, op, u, old, new)
    BY <1>t, <1>3, LogGrows
  <2> QED
    BY <1>0, <2>1 DEF Grew
<1> QED
  BY <1>t, <1>0, <1>1, <1>2, <1>3, StepKinds DEF Quiet

LEMMA VersionsStay ==
    ASSUME LogInv, [Next]_vars, NEW i \in Ids, NEW row, NEW n \in 0..Len(audit[i]),
           IsVersion(i, row, n), NEW m \in Nat, n <= m
    PROVE  \E k \in 1..m : audit'[i][k].op # "DELETE" /\ audit'[i][k].new = row
<1>1. PICK k \in 1..n : audit[i][k].op # "DELETE" /\ audit[i][k].new = row
  BY DEF IsVersion
<1>2. Len(audit[i]) \in Nat /\ \A h \in 1..Len(audit[i]) : audit'[i][h] = audit[i][h]
  BY LogsKeep
<1>3. k \in 1..m /\ k \in 1..Len(audit[i])
  BY <1>2
<1> QED
  BY <1>1, <1>2, <1>3

\* What a live row holds is the newest version of its log.
LEMMA LiveIsVersion ==
    ASSUME LogInv, NEW i \in Ids, Live(i)
    PROVE  IsVersion(i, outages[i], Len(audit[i]))
<1> DEFINE n == Len(audit[i])
<1>1. Mirrors(i) /\ ClosedByDelete(i) /\ audit[i] \in Seq(AuditEntry)
  BY DEF LogInv, TypeOK, AuditMirrorsRow, NothingAfterDelete
<1>2. audit[i] # <<>> /\ \A k \in 1..n : audit[i][k].op # "DELETE"
  BY <1>1 DEF Live, Mirrors, ClosedByDelete
<1>3. n \in Nat /\ n > 0
  BY <1>1, <1>2
<1> HIDE DEF n
<1>4. LastRewrite(i, n)
  BY <1>2, <1>3 DEF LastRewrite, n
<1>5. audit[i][n].new = outages[i]
  BY <1>1, <1>3, <1>4 DEF Mirrors, n
<1> QED
  BY <1>2, <1>3, <1>5 DEF IsVersion, n

LEMMA HooksStep == VersionInv /\ [Next]_vars => HooksHoldVersions'
<1> SUFFICES ASSUME VersionInv, [Next]_vars, NEW q \in Procs, req'[q].pc \in {"update", "delete"}
             PROVE  IsVersion(req[q].target, req[q].before, Len(audit[req[q].target]))'
  BY DEF HooksHoldVersions
<1>t. TypeOK /\ LogInv
  BY DEF VersionInv, LogInv
<1>1. ASSUME req'[q] = req[q]
      PROVE  IsVersion(req[q].target, req[q].before, Len(audit[req[q].target]))'
  <2> DEFINE i == req[q].target
             n == Len(audit[i])
             m == Len(audit'[i])
  <2>1. req[q] \in Request
    BY <1>1, <1>t, ActiveIsRequest
  <2>2. i \in Ids
    BY <2>1 DEF Request
  <2>3. IsVersion(i, req[q].before, n)
    BY <1>1 DEF VersionInv, HooksHoldVersions
  <2>4. n \in Nat /\ m \in Nat /\ n <= m
    BY <1>t, <2>2, LogsKeep
  <2>5. n \in 0..Len(audit[i])
    BY <2>4
  <2>6. \E k \in 1..m : audit'[i][k].op # "DELETE" /\ audit'[i][k].new = req[q].before
    BY <1>t, <2>2, <2>3, <2>4, <2>5, VersionsStay
  <2> QED
    BY <1>1, <2>6 DEF IsVersion
<1>2. ASSUME NEW to \in {"update", "delete"}, req[q].pc \in {"beforeUpdate", "beforeDelete"}, CaptureOld(q, to)
      PROVE  IsVersion(req[q].target, req[q].before, Len(audit[req[q].target]))'
  <2>1. req[q] \in Request
    BY <1>2, <1>t, ActiveIsRequest
  <2>2. req[q].target \in Ids
    BY <2>1 DEF Request
  <2>3. CASE Live(req[q].target)
    <3> DEFINE i == req[q].target
    <3>1. req'[q] = [req[q] EXCEPT !.pc = to, !.before = outages[i]]
      BY <1>2, <1>t, <2>3 DEF CaptureOld, TypeOK
    <3>2. req'[q].target = i /\ req'[q].before = outages[i]
      BY <2>1, <3>1 DEF Request
    <3>3. IsVersion(i, outages[i], Len(audit[i]))
      BY <1>t, <2>2, <2>3, LiveIsVersion
    <3> QED
      BY <1>2, <3>2, <3>3 DEF CaptureOld, IsVersion
  <2>4. CASE ~Live(req[q].target)
    BY <1>2, <1>t, <2>4 DEF CaptureOld, Finish, Idle, TypeOK
  <2> QED
    BY <2>3, <2>4
<1>3. ASSUME NEW p \in Procs, NEW i, NEW u, NEW d, NEW fields,
             NEW label \in {"manager", "beforeDelete"}, Take(p, i, u, d, fields, label)
      PROVE  req'[q] = req[q]
  <2> DEFINE r == [pc |-> label, target |-> i, user |-> u, draft |-> d,
                   provided |-> fields, before |-> NoRow]
  <2>1. req' = [req EXCEPT ![p] = r] /\ r.pc = label
    BY <1>3 DEF Take
  <2> HIDE DEF r
  <2> QED
    BY <1>t, <2>1 DEF TypeOK
<1>4. ASSUME NEW p \in Procs, Start(p) PROVE req'[q] = req[q]
  <2>1. \E i, u, d, fields : \E label \in {"manager", "beforeDelete"} : Take(p, i, u, d, fields, label)
    BY <1>4, Zenon DEF Start, LoadForPatch, LoadForResolve, LoadForDelete
  <2> QED
    BY <1>3, <2>1
<1>5. ASSUME NEW p \in Procs, ManagerLoad(p) PROVE req'[q] = req[q]
  <2>1. req[p] \in Request
    BY <1>5, <1>t, ActiveIsRequest DEF ManagerLoad
  <2>2. req'[p] = [req[p] EXCEPT !.pc = "beforeUpdate"] \/ req'[p] = Idle
    BY <1>5, <1>t DEF ManagerLoad, Goto, Finish, TypeOK
  <2>3. req'[p].pc \notin {"update", "delete"}
    BY <2>1, <2>2 DEF Idle, Request
  <2> QED
    BY <1>5, <1>t, <2>3 DEF ManagerLoad, Goto, Finish, TypeOK
<1>6. ASSUME NEW p \in Procs, SaveOutage(p) \/ DeleteOutage(p) \/ Abort(p) PROVE req'[q] = req[q]
  BY <1>6, <1>t DEF SaveOutage, DeleteOutage, Abort, Finish, Idle, TypeOK
<1>7. ASSUME NEW p \in Procs, p # q, BeforeUpdate(p) \/ BeforeDelete(p) PROVE req'[q] = req[q]
  BY <1>7, <1>t DEF BeforeUpdate, BeforeDelete, CaptureOld, Finish, TypeOK
<1>8. CASE BeforeUpdate(q)
  BY <1>2, <1>8 DEF BeforeUpdate
<1>9. CASE BeforeDelete(q)
  BY <1>2, <1>9 DEF BeforeDelete
<1> QED
  BY <1>1, <1>4, <1>5, <1>6, <1>7, <1>8, <1>9 DEF Next, Step, CreateOutage, vars

LEMMA OldSidesStep == VersionInv /\ [Next]_vars => OldSidesAreVersions'
<1> SUFFICES ASSUME VersionInv, [Next]_vars, NEW j \in Ids, NEW k \in 2..Len(audit'[j])
             PROVE  IsVersion(j, audit[j][k].old, k - 1)'
  BY DEF OldSidesAreVersions
<1> DEFINE n == Len(audit[j])
<1>t. TypeOK /\ LogInv /\ Mirrors(j)
  BY DEF VersionInv, LogInv, AuditMirrorsRow
<1>0. n \in Nat /\ \A h \in 1..n : audit'[j][h] = audit[j][h]
  BY <1>t, LogsKeep
<1>1. CASE k \in 1..n
  <2>1. IsVersion(j, audit[j][k].old, k - 1)
    BY <1>0, <1>1 DEF VersionInv, OldSidesAreVersions
  <2>2. PICK h \in 1..(k - 1) : audit[j][h].op # "DELETE" /\ audit[j][h].new = audit[j][k].old
    BY <2>1 DEF IsVersion
  <2>3. audit'[j][h] = audit[j][h] /\ audit'[j][k] = audit[j][k]
    BY <1>0, <1>1
  <2> QED
    BY <2>2, <2>3 DEF IsVersion
<1>2. ASSUME k \notin 1..n, NEW i \in Ids, NEW op, NEW u, NEW old, NEW new, Log(i, op, u, old, new)
      PROVE  j = i /\ k = n + 1 /\ audit'[j][k].old = old
  <2>1. Grew(i, op, u, old, new)
    BY <1>t, <1>2, LogGrows
  <2> QED
    BY <1>0, <1>2, <2>1 DEF Grew
<1>3. ASSUME k \notin 1..n, NEW p \in Procs, req[p].pc \in {"update", "delete"}, NEW op, NEW new,
             Log(req[p].target, op, req[p].user, req[p].before, new)
      PROVE  IsVersion(j, audit[j][k].old, k - 1)'
  <2>1. req[p].target \in Ids
    BY <1>t, <1>3, ActiveIsRequest DEF Request
  <2>2. j = req[p].target /\ k = n + 1 /\ audit'[j][k].old = req[p].before
    BY <1>2, <1>3, <2>1
  <2>3. IsVersion(j, req[p].before, n)
    BY <1>3, <2>2 DEF VersionInv, HooksHoldVersions
  <2>4. PICK h \in 1..n : audit[j][h].op # "DELETE" /\ audit[j][h].new = req[p].before
    BY <2>3 DEF IsVersion
  <2>5. audit'[j][h] = audit[j][h] /\ h \in 1..(k - 1)
    BY <1>0, <2>2
  <2> QED
    BY <2>2, <2>4, <2>5 DEF IsVersion
<1>4. ASSUME k \notin 1..n, NEW i \in Ids, NEW u \in Users, NEW row \in NewOutages, CreateOutage(i, u, row)
      PROVE  FALSE
  <2>1. j = i /\ k = n + 1
    BY <1>2, <1>4 DEF CreateOutage
  <2>2. n = 0
    BY <1>4, <1>t, <2>1 DEF CreateOutage, Mirrors
  <2> QED
    BY <2>1, <2>2
<1>5. ASSUME audit'[j] = audit[j], k \notin 1..n PROVE FALSE
  BY <1>0, <1>5
<1>6. ASSUME k \notin 1..n, NEW p \in Procs, SaveOutage(p)
      PROVE  IsVersion(j, audit[j][k].old, k - 1)'
  BY <1>3, <1>5, <1>6 DEF SaveOutage
<1>7. ASSUME k \notin 1..n, NEW p \in Procs, DeleteOutage(p)
      PROVE  IsVersion(j, audit[j][k].old, k - 1)'
  BY <1>3, <1>7 DEF DeleteOutage
<1>8. ASSUME NEW p \in Procs, Start(p) \/ ManagerLoad(p) \/ BeforeUpdate(p) \/ BeforeDelete(p) \/ Abort(p)
      PROVE  audit' = audit
  BY <1>8 DEF Start, LoadForPatch, LoadForResolve, LoadForDelete, Take, ManagerLoad, BeforeUpdate,
              BeforeDelete, CaptureOld, Abort
<1> QED
  BY <1>1, <1>4, <1>5, <1>6, <1>7, <1>8 DEF Next, Step, vars

\* Whatever requests overlap, abort or are rolled back, every UPDATE and DELETE entry
\* starts from a version of its outage that was committed and logged before.
THEOREM EntriesStartFromVersions == Spec => []OldSidesAreVersions
<1>1. Init => VersionInv
  <2>1. Init => LogInv
    BY TypeInit, RequestsInit, LogInit DEF LogInv
  <2>2. Init => HooksHoldVersions /\ OldSidesAreVersions
    BY DEF Init, HooksHoldVersions, OldSidesAreVersions, Idle
  <2> QED
    BY <2>1, <2>2 DEF VersionInv
<1>2. VersionInv /\ [Next]_vars => VersionInv'
  BY TypeStep, RequestsStep, MirrorsStep, NothingStep, HooksStep, OldSidesStep DEF VersionInv, LogInv
<1> QED
  BY <1>1, <1>2, PTL DEF Spec, VersionInv

\* A soft-deleted outage is never resurrected or rewritten by a stale save.
THEOREM DeletedStaysDeleted == Spec => DeletionIsFinal
<1>1. LogInv /\ [Next]_vars =>
          [\A i \in deleted : i \in deleted' /\ outages'[i] = outages[i]]_vars
  <2> SUFFICES ASSUME LogInv, [Next]_vars, NEW i \in deleted
               PROVE  i \in deleted' /\ outages'[i] = outages[i]
    OBVIOUS
  <2>1. TypeOK /\ RequestsKnowTheirOutage /\ i \in Ids
    BY DEF LogInv, TypeOK
  <2>2. outages[i] # NoRow
    BY <2>1 DEF LogInv, AuditMirrorsRow, Mirrors, NothingAfterDelete, ClosedByDelete
  <2>3. CASE Quiet
    BY <2>3 DEF Quiet
  <2>4. ASSUME NEW j \in Ids, Creates(j) \/ Saves(j) \/ Deletes(j)
        PROVE  i \in deleted' /\ outages'[i] = outages[i]
    BY <2>1, <2>2, <2>4 DEF Creates, Saves, Deletes, Live, TypeOK
  <2> QED
    BY <2>1, <2>3, <2>4, StepKinds
<1> QED
  BY <1>1, LogInvariant, PTL DEF Spec, DeletionIsFinal

\* The write path, with all its reads and private copies, implements the table
\* that changes and logs in single steps.
THEOREM StoreImplementsTable == Spec => ImplementsTable
<1>1. Init => Table!TableInit
  BY DEF Init, Table!TableInit
<1>2. LogInv /\ [Next]_vars => [Table!TableNext]_(Table!table)
  <2> SUFFICES ASSUME LogInv, [Next]_vars PROVE Table!TableNext \/ UNCHANGED Table!table
    OBVIOUS
  <2>t. TypeOK
    BY DEF LogInv
  <2>1. CASE Quiet
    BY <2>1 DEF Quiet, Table!table
  <2>2. ASSUME NEW i \in Ids, NEW op, NEW u \in Users, NEW old \in Row \cup {NoRow}, NEW new,
               Log(i, op, u, old, new)
        PROVE  Table!Logged(i, op, u, new)
    <3> DEFINE e == [op |-> op, user |-> u, old |-> old, new |-> new]
    <3>1. Len(audit'[i]) = Len(audit[i]) + 1 /\ audit'[i][Len(audit[i]) + 1] = e
      BY <2>t, <2>2, LogGrows DEF Grew
    <3>2. audit' = [audit EXCEPT ![i] = Append(audit[i], e)]
      BY <2>2 DEF Log
    <3> QED
      BY <3>1, <3>2 DEF Table!Logged
  <2>3. ASSUME NEW i \in Ids, Creates(i) PROVE Table!TableNext
    <3>1. PICK u \in Users, row \in Row :
              /\ outages' = [outages EXCEPT ![i] = row]
              /\ Log(i, "CREATE", u, NoRow, row)
      BY <2>3 DEF Creates
    <3>2. outages'[i] = row
      BY <2>t, <3>1 DEF TypeOK
    <3>3. Table!Appear(i, u)
      BY <2>2, <2>3, <3>1, <3>2 DEF Table!Appear, Creates
    <3> QED
      BY <3>3 DEF Table!TableNext
  <2>4. ASSUME NEW i \in Ids, Saves(i) PROVE Table!TableNext
    <3>1. PICK u \in Users, old \in Row \cup {NoRow}, row \in Row :
              /\ outages' = [outages EXCEPT ![i] = row]
              /\ Log(i, "UPDATE", u, old, row)
      BY <2>4 DEF Saves
    <3>2. outages'[i] = row
      BY <2>t, <3>1 DEF TypeOK
    <3>3. Table!Rewrite(i, u)
      BY <2>2, <2>4, <3>1, <3>2 DEF Table!Rewrite, Saves, Live
    <3> QED
      BY <3>3 DEF Table!TableNext
  <2>5. ASSUME NEW i \in Ids, Deletes(i) PROVE Table!TableNext
    <3>1. PICK u \in Users, old \in Row \cup {NoRow} : Log(i, "DELETE", u, old, NoRow)
      BY <2>5 DEF Deletes
    <3>2. Table!Bury(i, u)
      BY <2>2, <2>5, <3>1 DEF Table!Bury, Deletes
    <3> QED
      BY <3>2 DEF Table!TableNext
  <2> QED
    BY <2>1, <2>3, <2>4, <2>5, StepKinds DEF LogInv
<1> QED
  BY <1>1, <1>2, LogInvariant, PTL DEF Spec, ImplementsTable, Table!TableSpec

--------------------------------------------------------------------------------
(***************************************************************************)
(* Requests that follow each other.                                         *)
(***************************************************************************)

\* The copy of a request differs from the row in the fields it was given only, and
\* what the Before hook has read is still the row.
UpToDate(p) ==
    /\ \A f \in Fields \ req[p].provided : req[p].draft[f] = outages[req[p].target][f]
    /\ req[p].pc \in {"update", "delete"} => req[p].before = outages[req[p].target]

CopiesAreCurrent == \A p \in Procs : req[p] # Idle => UpToDate(p)

LEMMA CopiesStep ==
    ASSUME LogInv, CopiesAreCurrent, Next, ~Overlapping, ~Overlapping'
    PROVE  CopiesAreCurrent'
<1> SUFFICES ASSUME NEW q \in Procs, req'[q] # Idle PROVE UpToDate(q)'
  BY DEF CopiesAreCurrent
<1>t. TypeOK /\ RequestsKnowTheirOutage
  BY DEF LogInv
<1>u. ASSUME req'[q] = req[q], outages'[req[q].target] = outages[req[q].target] PROVE UpToDate(q)'
  BY <1>u DEF CopiesAreCurrent, UpToDate
<1>1. ASSUME NEW i \in Ids, NEW u \in Users, NEW row \in NewOutages, CreateOutage(i, u, row)
      PROVE  UpToDate(q)'
  <2>1. req' = req /\ outages[i] = NoRow /\ outages[req[q].target] # NoRow
    BY <1>1, <1>t DEF CreateOutage, RequestsKnowTheirOutage
  <2>2. req[q].target \in Ids
    BY <1>t, <2>1, ActiveIsRequest DEF Request
  <2>3. outages'[req[q].target] = outages[req[q].target]
    BY <1>1, <1>t, <2>1, <2>2 DEF CreateOutage, TypeOK
  <2> QED
    BY <1>u, <2>1, <2>3
<1>2. ASSUME NEW p \in Procs, NEW i \in Ids, NEW u \in Users, NEW d, NEW fields,
             NEW label \in {"manager", "beforeDelete"}, Take(p, i, u, d, fields, label),
             \A f \in Fields \ fields : d[f] = outages[i][f]
      PROVE  UpToDate(q)'
  <2> DEFINE r == [pc |-> label, target |-> i, user |-> u, draft |-> d,
                   provided |-> fields, before |-> NoRow]
  <2>1. req' = [req EXCEPT ![p] = r] /\ outages' = outages
    BY <1>2 DEF Take
  <2>2. r.pc = label /\ r.target = i /\ r.draft = d /\ r.provided = fields
    OBVIOUS
  <2> HIDE DEF r
  <2>3. req'[p] = r
    BY <1>t, <2>1 DEF TypeOK
  <2>4. r # Idle
    BY <2>2 DEF Idle
  <2>5. q = p
    BY <2>3, <2>4 DEF Overlapping
  <2> QED
    BY <1>2, <2>1, <2>2, <2>3, <2>5 DEF UpToDate
<1>3. ASSUME NEW p \in Procs, Start(p) PROVE UpToDate(q)'
  <2>1. PICK i \in Ids, u \in Users :
            \/ \E patch \in Patches : LoadForPatch(p, i, u, patch)
            \/ LoadForResolve(p, i, u)
            \/ LoadForDelete(p, i, u)
    BY <1>3, Zenon DEF Start
  <2>2. ASSUME NEW patch \in Patches, LoadForPatch(p, i, u, patch) PROVE UpToDate(q)'
    <3>1. \A f \in Fields \ DOMAIN patch : ApplyPatch(outages[i], patch)[f] = outages[i][f]
      BY DEF ApplyPatch
    <3> QED
      BY <1>2, <2>2, <3>1 DEF LoadForPatch
  <2>3. CASE LoadForResolve(p, i, u)
    <3>1. outages[i] \in Row
      BY <1>t, <2>3 DEF LoadForResolve, Live, TypeOK
    <3>2. \A f \in Fields \ {"end_time"} : Resolved(outages[i])[f] = outages[i][f]
      BY <3>1 DEF Resolved, Row
    <3>3. Take(p, i, u, Resolved(outages[i]), {"end_time"}, "manager")
      BY <2>3 DEF LoadForResolve
    <3> DEFINE d == Resolved(outages[i])
               fields == {"end_time"}
    <3>4. Take(p, i, u, d, fields, "manager") /\ \A f \in Fields \ fields : d[f] = outages[i][f]
      BY <3>2, <3>3
    <3> HIDE DEF d, fields
    <3> QED
      BY <1>2, <3>4
  <2>4. CASE LoadForDelete(p, i, u)
    BY <1>2, <2>4 DEF LoadForDelete
  <2> QED
    BY <2>1, <2>2, <2>3, <2>4
\* A request that goes on is the only one.
<1>4. ASSUME NEW p \in Procs, Step(p) \/ Abort(p) PROVE UpToDate(q)'
  <2>1. req[p] # Idle
    BY <1>4 DEF Step, Abort, ManagerLoad, BeforeUpdate, BeforeDelete, SaveOutage, DeleteOutage, Idle
  <2>2. req[p] \in Request
    BY <1>t, <2>1, ActiveIsRequest
  <2>3. ASSUME q # p PROVE req'[q] = req[q]
    BY <1>4, <1>t, <2>3 DEF Step, Abort, ManagerLoad, BeforeUpdate, BeforeDelete, CaptureOld, SaveOutage,
                            DeleteOutage, Goto, Finish, TypeOK
  <2>4. q = p
    BY <2>1, <2>3 DEF Overlapping
  <2>5. CASE ManagerLoad(p)
    <3>1. req'[p] = [req[p] EXCEPT !.pc = "beforeUpdate"] /\ outages' = outages
      BY <1>t, <2>4, <2>5 DEF ManagerLoad, Goto, Finish, TypeOK
    <3>2. UpToDate(p)
      BY <2>1 DEF CopiesAreCurrent
    <3> QED
      BY <2>2, <2>4, <3>1, <3>2 DEF UpToDate, Request
  <2>6. ASSUME NEW to, CaptureOld(p, to) PROVE UpToDate(q)'
    <3>1. req'[p] = [req[p] EXCEPT !.pc = to, !.before = outages[req[p].target]] /\ outages' = outages
      BY <1>t, <2>4, <2>6 DEF CaptureOld, Finish, TypeOK
    <3>2. UpToDate(p)
      BY <2>1 DEF CopiesAreCurrent
    <3> QED
      BY <2>2, <2>4, <3>1, <3>2 DEF UpToDate, Request
  <2>7. CASE SaveOutage(p) \/ DeleteOutage(p) \/ Abort(p)
    BY <1>t, <2>4, <2>7 DEF SaveOutage, DeleteOutage, Abort, Finish, TypeOK
  <2> QED
    BY <1>4, <2>5, <2>6, <2>7 DEF Step, BeforeUpdate, BeforeDelete
<1> QED
  BY <1>1, <1>3, <1>4 DEF Next

LEMMA ChainsStep ==
    ASSUME LogInv, CopiesAreCurrent, AuditChains, Next
    PROVE  AuditChains'
<1> DEFINE Chained(i, k) == audit[i][k-1].op # "DELETE" => audit[i][k].old = audit[i][k-1].new
<1> SUFFICES ASSUME NEW j \in Ids, NEW k \in 2..Len(audit'[j]) PROVE Chained(j, k)'
  BY DEF AuditChains
<1>t. TypeOK /\ Mirrors(j)
  BY DEF LogInv, AuditMirrorsRow
<1>u. ASSUME audit'[j] = audit[j] PROVE Chained(j, k)'
  BY <1>u DEF AuditChains
<1>1. ASSUME NEW i \in Ids, NEW u \in Users, NEW row \in NewOutages, CreateOutage(i, u, row)
      PROVE  Chained(j, k)'
  <2>1. Grew(i, "CREATE", u, NoRow, row)
    BY <1>1, <1>t, LogGrows DEF CreateOutage
  <2>2. CASE i = j
    <3>1. Len(audit[j]) = 0
      BY <1>1, <1>t, <2>2 DEF CreateOutage, Mirrors
    <3> QED
      BY <2>1, <2>2, <3>1 DEF Grew
  <2> QED
    BY <1>u, <2>1, <2>2 DEF Grew
<1>2. ASSUME NEW i \in Ids, NEW op, NEW u, NEW new, Log(i, op, u, outages[i], new)
      PROVE  Chained(j, k)'
  <2>1. Grew(i, op, u, outages[i], new)
    BY <1>2, <1>t, LogGrows
  <2>2. CASE i = j
    <3> DEFINE n == Len(audit[j])
    <3>1. /\ n \in Nat /\ k \in 2..(n + 1)
          /\ \A m \in 1..n : audit'[j][m] = audit[j][m]
          /\ audit'[j][n + 1].old = outages[j]
      BY <2>1, <2>2 DEF Grew
    <3>2. CASE k = n + 1
      <4>1. n \in 1..n /\ audit'[j][n] = audit[j][n] /\ k - 1 = n
        BY <3>1, <3>2
      <4>2. audit[j][n].op # "DELETE" => LastRewrite(j, n)
        BY <3>1 DEF LastRewrite
      <4>3. audit[j][n].op # "DELETE" => audit[j][n].new = outages[j]
        BY <1>t, <4>1, <4>2 DEF Mirrors
      <4> QED
        BY <3>1, <3>2, <4>1, <4>3
    <3>3. CASE k # n + 1
      <4>1. k \in 2..n /\ k \in 1..n /\ k - 1 \in 1..n
        BY <3>1, <3>3
      <4>2. audit'[j][k] = audit[j][k] /\ audit'[j][k-1] = audit[j][k-1]
        BY <3>1, <4>1
      <4>3. Chained(j, k)
        BY <4>1 DEF AuditChains
      <4> QED
        BY <4>2, <4>3
    <3> QED
      BY <3>2, <3>3
  <2> QED
    BY <1>u, <2>1, <2>2 DEF Grew
<1>3. ASSUME NEW p \in Procs, Start(p) \/ Step(p) \/ Abort(p) PROVE Chained(j, k)'
  <2>1. CASE audit' = audit
    BY <1>u, <2>1
  <2>2. ASSUME NEW new, NEW op, req[p].pc \in {"update", "delete"},
               Log(req[p].target, op, req[p].user, req[p].before, new)
        PROVE  Chained(j, k)'
    <3>1. req[p] # Idle
      BY <2>2 DEF Idle
    <3>2. req[p].target \in Ids /\ req[p].before = outages[req[p].target]
      BY <1>t, <2>2, <3>1, ActiveIsRequest DEF CopiesAreCurrent, UpToDate, Request
    <3> QED
      BY <1>2, <2>2, <3>2
  <2>3. CASE SaveOutage(p) \/ DeleteOutage(p)
    BY <2>1, <2>2, <2>3 DEF SaveOutage, DeleteOutage
  <2>4. CASE Start(p) \/ ManagerLoad(p) \/ BeforeUpdate(p) \/ BeforeDelete(p) \/ Abort(p)
    BY <2>1, <2>4 DEF Start, LoadForPatch, LoadForResolve, LoadForDelete, Take, ManagerLoad, BeforeUpdate,
                      BeforeDelete, CaptureOld, Abort
  <2> QED
    BY <1>3, <2>3, <2>4 DEF Step
<1> QED
  BY <1>1, <1>3 DEF Next

SerialInv ==
    /\ LogInv
    /\ ~overlapped => ~Overlapping /\ CopiesAreCurrent /\ AuditChains

LEMMA SerialInvariant == SerialSpec => []SerialInv
<1>1. SerialInit => SerialInv
  <2>1. Init => LogInv
    BY TypeInit, RequestsInit, LogInit DEF LogInv
  <2>2. Init => ~Overlapping /\ CopiesAreCurrent /\ AuditChains
    BY DEF Init, Overlapping, CopiesAreCurrent, AuditChains
  <2> QED
    BY <2>1, <2>2 DEF SerialInit, SerialInv
<1>2. SerialInv /\ [SerialNext]_<<vars, overlapped>> => SerialInv'
  <2> SUFFICES ASSUME SerialInv, [SerialNext]_<<vars, overlapped>> PROVE SerialInv'
    OBVIOUS
  <2>1. LogInv'
    BY TypeStep, RequestsStep, MirrorsStep, NothingStep DEF LogInv, SerialInv, SerialNext
  <2>2. CASE SerialNext
    BY <2>1, <2>2, CopiesStep, ChainsStep DEF SerialInv, SerialNext
  <2>3. CASE UNCHANGED <<vars, overlapped>>
    BY <2>1, <2>3 DEF SerialInv, vars, Overlapping, CopiesAreCurrent, UpToDate, AuditChains
  <2> QED
    BY <2>2, <2>3
<1> QED
  BY <1>1, <1>2, PTL DEF SerialSpec

\* Until two requests overlap, the audit log has no gaps, for any number of outages,
\* requests and patches.
THEOREM SerialLogsChain == SerialSpec => []SerialAuditChains
<1>1. SerialInv => SerialAuditChains
  BY DEF SerialInv, SerialAuditChains
<1> QED
  BY <1>1, SerialInvariant, PTL

\* Until two requests overlap, a save writes back nothing but what its request was
\* asked to change.
THEOREM SerialSavesKeepFields == SerialSpec => SerialOnlyProvided
<1>1. SerialInv => [~overlapped => SavesKeepOtherFields]_vars
  <2> SUFFICES ASSUME SerialInv, ~overlapped, NEW p \in Procs, SaveOutage(p),
                      NEW f \in Fields, outages'[req[p].target][f] # outages[req[p].target][f]
               PROVE  f \in req[p].provided
    BY DEF SavesKeepOtherFields
  <2>1. req[p] # Idle /\ UpToDate(p) /\ TypeOK
    BY DEF SaveOutage, Idle, SerialInv, LogInv, CopiesAreCurrent
  <2>2. req[p].target \in Ids
    BY <2>1, ActiveIsRequest DEF Request
  <2>3. outages'[req[p].target] = req[p].draft
    BY <2>1, <2>2 DEF SaveOutage, TypeOK
  <2> QED
    BY <2>1, <2>3 DEF UpToDate
<1> QED
  BY <1>1, SerialInvariant, PTL DEF SerialOnlyProvided

--------------------------------------------------------------------------------
(***************************************************************************)
(* PingUpsert.                                                              *)
(***************************************************************************)
USE PingAssumption DEF PingAssumption

\* Every report is at one of its statuses.
Placed == \A r \in Reporters : up[r].n \in 1..Len(ReportOf[r])

LEMMA CurrentIsSub ==
    ASSUME Placed, NEW r \in Reporters
    PROVE  Current(r) \in Subs
<1>1. ReportOf[r] \in Seq(Subs) /\ up[r].n \in 1..Len(ReportOf[r])
  BY DEF Placed
<1>2. QED BY <1>1 DEF Current

THEOREM PingTypeCorrect == PingSpec => []PingTypeOK
<1>1. PingInit => PingTypeOK
  <2>1. \A r \in Reporters : Len(ReportOf[r]) \in Nat \ {0}
    <3> SUFFICES ASSUME NEW r \in Reporters PROVE Len(ReportOf[r]) \in Nat \ {0}
      OBVIOUS
    <3>1. ReportOf[r] \in Seq(Subs) /\ ReportOf[r] # <<>>
      OBVIOUS
    <3>2. QED BY <3>1
  <2>2. QED BY <2>1 DEF PingInit, PingTypeOK, Begun, Upsert, NoPing, Times
<1>2. PingTypeOK /\ [PingNext]_pingVars => PingTypeOK'
  <2> SUFFICES ASSUME PingTypeOK, [PingNext]_pingVars PROVE PingTypeOK'
    OBVIOUS
  <2>a. \A r \in Reporters : Current(r) \in Subs
    BY CurrentIsSub DEF PingTypeOK, Placed
  <2>b. \A r \in Reporters : Len(ReportOf[r]) \in Nat
    <3> SUFFICES ASSUME NEW r \in Reporters PROVE Len(ReportOf[r]) \in Nat
      OBVIOUS
    <3>1. ReportOf[r] \in Seq(Subs)
      OBVIOUS
    <3>2. QED BY <3>1
  \* A request replaced by another record of the right shape.
  <2>c. ASSUME NEW r \in Reporters, NEW w \in Upsert, w.n \in 1..Len(ReportOf[r]),
               up' = [up EXCEPT ![r] = w]
        PROVE  /\ up' \in [Reporters -> Upsert]
               /\ \A q \in Reporters : up'[q].n \in 1..Len(ReportOf[q])
    BY <2>c DEF PingTypeOK
  <2>1. ASSUME NEW r \in Reporters, ReportAgain(r) PROVE PingTypeOK'
    <3>1. Begun \in Upsert /\ Begun.n \in 1..Len(ReportOf[r])
      BY <2>b DEF Begun, Upsert, NoPing, PingTypeOK
    <3>2. QED BY <2>1, <2>c, <3>1 DEF ReportAgain, PingTypeOK
  <2>2. ASSUME NEW r \in Reporters, Stamp(r) PROVE PingTypeOK'
    <3> DEFINE w == [up[r] EXCEPT !.pc = "first", !.time = clock, !.floor = ping[Current(r)]]
    <3>1. w \in Upsert /\ w.n \in 1..Len(ReportOf[r])
      BY <2>a DEF PingTypeOK, Upsert
    <3>2. up' = [up EXCEPT ![r] = w]
      BY <2>2 DEF Stamp
    <3> HIDE DEF w
    <3>3. QED BY <2>2, <2>c, <3>1, <3>2 DEF Stamp, PingTypeOK
  <2>d. ASSUME NEW r \in Reporters, NEW pc \in {"stamp", "first", "create", "save", "ok", "refused", "broken"},
               MoveTo(r, pc)
        PROVE  /\ up' \in [Reporters -> Upsert]
               /\ \A q \in Reporters : up'[q].n \in 1..Len(ReportOf[q])
    <3> DEFINE w == [up[r] EXCEPT !.pc = pc]
    <3>1. w \in Upsert /\ w.n \in 1..Len(ReportOf[r])
      BY <2>d DEF PingTypeOK, Upsert
    <3>2. up' = [up EXCEPT ![r] = w]
      BY <2>d DEF MoveTo
    <3> HIDE DEF w
    <3>3. QED BY <2>c, <3>1, <3>2
  <2>e. ASSUME NEW r \in Reporters, Advance(r)
        PROVE  /\ up' \in [Reporters -> Upsert]
               /\ \A q \in Reporters : up'[q].n \in 1..Len(ReportOf[q])
    <3>1. CASE up[r].n < Len(ReportOf[r])
      <4> DEFINE w == [up[r] EXCEPT !.pc = "stamp", !.n = @ + 1]
      <4>a. /\ up[r] \in Upsert /\ up[r].n \in Nat /\ Len(ReportOf[r]) \in Nat
            /\ up[r].n + 1 \in Nat \ {0} /\ up[r].n + 1 \in 1..Len(ReportOf[r])
        BY <2>b, <3>1 DEF PingTypeOK, Upsert
      <4>1. w \in Upsert /\ w.n \in 1..Len(ReportOf[r])
        BY <4>a DEF Upsert
      <4>2. up' = [up EXCEPT ![r] = w]
        BY <2>e, <3>1 DEF Advance
      <4> HIDE DEF w
      <4>3. QED BY <2>c, <4>1, <4>2
    <3>2. CASE ~(up[r].n < Len(ReportOf[r]))
      <4> DEFINE w == [up[r] EXCEPT !.pc = "ok"]
      <4>1. w \in Upsert /\ w.n \in 1..Len(ReportOf[r])
        BY DEF PingTypeOK, Upsert
      <4>2. up' = [up EXCEPT ![r] = w]
        BY <2>e, <3>2 DEF Advance
      <4> HIDE DEF w
      <4>3. QED BY <2>c, <4>1, <4>2
    <3>3. QED BY <3>1, <3>2
  <2>f. ASSUME NEW r \in Reporters, Store(r) PROVE ping' \in [Subs -> Times \cup {NoPing}]
    BY <2>f DEF Store, PingTypeOK, Upsert
  <2>3. ASSUME NEW r \in Reporters, First(r) PROVE PingTypeOK'
    BY <2>3, <2>d DEF First, PingTypeOK
  <2>4. ASSUME NEW r \in Reporters, Create(r) PROVE PingTypeOK'
    BY <2>4, <2>d, <2>e, <2>f DEF Create, PingTypeOK
  <2>5. ASSUME NEW r \in Reporters, Save(r) PROVE PingTypeOK'
    BY <2>5, <2>e, <2>f DEF Save, PingTypeOK
  <2>6. ASSUME NEW r \in Reporters, Break(r) PROVE PingTypeOK'
    BY <2>6, <2>d DEF Break, PingTypeOK
  <2>7. CASE Tick
    BY <2>7 DEF Tick, PingTypeOK, Times
  <2>8. CASE UNCHANGED pingVars
    BY <2>8 DEF pingVars, PingTypeOK
  <2>9. QED
    BY <2>1, <2>2, <2>3, <2>4, <2>5, <2>6, <2>7, <2>8 DEF PingNext, Process
<1>3. QED BY <1>1, <1>2, PTL DEF PingSpec
--------------------------------------------------------------------------------
\* What is known of a report while it is at a status: the time it took is not before the
\* ping it found then, and what it has concluded from the lookup.
Accounted ==
    /\ \A s \in Subs : ping[s] <= clock
    /\ \A r \in Reporters :
          /\ up[r].pc \in {"first", "create", "save"} =>
                up[r].time # NoPing /\ up[r].floor <= up[r].time /\ up[r].time <= clock
          /\ up[r].pc = "first" /\ up[r].floor # NoPing => ping[Current(r)] # NoPing
          /\ up[r].pc = "create" => up[r].floor = NoPing
          /\ up[r].pc = "refused" => up[r].floor = NoPing /\ ping[Current(r)] # NoPing

\* A write leaves a ping behind, and no ping goes away.
LEMMA PingsStay ==
    ASSUME PingTypeOK, Accounted, NEW r \in Reporters, up[r].pc \in {"create", "save"}, Store(r)
    PROVE  /\ ping'[Current(r)] = up[r].time
           /\ \A s \in Subs : s # Current(r) => ping'[s] = ping[s]
           /\ \A s \in Subs : ping[s] # NoPing => ping'[s] # NoPing
           /\ \A s \in Subs : ping'[s] <= clock
<1>1. Current(r) \in Subs
  BY CurrentIsSub DEF PingTypeOK, Placed
<1>2. up[r].time # NoPing /\ up[r].time <= clock
  BY DEF Accounted
<1>3. QED BY <1>1, <1>2 DEF Store, PingTypeOK, Accounted

LEMMA AccountedStep == PingTypeOK /\ Accounted /\ [PingNext]_pingVars => Accounted'
<1> SUFFICES ASSUME PingTypeOK, Accounted, [PingNext]_pingVars PROVE Accounted'
  OBVIOUS
<1>a. \A r \in Reporters : Current(r) \in Subs
  BY CurrentIsSub DEF PingTypeOK, Placed
\* A step that writes no ping and moves one report.
<1>b. ASSUME NEW r \in Reporters, NEW pc, MoveTo(r, pc), UNCHANGED <<ping, clock>>,
             pc \in {"first", "create", "save"} => up[r].pc \in {"first", "create", "save"},
             pc # "first",
             pc = "create" => up[r].pc = "first" /\ ping[Current(r)] = NoPing,
             pc = "refused" => up[r].pc = "create" /\ ping[Current(r)] # NoPing
      PROVE  Accounted'
  <2>1. /\ up'[r].pc = pc /\ up'[r].n = up[r].n /\ up'[r].time = up[r].time /\ up'[r].floor = up[r].floor
        /\ \A q \in Reporters \ {r} : up'[q] = up[q]
    BY <1>b DEF MoveTo, PingTypeOK, Upsert
  <2>2. \A q \in Reporters : Current(q)' = Current(q)
    BY <2>1 DEF Current
  <2>3. QED BY <1>b, <2>1, <2>2 DEF Accounted
\* A step that writes the ping of the report's status and takes it on.
<1>c. ASSUME NEW r \in Reporters, up[r].pc \in {"create", "save"}, Store(r), Advance(r),
             clock' = clock
      PROVE  Accounted'
  <2>1. /\ up'[r].pc \in {"stamp", "ok"}
        /\ \A q \in Reporters \ {r} : up'[q] = up[q]
    BY <1>c DEF Advance, PingTypeOK, Upsert
  <2>2. /\ \A s \in Subs : ping[s] # NoPing => ping'[s] # NoPing
        /\ \A s \in Subs : ping'[s] <= clock
    BY <1>c, PingsStay
  <2>3. \A q \in Reporters \ {r} : Current(q)' = Current(q)
    BY <2>1 DEF Current
  <2>4. QED BY <1>a, <1>c, <2>1, <2>2, <2>3 DEF Accounted
<1>1. ASSUME NEW r \in Reporters, ReportAgain(r) PROVE Accounted'
  <2>1. up'[r].pc = "stamp" /\ \A q \in Reporters \ {r} : up'[q] = up[q]
    BY <1>1 DEF ReportAgain, Begun, PingTypeOK
  <2>2. \A q \in Reporters \ {r} : Current(q)' = Current(q)
    BY <2>1 DEF Current
  <2>3. QED BY <1>1, <2>1, <2>2 DEF ReportAgain, Accounted
<1>2. ASSUME NEW r \in Reporters, Stamp(r) PROVE Accounted'
  <2>1. /\ up'[r].pc = "first" /\ up'[r].n = up[r].n /\ up'[r].time = clock
        /\ up'[r].floor = ping[Current(r)]
        /\ \A q \in Reporters \ {r} : up'[q] = up[q]
    BY <1>2 DEF Stamp, PingTypeOK, Upsert
  <2>2. \A q \in Reporters : Current(q)' = Current(q)
    BY <2>1 DEF Current
  <2>3. ping[Current(r)] <= clock /\ clock # NoPing /\ clock <= clock
    BY <1>a DEF Accounted, PingTypeOK, Times, NoPing
  <2>4. QED BY <1>2, <2>1, <2>2, <2>3 DEF Stamp, Accounted
<1>3. ASSUME NEW r \in Reporters, First(r) PROVE Accounted'
  <2>1. PICK pc \in {"create", "save"} : MoveTo(r, pc) /\ (pc = "create" => ping[Current(r)] = NoPing)
    BY <1>3 DEF First
  <2>2. QED BY <1>3, <2>1, <1>b DEF First, At
<1>4. ASSUME NEW r \in Reporters, Create(r) PROVE Accounted'
  <2>1. CASE ping[Current(r)] = NoPing
    BY <1>4, <2>1, <1>c DEF Create, At
  <2>2. CASE ping[Current(r)] # NoPing
    BY <1>4, <2>2, <1>b DEF Create, At
  <2>3. QED BY <2>1, <2>2
<1>5. ASSUME NEW r \in Reporters, Save(r) PROVE Accounted'
  BY <1>5, <1>c DEF Save, At
<1>6. ASSUME NEW r \in Reporters, Break(r) PROVE Accounted'
  BY <1>6, <1>b DEF Break
<1>7. CASE Tick
  <2>1. clock' = clock + 1 /\ UNCHANGED <<ping, up>>
    BY <1>7 DEF Tick
  <2>2. \A q \in Reporters : Current(q)' = Current(q)
    BY <2>1 DEF Current
  <2>3. \A s \in Subs : ping[s] \in Int /\ clock \in Int
    BY DEF PingTypeOK, Times, NoPing
  <2>4. \A q \in Reporters : up[q].time \in Int
    BY DEF PingTypeOK, Upsert, Times, NoPing
  <2>5. QED BY <2>1, <2>2, <2>3, <2>4 DEF Accounted, PingTypeOK, Times
<1>8. CASE UNCHANGED pingVars
  <2>1. UNCHANGED <<ping, up, clock>>
    BY <1>8 DEF pingVars
  <2>2. QED BY <2>1 DEF Accounted, Current
<1>9. QED
  BY <1>1, <1>2, <1>3, <1>4, <1>5, <1>6, <1>7, <1>8 DEF PingNext, Process

\* A sub-component that has a ping never makes a report fail: for any number of reports.
THEOREM PingedSubsAccept == PingSpec => []OnlyFirstReportsCollide
<1>1. PingInit => Accounted
  BY DEF PingInit, Accounted, Begun, NoPing
<1>2. Accounted => OnlyFirstReportsCollide
  BY DEF Accounted, OnlyFirstReportsCollide, At
<1>3. QED BY <1>1, <1>2, AccountedStep, PingTypeCorrect, PTL DEF PingSpec

\* A ping is never set behind the one its writer found at first, and goes back only by a save
\* of a report that overlapped another.
THEOREM PingsAdvance == PingSpec => PingsGoBackOnlyInRaces
<1> DEFINE Bounded ==
      \A s \in Subs :
          ping'[s] < ping[s] =>
              \E r \in Reporters : At(r, "save") /\ Current(r) = s /\ up[r].floor <= ping'[s]
<1>1. PingInit => Accounted
  BY DEF PingInit, Accounted, Begun, NoPing
<1>2. PingTypeOK /\ Accounted /\ [PingNext]_pingVars => [Bounded]_pingVars
  <2> SUFFICES ASSUME PingTypeOK, Accounted, PingNext, NEW s \in Subs, ping'[s] < ping[s]
               PROVE  \E r \in Reporters : At(r, "save") /\ Current(r) = s /\ up[r].floor <= ping'[s]
    BY Zenon
  <2>1. ping' # ping /\ ping[s] \in Nat /\ ~(ping[s] < ping[s])
    BY DEF PingTypeOK, Times, NoPing
  <2>2. ASSUME NEW r \in Reporters, Create(r) PROVE FALSE
    <3>1. ping[Current(r)] = NoPing /\ Store(r) /\ up[r].pc = "create"
      BY <2>1, <2>2 DEF Create, At
    <3>2. s = Current(r)
      BY <2>1, <3>1, PingsStay
    <3>3. ping[s] = 0
      BY <3>1, <3>2 DEF NoPing
    <3>4. ping'[s] = up[r].time /\ up[r].time \in Nat
      BY <3>1, <3>2, PingsStay DEF PingTypeOK, Upsert, Times, NoPing
    <3>5. QED BY <3>3, <3>4
  <2>3. ASSUME NEW r \in Reporters, Save(r)
        PROVE  At(r, "save") /\ Current(r) = s /\ up[r].floor <= ping'[s]
    <3>1. Store(r) /\ up[r].pc = "save"
      BY <2>3 DEF Save, At
    <3>2. s = Current(r)
      BY <2>1, <3>1, PingsStay
    <3>3. ping'[s] = up[r].time
      BY <3>1, <3>2, PingsStay
    <3>4. up[r].floor <= up[r].time
      BY <3>1 DEF Accounted
    <3>5. QED BY <3>1, <3>2, <3>3, <3>4 DEF At
  <2>4. QED
    BY <2>1, <2>2, <2>3 DEF PingNext, Process, ReportAgain, Stamp, First, Break, Tick
<1>3. QED BY <1>1, <1>2, AccountedStep, PingTypeCorrect, PTL DEF PingSpec, PingsGoBackOnlyInRaces
================================================================================
