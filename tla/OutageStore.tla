------------------------------ MODULE OutageStore ------------------------------
(***************************************************************************)
(* The write path of an outage row: POST, PATCH and DELETE handlers and    *)
(* the automatic resolvers, through the outage manager and the repository, *)
(* down to the gorm hooks that write the audit log.                         *)
(*                                                                         *)
(* A request is a goroutine.  It reads the row outside of any transaction, *)
(* edits its private copy, and saves the WHOLE copy in a transaction of    *)
(* its own; nothing stops another request from committing in between.      *)
(* Inside the transaction the BeforeUpdate/BeforeDelete hook reads the row *)
(* once more (for the audit log), then one UPDATE is issued; PostgreSQL's  *)
(* READ COMMITTED lets another transaction commit between these two        *)
(* statements, but from the UPDATE to the commit the row is locked, so     *)
(* UPDATE, reload, audit insert and commit are one step.                    *)
(*                                                                         *)
(* Of an outage's columns the model keeps the ones the properties tell     *)
(* apart; a time column is "" (NULL) or "set".                              *)
(***************************************************************************)
EXTENDS OutageTypes, Sequences

CONSTANTS
    Ids,        \* outage ids the sequence can hand out
    Procs,      \* request goroutines in flight at the same time
    Users,      \* X-Forwarded-User values and component-monitor names
    NewOutages, \* the rows POST bodies and monitors ask to create
    Patches,    \* PATCH bodies: partial rows, holding the provided fields
    NoRow,      \* the id was never handed out
    MaxAudit    \* bound: audit entries per outage after which none is changed

Fields == {"severity", "description", "end_time", "confirmed_at"}
Values == Severities \cup {"", "text", "set"}
Row    == [Fields -> Values]
Patch  == UNION {[F -> Values] : F \in SUBSET Fields}

AuditEntry == [op : {"CREATE", "UPDATE", "DELETE"}, user : Users,
               old : Row \cup {NoRow}, new : Row \cup {NoRow}]

ASSUME StoreAssumption ==
    /\ NewOutages \subseteq Row
    /\ Patches \subseteq Patch
    /\ NoRow \notin Row
    /\ MaxAudit \in Nat

VARIABLES
    outages,  \* table outages: id -> row
    deleted,  \* ids whose deleted_at is set (soft delete)
    audit,    \* table outage_audit_logs: id -> entries, oldest first
    req       \* what each request goroutine holds

vars == <<outages, deleted, audit, req>>

\* Queries, gorm's as well as the repository's, see a row unless it is
\* soft-deleted.
Live(i) == outages[i] # NoRow /\ i \notin deleted

\* Outage.Validate: severity known, description not blank.  StartTime,
\* DiscoveredFrom and CreatedBy are checked the same way and left out.
Validate(row) == IsValidSeverity(row["severity"]) /\ row["description"] # ""

\* A body whose "confirmed" defaults to false instead of to absent.
ApplyPatch_ConfirmedDefaults(row, patch) ==
    [f \in Fields |-> IF f \in DOMAIN patch THEN patch[f]
                      ELSE IF f = "confirmed_at" THEN "" ELSE row[f]]

\* The fields a PATCH body provides replace those of the copy, field by field.
ApplyPatch(row, patch) ==
    [f \in Fields |-> IF f \in DOMAIN patch THEN patch[f] ELSE row[f]]

\* A resolver's edit: EndTime = now.
Resolved(row) == [row EXCEPT !["end_time"] = "set"]

Log(i, op, u, old, new) ==
    audit' = [audit EXCEPT ![i] =
                 Append(@, [op |-> op, user |-> u, old |-> old, new |-> new])]

HasRoom(i) == Len(audit[i]) < MaxAudit

\* A request goroutine between requests, and one working on an outage: its
\* edited copy, the fields it was asked to change, and the row the Before*
\* hook put in the context (OldOutageKey).
Idle == [pc |-> "idle"]

Request == [pc : {"manager", "beforeUpdate", "update", "beforeDelete", "delete"},
            target : Ids, user : Users, draft : Row,
            provided : SUBSET Fields, before : Row \cup {NoRow}]

Finish(p)   == req' = [req EXCEPT ![p] = Idle]
Goto(p, to) == req' = [req EXCEPT ![p].pc = to]

TypeOK ==
    /\ outages \in [Ids -> Row \cup {NoRow}]
    /\ deleted \in SUBSET Ids
    /\ audit \in [Ids -> Seq(AuditEntry)]
    /\ req \in [Procs -> Request \cup {Idle}]

Init ==
    /\ outages = [i \in Ids |-> NoRow]
    /\ deleted = {}
    /\ audit = [i \in Ids |-> <<>>]
    /\ req = [p \in Procs |-> Idle]

(***************************************************************************)
(* CreateOutage: validation, then outage, reasons and CREATE audit entry   *)
(* in one transaction that appears whole or not at all.                     *)
(***************************************************************************)
CreateOutage(i, u, row) ==
    /\ outages[i] = NoRow
    /\ HasRoom(i)
    /\ Validate(row)
    /\ outages' = [outages EXCEPT ![i] = row]
    /\ Log(i, "CREATE", u, NoRow, row)
    /\ UNCHANGED <<deleted, req>>

\* A request has read outage i, live, and edited its copy into d.
Take(p, i, u, d, fields, label) ==
    /\ HasRoom(i)
    /\ req' = [req EXCEPT ![p] = [pc |-> label, target |-> i, user |-> u, draft |-> d,
                                 provided |-> fields, before |-> NoRow]]
    /\ UNCHANGED <<outages, deleted, audit>>

\* UpdateOutageJSON up to the manager call; a refused body changes nothing.
LoadForPatch(p, i, u, patch) ==
    /\ req[p] = Idle
    /\ Live(i)
    /\ "severity" \in DOMAIN patch => IsValidSeverity(patch["severity"])
    /\ Validate(ApplyPatch(outages[i], patch))
    /\ Take(p, i, u, ApplyPatch(outages[i], patch), DOMAIN patch, "manager")

\* A monitor's healthy report or the absent-report checker found the outage
\* among the active ones (end_time IS NULL) and ends its copy.
LoadForResolve(p, i, u) ==
    /\ req[p] = Idle
    /\ Live(i)
    /\ outages[i]["end_time"] = ""
    /\ Take(p, i, u, Resolved(outages[i]), {"end_time"}, "manager")

\* DeleteOutage reads the row before it deletes it.
LoadForDelete(p, i, u) ==
    /\ req[p] = Idle
    /\ Live(i)
    /\ Take(p, i, u, outages[i], {}, "beforeDelete")

\* UpdateOutage validates the copy and reads the row again, for Slack.
ManagerLoad(p) ==
    /\ req[p].pc = "manager"
    /\ IF Validate(req[p].draft) /\ Live(req[p].target)
         THEN Goto(p, "beforeUpdate")
         ELSE Finish(p)
    /\ UNCHANGED <<outages, deleted, audit>>

\* A hook that captures the object it is called on, which holds the edited copy.
CaptureOld_TakesCopy(p, to) ==
    /\ IF Live(req[p].target)
         THEN req' = [req EXCEPT ![p].pc = to, ![p].before = req[p].draft]
         ELSE Finish(p)
    /\ UNCHANGED <<outages, deleted, audit>>

\* The Before* hooks: First(&old) inside the transaction, an error if the row
\* is gone.
CaptureOld(p, to) ==
    /\ IF Live(req[p].target)
         THEN req' = [req EXCEPT ![p].pc = to, ![p].before = outages[req[p].target]]
         ELSE Finish(p)
    /\ UNCHANGED <<outages, deleted, audit>>

BeforeUpdate(p) == req[p].pc = "beforeUpdate" /\ CaptureOld(p, "update")
BeforeDelete(p) == req[p].pc = "beforeDelete" /\ CaptureOld(p, "delete")

\* Save without hooks: the row changes, no entry is written.
SaveOutage_SkipHooks(p) ==
    LET r == req[p]
    IN  /\ r.pc = "update"
        /\ outages' = IF Live(r.target) THEN [outages EXCEPT ![r.target] = r.draft] ELSE outages
        /\ Finish(p)
        /\ UNCHANGED <<deleted, audit>>

\* Save that falls back to an upsert of the row it no longer finds.
SaveOutage_Upsert(p) ==
    LET r == req[p]
    IN  /\ r.pc = "update"
        /\ HasRoom(r.target)
        /\ outages' = [outages EXCEPT ![r.target] = r.draft]
        /\ deleted' = deleted \ {r.target}
        /\ Log(r.target, "UPDATE", r.user, r.before, r.draft)
        /\ Finish(p)

\* An audit entry whose old side is the edited copy.
SaveOutage_LogsDraft(p) ==
    LET r == req[p]
    IN  /\ r.pc = "update"
        /\ IF Live(r.target)
             THEN /\ HasRoom(r.target)
                  /\ outages' = [outages EXCEPT ![r.target] = r.draft]
                  /\ Log(r.target, "UPDATE", r.user, r.draft, r.draft)
             ELSE UNCHANGED <<outages, audit>>
        /\ Finish(p)
        /\ UNCHANGED deleted

\* Save: UPDATE of every column WHERE deleted_at IS NULL.  When it matches no
\* row, AfterUpdate cannot reload it and the transaction rolls back.
SaveOutage(p) ==
    LET r == req[p]
    IN  /\ r.pc = "update"
        /\ IF Live(r.target)
             THEN /\ HasRoom(r.target)
                  /\ outages' = [outages EXCEPT ![r.target] = r.draft]
                  /\ Log(r.target, "UPDATE", r.user, r.before, r.draft)
             ELSE UNCHANGED <<outages, audit>>
        /\ Finish(p)
        /\ UNCHANGED deleted

\* A hard delete: the row is gone, its log stays.
DeleteOutage_Unscoped(p) ==
    LET r == req[p]
    IN  /\ r.pc = "delete"
        /\ HasRoom(r.target)
        /\ outages' = [outages EXCEPT ![r.target] = NoRow]
        /\ Log(r.target, "DELETE", r.user, r.before, NoRow)
        /\ Finish(p)
        /\ UNCHANGED deleted

\* Delete: sets deleted_at WHERE it IS NULL.  AfterDelete writes its audit
\* entry whether or not that matched a row.
DeleteOutage(p) ==
    LET r == req[p]
    IN  /\ r.pc = "delete"
        /\ HasRoom(r.target)
        /\ deleted' = deleted \cup {r.target}
        /\ Log(r.target, "DELETE", r.user, r.before, NoRow)
        /\ Finish(p)
        /\ UNCHANGED outages

\* A statement fails, or the dashboard stops: an open transaction rolls back.
Abort(p) ==
    /\ req[p] # Idle
    /\ Finish(p)
    /\ UNCHANGED <<outages, deleted, audit>>

Start(p) ==
    \E i \in Ids, u \in Users :
        \/ \E patch \in Patches : LoadForPatch(p, i, u, patch)
        \/ LoadForResolve(p, i, u)
        \/ LoadForDelete(p, i, u)

Step(p) ==
    \/ ManagerLoad(p)
    \/ BeforeUpdate(p)
    \/ BeforeDelete(p)
    \/ SaveOutage(p)
    \/ DeleteOutage(p)

Next ==
    \/ \E i \in Ids, u \in Users, row \in NewOutages : CreateOutage(i, u, row)
    \/ \E p \in Procs : Start(p) \/ Step(p) \/ Abort(p)

Spec == Init /\ [][Next]_vars

--------------------------------------------------------------------------------
(***************************************************************************)
(* Safety, whatever the interleaving.                                       *)
(***************************************************************************)

\* The audit log is the history of the row: an outage has entries exactly if it
\* was created, its first entry is the only CREATE, and the last entry that is
\* not a DELETE recorded as New what the row holds now (AfterUpdate reloads the
\* row before it logs).
LastRewrite(i, k) ==
    /\ audit[i][k].op # "DELETE"
    /\ \A m \in 1..Len(audit[i]) : m > k => audit[i][m].op = "DELETE"

Mirrors(i) ==
    /\ (audit[i] = <<>>) <=> (outages[i] = NoRow)
    /\ \A k \in 1..Len(audit[i]) :
          /\ (audit[i][k].op = "CREATE") <=> (k = 1)
          /\ LastRewrite(i, k) => audit[i][k].new = outages[i]

AuditMirrorsRow == \A i \in Ids : Mirrors(i)

\* A row is soft-deleted exactly when its log says so, and nothing but further
\* DELETE entries follows: a save that started before the deletion and commits
\* after it leaves no trace.
ClosedByDelete(i) ==
    /\ (i \in deleted) <=> \E k \in 1..Len(audit[i]) : audit[i][k].op = "DELETE"
    /\ \A k, m \in 1..Len(audit[i]) :
          (k < m /\ audit[i][k].op = "DELETE") => audit[i][m].op = "DELETE"

NothingAfterDelete == \A i \in Ids : ClosedByDelete(i)

\* Whatever commits between the hook's SELECT and the write, the old side of an
\* UPDATE or DELETE entry is a version of the outage that was committed and
\* logged before: never an unsaved copy, a row of a request that was rolled back
\* or no row at all (Outage.before reads the row, Outage.after logs it).
IsVersion(i, row, n) ==
    \E k \in 1..n : audit[i][k].op # "DELETE" /\ audit[i][k].new = row

OldSidesAreVersions ==
    \A i \in Ids : \A k \in 2..Len(audit[i]) : IsVersion(i, audit[i][k].old, k - 1)

\* A deleted outage never comes back and its row is never touched again,
\* whatever stale copies are still to be saved (SaveOutage's comment promises
\* the opposite for a row that does not exist).
DeletionIsFinal ==
    [][\A i \in deleted : i \in deleted' /\ outages'[i] = outages[i]]_vars

(***************************************************************************)
(* What holds of requests that do not overlap, and is lost when they do.    *)
(***************************************************************************)

\* Each audit entry starts from what the previous one ended with.
AuditChains ==
    \A i \in Ids : \A k \in 2..Len(audit[i]) :
        audit[i][k-1].op # "DELETE" => audit[i][k].old = audit[i][k-1].new

\* "UpdateOutageJSON updates an existing outage with the provided fields": a
\* save changes no field that its request was not asked to change.
SavesKeepOtherFields ==
    \A p \in Procs : SaveOutage(p) =>
        LET i == req[p].target
        IN \A f \in Fields :
               (outages[i] # NoRow /\ outages'[i][f] # outages[i][f])
                   => f \in req[p].provided

OnlyProvidedFieldsChange == [][SavesKeepOtherFields]_vars

(***************************************************************************)
(* The write path implements the audited table: what requests read, copy   *)
(* and hold between their statements never shows in it.                     *)
(***************************************************************************)
Table == INSTANCE AuditedTable WITH Rows <- Row

\* Every change of the table is one creation, one rewrite of a row that is not
\* deleted or one deletion, logged in the same step under the requesting user.
ImplementsTable == Table!TableSpec
================================================================================
