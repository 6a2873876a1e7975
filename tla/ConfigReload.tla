------------------------------ MODULE ConfigReload ------------------------------
(***************************************************************************)
(* The configuration manager both programs use, from the start of the      *)
(* program on, and the one thing each of them derives from the             *)
(* configuration: the component monitor its orchestrator, the dashboard    *)
(* its group membership.  The file changes under them at any time.          *)
(*                                                                         *)
(* Names that every specification has begin with Reload, so that a module  *)
(* about the monitor can extend this one and the orchestrator's.            *)
(*                                                                         *)
(* Contents of the file are numbers in the order they are written; only     *)
(* with Reverts is an earlier content ever written again.                   *)
(***************************************************************************)
EXTENDS Integers

CONSTANTS
    Contents,      \* what the file may hold
    Valid,         \* the contents loadFunc accepts
    Reverts,       \* whether the file may go back to an earlier content
    StartupEdits,  \* whether it may change while the program starts
    Faults         \* whether reads and the use of a new configuration may fail

ASSUME ReloadAssumption ==
    /\ Contents \subseteq Nat
    /\ Valid \subseteq Contents
    /\ Reverts \in BOOLEAN
    /\ StartupEdits \in BOOLEAN
    /\ Faults \in BOOLEAN

None == -1

VARIABLES
    file,      \* the content of the configuration file
    main,      \* how far main() is
    config,    \* manager.config
    lastHash,  \* manager.lastHash: the content it is the hash of
    poll,      \* the watcher's goroutine: reloadIfChanged
    newHash,   \* its local: the content hashed in this poll
    applied,   \* the configuration in use: what the orchestrator was created with
    refused    \* history: the last attempt to use a configuration failed

reloadVars == <<file, main, config, lastHash, poll, newHash, applied, refused>>

ReloadTypeOK ==
    /\ file \in Contents
    /\ main \in {"load", "hash", "apply", "register", "up", "dead"}
    /\ config \in Valid \cup {None}
    /\ lastHash \in Contents \cup {None}
    /\ poll \in {"idle", "load", "callback"}
    /\ newHash \in Contents \cup {None}
    /\ applied \in Valid \cup {None}
    /\ refused \in BOOLEAN

ReloadInit ==
    /\ file \in Contents
    /\ main = "load"
    /\ config = None
    /\ lastHash = None
    /\ poll = "idle"
    /\ newHash = None
    /\ applied = None
    /\ refused = FALSE

--------------------------------------------------------------------------------
(***************************************************************************)
(* main(): NewManager, Watch, the first use of the configuration, OnUpdate. *)
(***************************************************************************)
Load ==
    /\ main = "load"
    /\ IF file \in Valid
         THEN main' = "hash" /\ config' = file
         ELSE main' = "dead" /\ UNCHANGED config
    /\ UNCHANGED <<file, lastHash, poll, newHash, applied, refused>>

\* A file that cannot be read now leaves the hash empty.
HashAndWatch ==
    /\ main = "hash"
    /\ lastHash' = file \/ (Faults /\ UNCHANGED lastHash)
    /\ main' = "apply"
    /\ UNCHANGED <<file, config, poll, newHash, applied, refused>>

ApplyFirst ==
    /\ main = "apply"
    /\ \/ main' = "register" /\ applied' = config
       \/ Faults /\ main' = "dead" /\ UNCHANGED applied
    /\ UNCHANGED <<file, config, lastHash, poll, newHash, refused>>

OnUpdate ==
    /\ main = "register"
    /\ main' = "up"
    /\ UNCHANGED <<file, config, lastHash, poll, newHash, applied, refused>>

Start == Load \/ HashAndWatch \/ ApplyFirst \/ OnUpdate

--------------------------------------------------------------------------------
(***************************************************************************)
(* A tick of the watcher.  The file is read for its hash, and once more by  *)
(* loadFunc if the hash is new.                                             *)
(***************************************************************************)
Watching == main \in {"apply", "register", "up"}

HashIfChanged ==
    /\ Watching
    /\ poll = "idle"
    /\ file # lastHash
    /\ newHash' = file
    /\ poll' = "load"
    /\ UNCHANGED <<file, main, config, lastHash, applied, refused>>

Reload_HashBeforeLoad ==
    /\ Watching
    /\ poll = "load"
    /\ IF file \in Valid
         THEN /\ config' = file
              /\ poll' = IF main = "up" THEN "callback" ELSE "idle"
         ELSE poll' = "idle" /\ UNCHANGED config
    /\ lastHash' = newHash
    /\ newHash' = None
    /\ UNCHANGED <<file, main, applied, refused>>

Reload_HashAfterLoad ==
    /\ Watching
    /\ poll = "load"
    /\ \E later \in {c \in Contents : c >= file} :
         /\ config' = IF file \in Valid THEN file ELSE config
         /\ lastHash' = IF file \in Valid THEN later ELSE lastHash
         /\ file' = later
    /\ poll' = IF main = "up" /\ file \in Valid THEN "callback" ELSE "idle"
    /\ newHash' = None
    /\ UNCHANGED <<main, applied, refused>>

\* Content that does not load leaves configuration and hash alone, so that it is
\* tried again on the next tick.
Reload ==
    /\ Watching
    /\ poll = "load"
    /\ IF file \in Valid
         THEN /\ config' = file
              /\ lastHash' = newHash
              /\ poll' = IF main = "up" THEN "callback" ELSE "idle"
         ELSE /\ poll' = "idle"
              /\ UNCHANGED <<config, lastHash>>
    /\ newHash' = None
    /\ UNCHANGED <<file, main, applied, refused>>

Callback_KeepsOld ==
    /\ Watching
    /\ poll = "callback"
    /\ poll' = "idle"
    /\ applied' = IF applied = None THEN config ELSE applied
    /\ UNCHANGED <<file, main, config, lastHash, newHash, refused>>

\* The registered callbacks run without the lock, in the watcher's goroutine.
Callback ==
    /\ Watching
    /\ poll = "callback"
    /\ poll' = "idle"
    /\ \/ applied' = config /\ refused' = FALSE
       \/ Faults /\ UNCHANGED applied /\ refused' = TRUE
    /\ UNCHANGED <<file, main, config, lastHash, newHash>>

Poll == HashIfChanged \/ Reload \/ Callback

--------------------------------------------------------------------------------
Edit ==
    /\ main # "dead"
    /\ StartupEdits \/ main = "up"
    /\ \E c \in Contents :
         /\ c # file
         /\ Reverts \/ c > file
         /\ file' = c
    /\ UNCHANGED <<main, config, lastHash, poll, newHash, applied, refused>>

ReloadNext == Start \/ Poll \/ Edit

ReloadSpec == ReloadInit /\ [][ReloadNext]_reloadVars

\* Both goroutines run and the ticker ticks; nobody has to edit the file.
FairReloadSpec == ReloadSpec /\ WF_reloadVars(Start) /\ WF_reloadVars(Poll)

--------------------------------------------------------------------------------
(***************************************************************************)
(* Properties.                                                              *)
(***************************************************************************)
\* The watcher skips the file only when its content is the one served: no
\* content is remembered as loaded that was not.
SkippedOnlyWhenServed ==
    (Watching /\ poll = "idle" /\ file = lastHash) => config = file

\* "file update triggers reload on next poll": valid content that stays in the
\* file is served in the end.
FileIsServed ==
    \A v \in Valid : <>[](file = v) => <>[](config = v \/ main = "dead")

\* "If the monitoring config changes, we need to stop the current orchestrator
\* and start a new one with the new config": what is served in the end is used,
\* unless its use failed, which is not tried again.
ServedIsUsed ==
    \A v \in Valid : <>[](config = v) => <>[](applied = v \/ refused \/ main = "dead")
================================================================================
