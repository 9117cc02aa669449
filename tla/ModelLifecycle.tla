--------------------------- MODULE ModelLifecycle ---------------------------
(***************************************************************************)
(* Promotion of an uploaded model and what inference serves.               *)
(*                                                                         *)
(* An upload is validated in a staging directory and then moved, file by   *)
(* file, into models/ (core/inference/model_promotion.rs).  A watcher of   *)
(* that directory reloads the model from disk after a pause                *)
(* (model_watcher.rs); an administrator may also make inference dormant,   *)
(* or reload on request (adapter/http/detection/ml.rs).  Every rename and  *)
(* every read of a file is a step.  A file is represented by the version   *)
(* of the upload it came with; file 0 is the manifest, the others are the  *)
(* artifacts it names.                                                     *)
(***************************************************************************)
EXTENDS Integers, FiniteSets

CONSTANTS
    NumArtifacts,   \* artifacts a manifest names
    Uploads,        \* the uploads, by version number (2, 3, ...)
    Enablers,       \* requests to reload the model from disk
    Disablers,      \* requests to make inference dormant
    MaxFaults,      \* failing steps of a promotion, failing required audit writes
    MaxUndoFaults,  \* failing steps of a rollback
    MaxLoadFaults,  \* reloads of a complete model that fail (a timeout)
    MaxCrashes      \* restarts

ASSUME LifecycleAssumption ==
    /\ NumArtifacts \in Nat \ {0}
    /\ Uploads \subseteq Nat \ {0, 1}
    /\ {MaxFaults, MaxUndoFaults, MaxLoadFaults, MaxCrashes} \subseteq Nat

VARIABLES
    models,    \* models/: the version of every file, None where there is none
    backup,    \* the backup directory of the promotion in progress
    orphans,   \* files in backup directories that nobody will look at again
    audited,   \* versions with a model_swap row in the audit log
    gate,      \* PromoteGate: a promotion is in progress
    promo,     \* [Uploads -> progress of the promotion]
    event,     \* the channel from the file watcher is not empty
    load,      \* [Loaders -> progress of a reload]
    disable,   \* [Disablers -> progress of the request]
    model,     \* the state inference serves
    faults, undoFaults, loadFaults, crashes

vars == <<models, backup, orphans, audited, gate, promo, event, load, disable, model,
          faults, undoFaults, loadFaults, crashes>>
disk == <<models, backup, orphans>>
counters == <<faults, undoFaults, loadFaults, crashes>>

None == 0
Files == 0 .. NumArtifacts
Versions == {1} \cup Uploads
Watcher == "watcher"
Loaders == {Watcher} \cup Enablers

Empty == [f \in Files |-> None]
Whole(v) == [f \in Files |-> v]
Active(files) == [st |-> "active", files |-> files]
Dormant == [st |-> "dormant", files |-> Empty]
Error == [st |-> "error", files |-> Empty]
Complete(files) == \A f \in Files : files[f] # None

NoPromo == [pc |-> "idle", i |-> 0, err |-> FALSE, old |-> Empty]
NoLoad == [pc |-> "idle", i |-> 0, read |-> Empty, before |-> Dormant]
Reload(before) == [pc |-> "manifest", i |-> 0, read |-> Empty, before |-> before]

Fault == faults < MaxFaults /\ faults' = faults + 1 /\ UNCHANGED <<undoFaults, loadFaults, crashes>>
UndoFault == undoFaults < MaxUndoFaults /\ undoFaults' = undoFaults + 1 /\ UNCHANGED <<faults, loadFaults, crashes>>

\* The process has booted on a complete model of version 1.
Init ==
    /\ models = Whole(1) /\ backup = Empty /\ orphans = {}
    /\ audited = {} /\ gate = FALSE /\ event = FALSE
    /\ promo = [u \in Uploads |-> NoPromo]
    /\ load = [l \in Loaders |-> NoLoad]
    /\ disable = [d \in Disablers |-> "idle"]
    /\ model = Active(Whole(1))
    /\ faults = 0 /\ undoFaults = 0 /\ loadFaults = 0 /\ crashes = 0

-----------------------------------------------------------------------------
(* Promotion: validate_and_promote.                                        *)

Goto(u, pc, i) == promo' = [promo EXCEPT ![u].pc = pc, ![u].i = i]

\* The faulty variant that leaks the gate when the promotion failed half-way.
ReturnKeepsGate(u) == promo' = [promo EXCEPT ![u].pc = "done"] /\ gate' = promo[u].err

\* The gate is released when the promotion returns, with or without an error.
Return(u) == promo' = [promo EXCEPT ![u].pc = "done"] /\ gate' = FALSE

\* The promotion whose validation succeeded takes the gate; a second one is refused.
Begin(u) ==
    /\ promo[u].pc = "idle" /\ ~gate
    /\ gate' = TRUE
    /\ promo' = [promo EXCEPT ![u] = [pc |-> "audit", i |-> 0, err |-> FALSE, old |-> models]]
    /\ UNCHANGED <<disk, audited, event, load, disable, model, counters>>

\* The faulty variant that goes on when the audit row cannot be written.
AuditIgnored(u) ==
    /\ promo[u].pc = "audit"
    /\ \/ audited' = audited \cup {u} /\ UNCHANGED counters
       \/ Fault /\ UNCHANGED audited
    /\ Goto(u, "backup", 0) /\ UNCHANGED gate
    /\ UNCHANGED <<disk, event, load, disable, model>>

\* The required audit row comes before any file is touched.
Audit(u) ==
    /\ promo[u].pc = "audit"
    /\ \/ audited' = audited \cup {u} /\ Goto(u, "backup", 0) /\ UNCHANGED <<gate, counters>>
       \/ Fault /\ Return(u) /\ UNCHANGED audited
    /\ UNCHANGED <<disk, event, load, disable, model>>

\* The files of a backup directory that stays behind.
Abandoned == {<<f, backup[f]>> : f \in {g \in Files : backup[g] # None}}

\* The faulty variant that deletes the old files instead of keeping them.
BackupDeletes(u) ==
    /\ promo[u].pc = "backup"
    /\ LET f == promo[u].i IN
       /\ models' = [models EXCEPT ![f] = None]
       /\ event' = TRUE
       /\ IF f = NumArtifacts THEN Goto(u, "move", 1) ELSE Goto(u, "backup", f + 1)
    /\ UNCHANGED <<backup, orphans, audited, gate, load, disable, model, counters>>

\* backup_existing renames manifest and artifacts into the backup directory.
Backup(u) ==
    /\ promo[u].pc = "backup"
    /\ LET f == promo[u].i IN
       /\ backup' = [backup EXCEPT ![f] = models[f]]
       /\ models' = [models EXCEPT ![f] = None]
       /\ event' = (event \/ models[f] # None)
       /\ IF f = NumArtifacts THEN Goto(u, "move", 1) ELSE Goto(u, "backup", f + 1)
    /\ UNCHANGED <<orphans, audited, gate, load, disable, model, counters>>

\* A failed backup returns at once: nothing is moved back.
BackupErr(u) ==
    /\ promo[u].pc = "backup" /\ Fault
    /\ Return(u)
    /\ orphans' = orphans \cup Abandoned
    /\ backup' = Empty
    /\ UNCHANGED <<models, audited, event, load, disable, model>>

\* The artifacts move into models/ first, the manifest last.
Move(u) ==
    /\ promo[u].pc = "move"
    /\ LET f == promo[u].i IN
       /\ models' = [models EXCEPT ![f] = u]
       /\ IF f = 0 THEN Goto(u, "clean", 0)
          ELSE IF f = NumArtifacts THEN Goto(u, "move", 0) ELSE Goto(u, "move", f + 1)
    /\ event' = TRUE
    /\ UNCHANGED <<backup, orphans, audited, gate, load, disable, model, counters>>

\* The faulty variant that restores the backups first and then removes the targets.
MoveErrRestoresFirst(u) ==
    /\ promo[u].pc = "move" /\ Fault
    /\ promo' = [promo EXCEPT ![u] = [pc |-> "remove", i |-> 0, err |-> TRUE, old |-> promo[u].old]]
    /\ models' = [f \in Files |-> IF backup[f] # None THEN backup[f] ELSE models[f]]
    /\ backup' = Empty
    /\ event' = TRUE
    /\ UNCHANGED <<orphans, audited, gate, load, disable, model>>

MoveErr(u) ==
    /\ promo[u].pc = "move" /\ Fault
    /\ promo' = [promo EXCEPT ![u] = [pc |-> "remove", i |-> 0, err |-> TRUE, old |-> promo[u].old]]
    /\ UNCHANGED <<disk, audited, gate, event, load, disable, model>>

\* rollback_promote removes every target and then renames every backup back; a step
\* that fails is logged and skipped.
Remove(u, ok) ==
    /\ promo[u].pc = "remove"
    /\ LET f == promo[u].i IN
       /\ models' = IF ok THEN [models EXCEPT ![f] = None] ELSE models
       /\ event' = (event \/ models' # models)
       /\ IF f = NumArtifacts THEN Goto(u, "restore", 0) ELSE Goto(u, "remove", f + 1)
       /\ IF ok THEN UNCHANGED counters ELSE models[f] # None /\ UndoFault
    /\ UNCHANGED <<backup, orphans, audited, gate, load, disable, model>>

Restore(u, ok) ==
    /\ promo[u].pc = "restore"
    /\ LET f == promo[u].i
           back == ok /\ backup[f] # None
       IN /\ models' = IF back THEN [models EXCEPT ![f] = backup[f]] ELSE models
          /\ backup' = IF back THEN [backup EXCEPT ![f] = None] ELSE backup
          /\ event' = (event \/ back)
          /\ IF f = NumArtifacts THEN Goto(u, "clean", 0) ELSE Goto(u, "restore", f + 1)
          /\ IF ok THEN UNCHANGED counters ELSE backup[f] # None /\ UndoFault
    /\ UNCHANGED <<orphans, audited, gate, load, disable, model>>

\* cleanup_backup_dir deletes the backups, after a success and after a rollback; when
\* it fails the directory stays.
Clean(u, ok) ==
    /\ promo[u].pc = "clean"
    /\ Return(u)
    /\ orphans' = IF ok THEN orphans ELSE orphans \cup Abandoned
    /\ backup' = Empty
    /\ event' = (event \/ (ok /\ backup # Empty))
    /\ IF ok THEN UNCHANGED counters ELSE UndoFault
    /\ UNCHANGED <<models, audited, load, disable, model>>

-----------------------------------------------------------------------------
(* Reload: ModelWatcher::run and reload_model_from_disk.                   *)

LoadGoto(l, pc) == load' = [load EXCEPT ![l].pc = pc]

\* The watcher takes one event and sleeps.
Notice ==
    /\ load[Watcher].pc = "idle" /\ event
    /\ LoadGoto(Watcher, "debounce")
    /\ UNCHANGED <<disk, audited, gate, promo, event, disable, model, counters>>

\* After the pause it drains the channel and reloads.
Drain ==
    /\ load[Watcher].pc = "debounce"
    /\ event' = FALSE
    /\ load' = [load EXCEPT ![Watcher] = Reload(Dormant)]
    /\ UNCHANGED <<disk, audited, gate, promo, disable, model, counters>>

\* enable_current_model remembers the state before it reloads.
Enable(e) ==
    /\ load[e].pc = "idle"
    /\ load' = [load EXCEPT ![e] = Reload(model)]
    /\ UNCHANGED <<disk, audited, gate, promo, event, disable, model, counters>>

\* Where a reload ends: the watcher waits again, a request goes on or is answered.
Finished(l, success) ==
    IF l = Watcher THEN "idle" ELSE IF success THEN "audit" ELSE "done"

ReadManifest(l) ==
    /\ load[l].pc = "manifest"
    /\ IF models[0] = None
       THEN model' = Dormant /\ LoadGoto(l, Finished(l, FALSE))
       ELSE /\ load' = [load EXCEPT ![l].pc = "artifact", ![l].i = 1, ![l].read = [Empty EXCEPT ![0] = models[0]]]
            /\ UNCHANGED model
    /\ UNCHANGED <<disk, audited, gate, promo, event, disable, counters>>

\* build_adapter loads the artifacts one by one; a missing one is an error.
ReadArtifact(l) ==
    /\ load[l].pc = "artifact"
    /\ LET f == load[l].i IN
       load' = [load EXCEPT ![l].read = [@ EXCEPT ![f] = models[f]],
                            ![l].i = @ + 1,
                            ![l].pc = CASE models[f] = None -> "error"
                                        [] f = NumArtifacts -> "built"
                                        [] OTHER -> "artifact"]
    /\ UNCHANGED <<disk, audited, gate, promo, event, disable, model, counters>>

\* A mixture of versions may or may not build; one version builds unless it times out.
BuildErr(l) ==
    /\ load[l].pc = "built"
    /\ LoadGoto(l, "error")
    /\ IF \E v \in Versions : load[l].read = Whole(v)
       THEN loadFaults < MaxLoadFaults /\ loadFaults' = loadFaults + 1 /\ UNCHANGED <<faults, undoFaults, crashes>>
       ELSE UNCHANGED counters
    /\ UNCHANGED <<disk, audited, gate, promo, event, disable, model>>

\* The faulty variant that drains the channel after the reload instead of before.
SwapThenDrain(l) ==
    /\ load[l].pc = "built"
    /\ model' = Active(load[l].read)
    /\ LoadGoto(l, Finished(l, TRUE))
    /\ event' = FALSE
    /\ UNCHANGED <<disk, audited, gate, promo, disable, counters>>

Swap(l) ==
    /\ load[l].pc = "built"
    /\ model' = Active(load[l].read)
    /\ LoadGoto(l, Finished(l, TRUE))
    /\ UNCHANGED <<disk, audited, gate, promo, event, disable, counters>>

\* record_error looks whether a model is active, and then stores the error.
RecordError(l) ==
    /\ load[l].pc = "error"
    /\ LoadGoto(l, IF model.st = "active" THEN Finished(l, FALSE) ELSE "store")
    /\ UNCHANGED <<disk, audited, gate, promo, event, disable, model, counters>>

StoreError(l) ==
    /\ load[l].pc = "store"
    /\ model' = Error
    /\ LoadGoto(l, Finished(l, FALSE))
    /\ UNCHANGED <<disk, audited, gate, promo, event, disable, counters>>

\* enable_current_model needs an audit row, or swaps the former state back.
EnableAudit(e) ==
    /\ load[e].pc = "audit"
    /\ LoadGoto(e, "done")
    /\ \/ UNCHANGED <<model, counters>>
       \/ Fault /\ model' = load[e].before
    /\ UNCHANGED <<disk, audited, gate, promo, event, disable>>

\* delete_current_model: the audit row first, then the swap.
DisableAudit(d) ==
    /\ disable[d] = "idle" /\ model.st # "dormant"
    /\ \/ disable' = [disable EXCEPT ![d] = "swap"] /\ UNCHANGED counters
       \/ disable' = [disable EXCEPT ![d] = "done"] /\ Fault
    /\ UNCHANGED <<disk, audited, gate, promo, event, load, model>>

DisableSwap(d) ==
    /\ disable[d] = "swap"
    /\ disable' = [disable EXCEPT ![d] = "done"]
    /\ model' = Dormant
    /\ UNCHANGED <<disk, audited, gate, promo, event, load, counters>>

\* A restart: the tasks, the gate and the served model are gone; the boot builds the
\* model from disk before any task starts (InferenceRuntime::new).
Crash ==
    /\ crashes < MaxCrashes /\ crashes' = crashes + 1 /\ UNCHANGED <<faults, undoFaults, loadFaults>>
    /\ orphans' = orphans \cup Abandoned
    /\ backup' = Empty
    /\ gate' = FALSE /\ event' = FALSE
    /\ promo' = [u \in Uploads |-> IF promo[u].pc = "idle" THEN NoPromo ELSE [promo[u] EXCEPT !.pc = "done"]]
    /\ load' = [l \in Loaders |-> NoLoad]
    /\ disable' = [d \in Disablers |-> "idle"]
    /\ model' = CASE models[0] = None -> Dormant
                  [] Complete(models) -> Active(models)
                  [] OTHER -> Error
    /\ UNCHANGED <<models, audited>>

PromoStep(u) == Audit(u) \/ Backup(u) \/ Move(u) \/ Remove(u, TRUE) \/ Restore(u, TRUE) \/ Clean(u, TRUE)
PromoErr(u) == BackupErr(u) \/ MoveErr(u) \/ Remove(u, FALSE) \/ Restore(u, FALSE) \/ Clean(u, FALSE)
LoadStep(l) == ReadManifest(l) \/ ReadArtifact(l) \/ Swap(l) \/ RecordError(l) \/ StoreError(l)

Next ==
    \/ \E u \in Uploads : Begin(u) \/ PromoStep(u) \/ PromoErr(u)
    \/ Notice \/ Drain
    \/ \E l \in Loaders : LoadStep(l) \/ BuildErr(l)
    \/ \E e \in Enablers : Enable(e) \/ EnableAudit(e)
    \/ \E d \in Disablers : DisableAudit(d) \/ DisableSwap(d)
    \/ Crash

Spec == Init /\ [][Next]_vars

(* A promotion that has started runs to its end, and the watcher reacts to *)
(* events and finishes its reload.                                         *)
FairSpec ==
    /\ Spec
    /\ \A u \in Uploads : WF_vars(PromoStep(u))
    /\ WF_vars(Notice \/ Drain \/ LoadStep(Watcher))

-----------------------------------------------------------------------------
(* Properties.                                                             *)

States == {Dormant, Error} \cup {Active(f) : f \in [Files -> Versions]}

(* Type invariant.                                                         *)
TypeOK ==
    /\ models \in [Files -> {None} \cup Versions]
    /\ backup \in [Files -> {None} \cup Versions]
    /\ orphans \subseteq Files \X Versions
    /\ audited \subseteq Uploads
    /\ gate \in BOOLEAN /\ event \in BOOLEAN
    /\ gate <=> \E u \in Uploads : promo[u].pc \notin {"idle", "done"}
    /\ \A u \in Uploads : promo[u].i \in Files
    /\ model \in States
    /\ \A l \in Loaders : load[l].pc = "built" => Complete(load[l].read)

(* "required_audit_failure_prevents_file_promotion": no file of an upload  *)
(* is ever in models/, where a restart or a reload would serve it, without *)
(* the audit row of its promotion; and inference serves no such file.      *)
ServedIsAudited ==
    \A f \in Files : {models[f], model.files[f]} \subseteq {None, 1} \cup audited

(* Whatever fails or crashes on the way, one complete model can still be   *)
(* put together from models/ and the backup directories, as long as the    *)
(* rollback steps themselves succeed.                                      *)
ModelSurvives ==
    undoFaults = 0 =>
        \E v \in Versions : \A f \in Files : models[f] = v \/ backup[f] = v \/ <<f, v>> \in orphans

(* "promote_files_rolls_back_active_files": a promotion whose move fails   *)
(* leaves models/ as it found it (rollback_promote).                       *)
MoveFailureRollsBack ==
    [][\A u \in Uploads :
          promo[u].pc = "clean" /\ promo[u].err /\ promo'[u].pc = "done" /\ crashes' = crashes /\ undoFaults' = 0
              => models' = promo[u].old]_vars

(* The same for every failed promotion, whichever of its steps failed.     *)
FailureRollsBack ==
    [][\A u \in Uploads :
          promo[u].pc \notin {"idle", "done"} /\ promo'[u].pc = "done" /\ crashes' = crashes /\ undoFaults' = 0
              => models' \in {promo[u].old, Whole(u)}]_vars

(* Inference catches up with the disk: once no more uploads are promoted,  *)
(* it serves the complete model that is in models/, although reloads ran   *)
(* while files were being moved (the watcher drains before it reads).      *)
CatchesUp == <>[](Complete(models) => model = Active(models))
=============================================================================
