-------------------------- MODULE ModelActivation --------------------------
(***************************************************************************)
(* Changing the selected model of an installed LumaOS (model.rs,           *)
(* model/validation.rs, model/supervision.rs).  The configuration is three *)
(* files: the broker credential, the reference environment and the         *)
(* selection.  They are replaced one after the other behind two records,   *)
(* the private backup of what was there and the activation marker; the new *)
(* configuration then runs as a trial under a controller, and a failure    *)
(* publishes a quarantine.  A worker starts, and goes on running, only     *)
(* where no record is pending, and every record left by an interruption    *)
(* is cleared only by a reviewed command.                                  *)
(*                                                                         *)
(* A review names the digest of all it looked at.  A command whose review  *)
(* names anything else changes nothing, so a command is simply taken in    *)
(* the state it was reviewed in.  A file written with create_new is Torn   *)
(* until it is complete; write_atomic replaces a file in one step.         *)
(***************************************************************************)
EXTENDS Integers, TLAPS

CONSTANTS
    Profile,     \* the models of the image's catalog
    Absent,      \* no file, no value
    Torn,        \* a file whose write was interrupted
    MaxKey,      \* bound: credentials generated
    MaxFaults    \* bound: controllers killed and power losses

Choice == ({"broker", "legacy"} \X Profile) \cup {Absent}
Conf == [selection : Choice, env : Choice, key : Nat \cup {Absent}]
Backup == [candidate : Profile, conf : Conf]
Marker == [candidate : Profile, prior : Conf]
Rollback == [completed : Conf, candidate : Profile, prior : Conf]

\* No file, and a torn one, are told from every content, and no credential from any.
ASSUME ActivationAssumption ==
    /\ Absent /= Torn
    /\ Absent \notin Nat
    /\ {Absent, Torn} \cap (Conf \cup Backup \cup Marker \cup Rollback) = {}

VARIABLES
    conf,        \* model-selection.json, the reference environment, api-key
    weights,     \* profiles whose weights are on disk and verify
    backup,      \* model-activation.prior
    marker,      \* model-activation.pending
    rollback,    \* model-rollback.json: the one undo record
    quarantine,  \* model-quarantine.json
    trial,       \* model-validation.pending
    archive,     \* the retained copies of quarantine and trial
    job,         \* the command that holds the operation lock
    worker,      \* luma-model.service, which holds the runtime lock
    keys,        \* credentials generated so far
    faults

activationVars == <<conf, weights, backup, marker, rollback, quarantine, trial, archive,
                    job, worker, keys, faults>>

Exposed == 0                          \* the credential of a legacy environment

Idle == [op |-> "idle", locked |-> FALSE]
NoConf == [selection |-> Absent, env |-> Absent, key |-> Absent]

\* broker_selection, reference_environment and their legacy forms
Selected(p) == <<"broker", p>>
LegacyConf(p) == [selection |-> <<"legacy", p>>, env |-> <<"legacy", p>>, key |-> Exposed]
Configured(p, k) == [selection |-> Selected(p), env |-> Selected(p), key |-> k]

\* prior_restore_profile: nothing at all, or three files that agree
Whole(c, p) == c.key /= Absent /\ c = Configured(p, c.key)
Private(c) == c = NoConf \/ \E p \in Profile : Whole(c, p)
Restorable(c) == c = NoConf \/ \E p \in weights : Whole(c, p)

-----------------------------------------------------------------------------
(* Fences. *)

activation_records_absent == marker = Absent /\ backup = Absent
activation_absent == activation_records_absent /\ quarantine = Absent /\ trial = Absent

\* The controller of a trial is alive while its command runs
Controlled(t) == /\ t \notin {Absent, Torn}
                 /\ job.op \in {"install", "activate"} /\ job.pc \in {"restart", "validate"}

worker_admission(p) ==
    /\ activation_records_absent
    /\ quarantine = Absent
    /\ conf.selection = Selected(p)
    /\ trial /= Absent =>
          /\ Controlled(trial)
          /\ trial.candidate = p
          /\ trial.conf.selection = conf.selection /\ trial.conf.key = conf.key

\* runtime_lock: one worker, or one command that changes the configuration
Unlocked == worker = Absent

-----------------------------------------------------------------------------
(* The worker. *)

Files == <<conf, weights, backup, marker, rollback, quarantine, trial, archive, keys>>

\* serve, up to the verification of the weights
StartWorker ==
    \E p \in Profile :
        /\ worker = Absent
        /\ ~job.locked
        /\ worker_admission(p)
        /\ worker' = [pc |-> "starting", profile |-> p]
        /\ UNCHANGED <<Files, job, faults>>

\* ... checked again before the runtime is spawned, and Fence::capture
SpawnRuntime ==
    /\ worker /= Absent /\ worker.pc = "starting"
    /\ worker_admission(worker.profile)
    /\ worker.profile \in weights
    /\ conf.key /= Absent
    /\ worker' = [pc |-> "running", profile |-> worker.profile, key |-> conf.key, trial |-> trial]
    /\ UNCHANGED <<Files, job, faults>>

FenceHolds ==
    /\ worker_admission(worker.profile)
    /\ worker.pc = "running" =>
          /\ conf.key = worker.key
          /\ trial \in {Absent, worker.trial}

\* supervision::run, every half second: the owned child is killed and reaped
Supervise ==
    /\ worker /= Absent
    /\ ~FenceHolds
    /\ worker' = Absent
    /\ UNCHANGED <<Files, job, faults>>

WorkerExits ==
    /\ worker /= Absent
    /\ worker' = Absent
    /\ UNCHANGED <<Files, job, faults>>

-----------------------------------------------------------------------------
(* Commands: the first step takes the operation lock. *)

Begin(op, pc, p, target, locked) ==
    /\ job = Idle
    /\ job' = [op |-> op, pc |-> pc, candidate |-> p, target |-> target, locked |-> locked]

Goto(pc) == job' = [job EXCEPT !.pc = pc]
At(pc) == job.op /= "idle" /\ job.pc = pc

preflight == activation_absent

\* install and provision: preflight_at, and prepare_model fetches and verifies
Install ==
    \E p \in Profile, op \in {"install", "provision"} :
        /\ preflight
        /\ weights' = weights \union {p}
        /\ Begin(op, IF op = "install" THEN "stop" ELSE "lock", p, Absent, FALSE)
        /\ UNCHANGED <<conf, backup, marker, rollback, quarantine, trial, archive, worker, keys, faults>>

\* activate: the records come before the old generation is retired
Activate ==
    \E p \in weights :
        /\ activation_absent
        /\ Begin("activate", "backup", p, Absent, FALSE)
        /\ UNCHANGED <<Files, worker, faults>>

\* legacy_configuration_at, then the services are stopped
legacy_configuration(p) == activation_absent /\ conf = LegacyConf(p)

MigrateLegacy ==
    \E p \in weights :
        /\ legacy_configuration(p)
        /\ Begin("migrate", "stop", p, Absent, FALSE)
        /\ UNCHANGED <<Files, worker, faults>>

\* Stop the worker and take the runtime lock; a worker that is back is an error
StopWorker ==
    /\ At("stop")
    /\ worker' = Absent
    /\ Goto("lock")
    /\ UNCHANGED <<Files, faults>>

\* activate_cached_with_guard, migrate_legacy_at: nothing pending under the lock
Lock ==
    /\ At("lock")
    /\ Unlocked
    /\ activation_absent
    /\ job.candidate \in weights
    /\ job' = [job EXCEPT !.pc = "backup", !.locked = TRUE]
    /\ UNCHANGED <<Files, worker, faults>>

\* activate waits until the revoked generation is gone, and finds its marker
Retired ==
    /\ At("retired")
    /\ Unlocked
    /\ job' = [job EXCEPT !.pc = "key", !.locked = TRUE]
    /\ UNCHANGED <<Files, worker, faults>>

-----------------------------------------------------------------------------
(* begin_activation_records *)

CreateBackup ==
    /\ At("backup")
    /\ activation_records_absent
    /\ backup' = Torn
    /\ Goto("saved")
    /\ UNCHANGED <<conf, weights, marker, rollback, quarantine, trial, archive, worker, keys, faults>>

WriteBackup_Unmarked ==
    /\ At("saved")
    /\ backup' = [candidate |-> job.candidate, conf |-> conf]
    /\ Goto("key")
    /\ UNCHANGED <<conf, weights, marker, rollback, quarantine, trial, archive, worker, keys, faults>>

WriteBackup ==
    /\ At("saved")
    /\ backup' = [candidate |-> job.candidate, conf |-> conf]
    /\ Goto("mark")
    /\ UNCHANGED <<conf, weights, marker, rollback, quarantine, trial, archive, worker, keys, faults>>

CreateMarker ==
    /\ At("mark")
    /\ backup.conf = conf
    /\ marker' = Torn
    /\ Goto("marked")
    /\ UNCHANGED <<conf, weights, backup, rollback, quarantine, trial, archive, worker, keys, faults>>

WriteMarker ==
    /\ At("marked")
    /\ marker' = [candidate |-> job.candidate, prior |-> backup.conf]
    /\ Goto(IF job.op = "activate" THEN "retired" ELSE "key")
    /\ UNCHANGED <<conf, weights, backup, rollback, quarantine, trial, archive, worker, keys, faults>>

-----------------------------------------------------------------------------
(* write_candidate_config rotates the credential; write_prior_configuration *)
(* puts back the target.  Both write the selection last.                    *)

Restoring == job.target /= Absent
Written(file, fresh) == IF Restoring THEN job.target[file] ELSE fresh

WriteKey ==
    /\ At("key")
    /\ Restoring \/ keys < MaxKey
    /\ conf' = [conf EXCEPT !.key = Written("key", keys + 1)]
    /\ keys' = IF Restoring THEN keys ELSE keys + 1
    /\ Goto("env")
    /\ UNCHANGED <<weights, backup, marker, rollback, quarantine, trial, archive, worker, faults>>

WriteEnv ==
    /\ At("env")
    /\ conf' = [conf EXCEPT !.env = Written("env", Selected(job.candidate))]
    /\ Goto("selection")
    /\ UNCHANGED <<weights, backup, marker, rollback, quarantine, trial, archive, worker, keys, faults>>

AfterSelection ==
    CASE job.op \in {"install", "activate"} -> "trial"
      [] job.op = "rollback" -> "consume"
      [] job.op = "restore" -> "unbackup"
      [] OTHER -> "retain"

WriteSelection ==
    /\ At("selection")
    /\ conf' = [conf EXCEPT !.selection = Written("selection", Selected(job.candidate))]
    /\ Goto(AfterSelection)
    /\ UNCHANGED <<weights, backup, marker, rollback, quarantine, trial, archive, worker, keys, faults>>

-----------------------------------------------------------------------------
(* The trial, and the end of an activation. *)

\* Guard::begin
CreateTrial ==
    /\ At("trial")
    /\ trial = Absent
    /\ Whole(conf, job.candidate) /\ job.candidate \in weights
    /\ trial' = Torn
    /\ archive' = [archive EXCEPT !.trial = Absent]
    /\ Goto("tried")
    /\ UNCHANGED <<conf, weights, backup, marker, rollback, quarantine, worker, keys, faults>>

WriteTrial ==
    /\ At("tried")
    /\ trial' = [candidate |-> job.candidate, conf |-> conf]
    /\ Goto("retain")
    /\ UNCHANGED <<conf, weights, backup, marker, rollback, quarantine, archive, worker, keys, faults>>

\* observe_activation
Unchanged == conf = marker.prior
Rotated == \/ marker.prior.key = Absent
           \/ conf.key /= marker.prior.key
           \/ backup /= Absent /\ Private(backup.conf)
Candidate == Whole(conf, marker.candidate) /\ Rotated

Phase == CASE Unchanged -> "unchanged_prior_state"
           [] ~Unchanged /\ Candidate /\ marker.candidate \in weights -> "consistent_candidate_committed"
           [] OTHER -> "partial_or_conflicting_state"

\* retain_completed_prior: the undo record replaces the last one
RetainPrior ==
    /\ At("retain")
    /\ Candidate
    /\ rollback' = IF backup = Absent THEN rollback
                   ELSE [completed |-> conf, candidate |-> job.candidate, prior |-> backup.conf]
    /\ Goto("unbackup")
    /\ UNCHANGED <<conf, weights, backup, marker, quarantine, trial, archive, worker, keys, faults>>

\* clear_activation: the backup goes first, so that the marker outlives it
RemoveBackup ==
    /\ At("unbackup")
    /\ backup' = Absent
    /\ Goto("unmark")
    /\ UNCHANGED <<conf, weights, marker, rollback, quarantine, trial, archive, worker, keys, faults>>

RemoveMarker ==
    /\ At("unmark")
    /\ marker' = Absent
    /\ IF job.op \in {"install", "activate"}
          THEN job' = [job EXCEPT !.pc = "restart", !.locked = FALSE]
          ELSE job' = Idle
    /\ UNCHANGED <<conf, weights, backup, rollback, quarantine, trial, archive, worker, keys, faults>>

\* checked_restart_steps: systemd starts the new worker
Restart ==
    /\ At("restart")
    /\ Goto("validate")
    /\ UNCHANGED <<Files, worker, faults>>

\* wait_current_gateway: the worker that answers is the candidate's
GatewayCurrent == worker /= Absent /\ worker.pc = "running" /\ worker.profile = job.candidate

\* Guard::check
TrialCurrent == trial = [candidate |-> job.candidate, conf |-> conf]

\* Guard::complete
CompleteTrial ==
    /\ At("validate")
    /\ GatewayCurrent
    /\ activation_records_absent /\ quarantine = Absent
    /\ TrialCurrent
    /\ trial' = Absent
    /\ IF job.op = "activate" THEN Goto("completed") ELSE job' = Idle
    /\ UNCHANGED <<conf, weights, backup, marker, rollback, quarantine, archive, worker, keys, faults>>

\* activate checks its authority once more, which may still fail
ActivateCompletes ==
    /\ At("completed")
    /\ job' = Idle
    /\ UNCHANGED <<Files, worker, faults>>

\* finish_reconfiguration: a stage fails, the quarantine is published first
CreateQuarantine ==
    /\ job.op \in {"install", "activate"} /\ job.pc \in {"restart", "validate", "completed"}
    /\ quarantine = Absent
    /\ quarantine' = Torn
    /\ archive' = [archive EXCEPT !.quarantine = Absent]
    /\ Goto("quarantined")
    /\ UNCHANGED <<conf, weights, backup, marker, rollback, trial, worker, keys, faults>>

WriteQuarantine ==
    /\ At("quarantined")
    /\ quarantine' = job.candidate
    /\ Goto("stopping")
    /\ UNCHANGED <<conf, weights, backup, marker, rollback, trial, archive, worker, keys, faults>>

StopFailed ==
    /\ At("stopping")
    /\ worker' = Absent
    /\ job' = Idle
    /\ UNCHANGED <<Files, faults>>

-----------------------------------------------------------------------------
(* Reviewed reconciliation, under both locks. *)

\* bound_prior_backup: the backup, if it is there, is the one the marker names
Bound == backup = [candidate |-> marker.candidate, conf |-> marker.prior]
Pending == marker \notin {Absent, Torn} /\ (backup /= Absent => Bound)

\* --abort-unchanged and --publish-committed
ClearActivation ==
    /\ Unlocked /\ Pending
    /\ Phase /= "partial_or_conflicting_state"
    /\ Begin("clear", IF Unchanged THEN "unbackup" ELSE "retain", marker.candidate, Absent, TRUE)
    /\ UNCHANGED <<Files, worker, faults>>

\* --complete-candidate
CompleteCandidate ==
    /\ Unlocked /\ Pending
    /\ Phase = "partial_or_conflicting_state"
    /\ marker.candidate \in weights
    /\ Begin("complete", "key", marker.candidate, Absent, TRUE)
    /\ UNCHANGED <<Files, worker, faults>>

\* --restore-prior
RestorePrior ==
    /\ Unlocked /\ Pending
    /\ backup /= Absent /\ Restorable(backup.conf)
    /\ Begin("restore", "key", marker.candidate, backup.conf, TRUE)
    /\ UNCHANGED <<Files, worker, faults>>

\* observe_orphan_backup
OrphanUnchanged == marker = Absent /\ backup \notin {Absent, Torn} /\ backup.conf = conf

\* --discard-orphan-backup
DiscardOrphan ==
    /\ job = Idle /\ Unlocked
    /\ OrphanUnchanged
    /\ backup' = Absent
    /\ UNCHANGED <<conf, weights, marker, rollback, quarantine, trial, archive, job, worker, keys, faults>>

\* observe_rollback
RollbackRestorable ==
    /\ activation_records_absent
    /\ rollback /= Absent
    /\ conf = rollback.completed
    /\ Restorable(rollback.prior)

\* model-rollback --restore-prior, which a quarantine does not prevent
CompletedRollback ==
    /\ Unlocked
    /\ RollbackRestorable
    /\ Begin("rollback", "backup", rollback.candidate, rollback.prior, TRUE)
    /\ UNCHANGED <<Files, worker, faults>>

\* The undo record is consumed before the fence is released
ConsumeRollback ==
    /\ At("consume")
    /\ conf = job.target
    /\ rollback' = Absent
    /\ Goto("unbackup")
    /\ UNCHANGED <<conf, weights, backup, marker, quarantine, trial, archive, worker, keys, faults>>

\* observe_quarantine
QuarantineClearable ==
    /\ activation_records_absent
    /\ quarantine \in Profile
    /\ Restorable(conf)

\* reviewed_clear_quarantine
ClearQuarantine ==
    /\ job = Idle /\ Unlocked
    /\ QuarantineClearable
    /\ quarantine' = Absent
    /\ UNCHANGED <<conf, weights, backup, marker, rollback, trial, archive, job, worker, keys, faults>>

\* A record is copied before it is removed; a torn copy is a conflict
Retain(kind) ==
    /\ Unlocked
    /\ archive[kind] /= Torn
    /\ Begin("retain", "archive", Absent, [kind |-> kind], TRUE)
    /\ archive' = [archive EXCEPT ![kind] = IF @ = Absent THEN Torn ELSE @]
    /\ UNCHANGED <<conf, weights, backup, marker, rollback, quarantine, trial, worker, keys, faults>>

\* observe_incomplete_quarantine, reviewed_retain_incomplete_quarantine
QuarantineIncomplete == activation_records_absent /\ quarantine = Torn /\ Restorable(conf)
RetainQuarantine == QuarantineIncomplete /\ Retain("quarantine")

\* inspect_locked and retain_abandoned: no controller holds the trial's lease
TrialAbandoned == activation_records_absent /\ trial \notin {Absent, Torn} /\ Restorable(conf)
RetainAbandoned == TrialAbandoned /\ Retain("trial")

\* inspect_incomplete_locked and retain_incomplete
TrialIncomplete == activation_records_absent /\ trial = Torn /\ Restorable(conf)
RetainIncomplete == TrialIncomplete /\ Retain("trial")

\* retain_bytes writes and syncs the copy
WriteArchive ==
    /\ At("archive")
    /\ archive' = [archive EXCEPT ![job.target.kind] = "whole"]
    /\ Goto("unretain")
    /\ UNCHANGED <<conf, weights, backup, marker, rollback, quarantine, trial, worker, keys, faults>>

RemoveRetained ==
    /\ At("unretain")
    /\ quarantine' = IF job.target.kind = "quarantine" THEN Absent ELSE quarantine
    /\ trial' = IF job.target.kind = "trial" THEN Absent ELSE trial
    /\ job' = Idle
    /\ UNCHANGED <<conf, weights, backup, marker, rollback, archive, worker, keys, faults>>

activation_reconcile == ClearActivation \/ CompleteCandidate \/ RestorePrior \/ DiscardOrphan
rollback_reconcile == CompletedRollback \/ ConsumeRollback
quarantine_reconcile == ClearQuarantine \/ RetainQuarantine
validation_reconcile == RetainAbandoned \/ RetainIncomplete

-----------------------------------------------------------------------------
(* A command may fail at any check, or be killed: it leaves what is there.  *)

Fail ==
    /\ job /= Idle
    /\ faults < MaxFaults
    /\ faults' = faults + 1
    /\ job' = Idle
    /\ UNCHANGED <<Files, worker>>

PowerLoss ==
    /\ faults < MaxFaults
    /\ faults' = faults + 1
    /\ job' = Idle /\ worker' = Absent
    /\ UNCHANGED Files

-----------------------------------------------------------------------------
ActivationInit ==
    /\ \E p \in Profile : conf \in {NoConf, LegacyConf(p), Configured(p, 1)}
    /\ weights = {p \in Profile : conf \in {LegacyConf(p), Configured(p, 1)}}
    /\ backup = Absent /\ marker = Absent /\ rollback = Absent
    /\ quarantine = Absent /\ trial = Absent
    /\ archive = [quarantine |-> Absent, trial |-> Absent]
    /\ job = Idle /\ worker = Absent
    /\ keys = IF conf.key = 1 THEN 1 ELSE 0
    /\ faults = 0

Work ==
    \/ StartWorker \/ SpawnRuntime \/ WorkerExits
    \/ Install \/ Activate \/ MigrateLegacy \/ StopWorker \/ Lock \/ Retired
    \/ CreateBackup \/ WriteBackup \/ CreateMarker \/ WriteMarker
    \/ WriteKey \/ WriteEnv \/ WriteSelection
    \/ CreateTrial \/ WriteTrial \/ RetainPrior \/ RemoveBackup \/ RemoveMarker
    \/ Restart \/ CompleteTrial \/ ActivateCompletes \/ CreateQuarantine \/ WriteQuarantine \/ StopFailed
    \/ activation_reconcile \/ rollback_reconcile
    \/ quarantine_reconcile \/ validation_reconcile \/ WriteArchive \/ RemoveRetained
    \/ Fail \/ PowerLoss

ActivationNext == Supervise \/ Work

ActivationSpec == ActivationInit /\ [][ActivationNext]_activationVars /\ WF_activationVars(Supervise)

-----------------------------------------------------------------------------
(* Properties. *)

\* What was configured is never lost.  Wherever an interruption leaves the
\* three files neither absent nor of one activation (and not the untouched
\* legacy ones), the marker is there, complete, so that the activation can be
\* completed, and so is the backup with the exact prior files, so that it can
\* be undone unless they are legacy ones.  The one marker that can outlive its
\* backup and be completed again is that of a rollback interrupted while its
\* records are cleared: what it would put back is its own candidate.
PriorIsRecoverable ==
    \/ Private(conf)
    \/ \E p \in Profile : conf = LegacyConf(p)
    \/ /\ marker \notin {Absent, Torn}
       /\ IF backup = Absent
             THEN Whole(marker.prior, marker.candidate)
             ELSE /\ backup = [candidate |-> marker.candidate, conf |-> marker.prior]
                  /\ Private(backup.conf) \/ \E p \in Profile : backup.conf = LegacyConf(p)
-----------------------------------------------------------------------------
(* PriorIsRecoverable, for any catalog of profiles and any number of interruptions.  It is not
   inductive by itself: what the records say has to be tied to the step at which a command is, and
   a marker without its backup to the configuration beside it. *)

Op == {"install", "provision", "activate", "migrate", "clear", "complete", "restore", "rollback",
       "retain"}
Pc == {"stop", "lock", "retired", "backup", "saved", "mark", "marked", "key", "env", "selection",
       "trial", "tried", "retain", "consume", "unbackup", "unmark", "restart", "validate",
       "completed", "quarantined", "stopping", "archive", "unretain"}
Job == [op : Op, pc : Pc, candidate : Profile \cup {Absent},
        target : Conf \cup {Absent} \cup [kind : {"quarantine", "trial"}], locked : BOOLEAN]

ActivationTypeOK ==
    /\ conf \in Conf /\ weights \subseteq Profile /\ keys \in Nat
    /\ backup \in Backup \cup {Absent, Torn}
    /\ marker \in Marker \cup {Absent, Torn}
    /\ rollback \in Rollback \cup {Absent}
    /\ job \in Job \cup {Idle}

\* What was ever there as a whole: nothing, the files of one activation, or the legacy ones.
Legit(c) == Private(c) \/ \E p \in Profile : c = LegacyConf(p)

\* What the records hold was there as a whole, and the two belong together.
Recorded ==
    /\ backup \in Backup => Legit(backup.conf)
    /\ marker \in Marker => Legit(marker.prior)
    /\ marker \in Marker /\ backup # Absent =>
          backup = [candidate |-> marker.candidate, conf |-> marker.prior]
    /\ rollback \in Rollback => Whole(rollback.completed, rollback.candidate) /\ Legit(rollback.prior)

\* What the marker names can be put back, or is what its own completion writes again.
Undoable == marker \in Marker /\ (backup = Absent => Whole(marker.prior, marker.candidate))

\* A marker that has lost its backup.
Outlived ==
    \/ conf = marker.prior
    \/ Whole(conf, marker.candidate)
    \/ Whole(marker.prior, marker.candidate)

Covered ==
    /\ Legit(conf) \/ Undoable
    /\ marker \in Marker /\ backup = Absent => Outlived

\* The steps at which the files are replaced, and those that follow with the records in place.
Replacing == {"retired", "key", "env", "selection", "trial", "tried", "retain", "consume"}

JobOK ==
    /\ job.pc \in {"stop", "lock", "backup", "saved", "mark", "marked"} \cup Replacing =>
          job.candidate \in Profile
    /\ job.pc \in {"saved", "mark"} => marker = Absent
    /\ job.pc \in {"mark", "marked"} => backup = [candidate |-> job.candidate, conf |-> conf]
    /\ job.pc = "marked" => marker = Torn
    /\ job.pc \in Replacing =>
          /\ marker \in Marker /\ marker.candidate = job.candidate
          /\ Undoable \/ (job.target = Absent /\ Whole(conf, job.candidate))
    /\ job.pc \in {"unbackup", "unmark"} => marker \in Marker /\ Legit(conf) /\ Outlived
    /\ job.pc = "unmark" => backup = Absent
    /\ job.op # "retain" =>
          /\ job.target \in Conf \cup {Absent}
          /\ job.target # Absent <=> job.op \in {"restore", "rollback"}
    /\ job.op = "restore" /\ job.pc \in Replacing => job.target = marker.prior
    /\ job.op = "restore" /\ job.pc \in {"env", "selection"} => conf.key = job.target.key
    /\ job.op = "restore" /\ job.pc = "selection" => conf.env = job.target.env
    /\ job.op = "restore" => job.pc \in {"key", "env", "selection", "unbackup", "unmark"}
    /\ job.op = "retain" => job.pc \in {"archive", "unretain"}
    /\ job.op = "rollback" =>
          /\ job.pc \in {"backup", "saved", "mark", "marked", "unbackup", "unmark"} \cup Replacing
          /\ Legit(job.target)
          /\ job.pc \in {"backup", "saved", "mark", "marked"} => Whole(conf, job.candidate)
          /\ job.pc \in Replacing => Whole(marker.prior, marker.candidate)

IInv == ActivationTypeOK /\ Recorded /\ Covered /\ (job # Idle => JobOK)

\* The files and records an action leaves alone, and a command that goes on at q.
Kept == UNCHANGED <<conf, backup, marker, rollback, keys>>
Moved(q) ==
    /\ job' \in Job
    /\ job'.op = job.op /\ job'.candidate = job.candidate /\ job'.target = job.target
    /\ job'.pc = q

\* A record is neither absent nor torn, and is told from what is.
LEMMA RecordsAreFiles ==
    /\ Absent /= Torn
    /\ Absent \notin Nat
    /\ \A c \in Conf : c /= Absent
    /\ \A b \in Backup : b /= Absent /\ b /= Torn
    /\ \A m \in Marker : m /= Absent /\ m /= Torn
    /\ \A r \in Rollback : r /= Absent
BY ActivationAssumption

\* A command that is at a step is a job, of which the invariant says where it stands.
LEMMA Standing ==
    ASSUME IInv, NEW q, At(q)
    PROVE  job \in Job /\ job.pc = q /\ job # Idle /\ JobOK
<1>1. job # Idle
  BY DEF At, Idle
<1> QED
  BY <1>1 DEF At, IInv, ActivationTypeOK

\* Goto changes the step of a command and nothing else of it.
LEMMA GotoMoves ==
    ASSUME job \in Job, NEW q \in Pc, Goto(q)
    PROVE  Moved(q)
BY DEF Goto, Moved, Job

\* ... and so do the steps that take the runtime lock, or release it.
LEMMA LockMoves ==
    ASSUME job \in Job, NEW q \in Pc, NEW b \in BOOLEAN, job' = [job EXCEPT !.pc = q, !.locked = b]
    PROVE  Moved(q)
BY ZenonT(30) DEF Moved, Job

\* What does not touch the files and the records keeps what is said of them.
LEMMA KeptStep ==
    ASSUME IInv, Kept
    PROVE  Recorded' /\ Covered'
<1>1. /\ conf' = conf /\ backup' = backup /\ marker' = marker /\ rollback' = rollback
  BY DEF Kept
<1>2. Recorded /\ Covered
  BY DEF IInv
<1>3. Recorded'
  BY <1>1, <1>2 DEF Recorded, Legit, Private, Whole
<1>4. Covered'
  BY <1>1, <1>2 DEF Covered, Outlived, Undoable, Legit, Private, Whole
<1> QED
  BY <1>3, <1>4

\* The worker, and a command that ends, leave the invariant.
LEMMA IdleStep ==
    ASSUME IInv, Kept, weights' = weights, job' = job \/ job' = Idle
    PROVE  IInv'
<1>1. ActivationTypeOK'
  BY DEF IInv, ActivationTypeOK, Kept
<1>2. Recorded' /\ Covered'
  BY KeptStep
<1>3. job' # Idle => JobOK'
  <2> SUFFICES ASSUME job' # Idle PROVE JobOK'
    OBVIOUS
  <2>1. job' = job /\ JobOK
    BY DEF IInv
  <2>2. conf' = conf /\ backup' = backup /\ marker' = marker
    BY DEF Kept
  <2> QED
    BY <2>1, <2>2 DEF JobOK, Outlived, Undoable, Legit, Private, Whole
<1> QED
  BY <1>1, <1>2, <1>3 DEF IInv

\* A command that goes on with the files and the records as they are: the reviews, the locks, the
\* trial, the restart and the quarantine.
LEMMA MoveStep ==
    ASSUME IInv, Kept, weights' = weights, job \in Job, JobOK, NEW q, Moved(q),
           \/ job.pc = "stop" /\ q = "lock"
           \/ job.pc = "lock" /\ q = "backup"
           \/ job.pc = "retired" /\ q = "key"
           \/ job.pc = "trial" /\ q = "tried"
           \/ job.pc = "tried" /\ q = "retain"
           \/ job.pc = "restart" /\ q = "validate"
           \/ job.pc \in {"restart", "validate", "completed"} /\ q \in {"completed", "quarantined"}
           \/ job.pc = "quarantined" /\ q = "stopping"
           \/ job.pc = "archive" /\ q = "unretain"
    PROVE  IInv'
<1>1. ActivationTypeOK'
  BY DEF IInv, ActivationTypeOK, Kept, Moved
<1>2. Recorded' /\ Covered'
  BY KeptStep
<1>3. /\ conf' = conf /\ backup' = backup /\ marker' = marker
      /\ job'.op = job.op /\ job'.candidate = job.candidate /\ job'.target = job.target
      /\ job'.pc = q
  BY DEF Kept, Moved
<1>4. Outlived' = Outlived /\ Undoable' = Undoable /\ Legit(conf)' = Legit(conf)
  BY <1>3 DEF Outlived, Undoable, Legit, Private, Whole
<1>5. JobOK'
  BY <1>3, <1>4 DEF JobOK, Replacing, Whole, Legit, Private
<1> QED
  BY <1>1, <1>2, <1>5 DEF IInv

\* A command that begins finds nothing but what its review named.
LEMMA BeginStep ==
    ASSUME IInv, Kept, weights' \subseteq Profile, job' \in Job, JobOK'
    PROVE  IInv'
<1>1. ActivationTypeOK'
  BY DEF IInv, ActivationTypeOK, Kept
<1> QED
  BY <1>1, KeptStep DEF IInv

\* install, provision, activate and migrate write nothing of their own target.
LEMMA OrdinaryStep ==
    ASSUME IInv, Install \/ Activate \/ MigrateLegacy
    PROVE  IInv'
<1>1. PICK p \in Profile, op \in {"install", "provision", "activate", "migrate"},
           q \in {"stop", "lock", "backup"} : Begin(op, q, p, Absent, FALSE)
  BY ZenonT(30) DEF Install, Activate, MigrateLegacy, IInv, ActivationTypeOK
<1>2. Kept /\ weights' \subseteq Profile
  BY ZenonT(30) DEF Install, Activate, MigrateLegacy, IInv, ActivationTypeOK, Kept, Files
<1>3. /\ job' \in Job
      /\ job'.op = op /\ job'.pc = q /\ job'.candidate = p /\ job'.target = Absent
  BY <1>1 DEF Begin, Job, Op, Pc
<1>4. JobOK'
  BY <1>3 DEF JobOK, Replacing
<1> QED
  BY <1>2, <1>3, <1>4, BeginStep

\* --abort-unchanged and --publish-committed begin where the files are of one activation.
LEMMA ClearStep ==
    ASSUME IInv, ClearActivation
    PROVE  IInv'
<1>1. Kept /\ weights' \subseteq Profile
  BY DEF ClearActivation, IInv, ActivationTypeOK, Kept, Files
<1>2. marker \in Marker /\ marker.candidate \in Profile /\ Recorded
  BY DEF ClearActivation, Pending, IInv, ActivationTypeOK, Marker
<1>3. PICK q \in Pc : q = (IF Unchanged THEN "unbackup" ELSE "retain")
  BY DEF Pc
<1>4. /\ job' \in Job
      /\ job'.op = "clear" /\ job'.pc = q /\ job'.candidate = marker.candidate
      /\ job'.target = Absent
  BY <1>2, <1>3 DEF ClearActivation, Begin, Job, Op
<1>5. conf' = conf /\ backup' = backup /\ marker' = marker
  BY <1>1 DEF Kept
<1>6. CASE Unchanged
  <2>1. q = "unbackup" /\ conf = marker.prior /\ Legit(conf)
    BY <1>2, <1>3, <1>6 DEF Unchanged, Recorded
  <2>2. Legit(conf)' /\ Outlived'
    BY <2>1, <1>5 DEF Legit, Private, Whole, Outlived
  <2>3. JobOK'
    BY <1>2, <1>4, <1>5, <2>1, <2>2 DEF JobOK, Replacing
  <2> QED
    BY <1>1, <1>4, <2>3, BeginStep
<1>7. CASE ~Unchanged
  <2>1. q = "retain"
    BY <1>3, <1>7
  <2>2. Candidate
    BY <1>7 DEF ClearActivation, Phase
  <2>3. Whole(conf, marker.candidate)
    BY <2>2 DEF Candidate
  <2>4. Whole(conf, marker.candidate)'
    BY <2>3, <1>5 DEF Whole
  <2>5. JobOK'
    BY <1>2, <1>4, <1>5, <2>1, <2>4 DEF JobOK, Replacing
  <2> QED
    BY <1>1, <1>4, <2>5, BeginStep
<1> QED
  BY <1>6, <1>7

\* --complete-candidate begins where what it replaces is recorded, or is its own.
LEMMA CompleteStep ==
    ASSUME IInv, CompleteCandidate
    PROVE  IInv'
<1>1. Kept /\ weights' \subseteq Profile
  BY DEF CompleteCandidate, IInv, ActivationTypeOK, Kept, Files
<1>2. marker \in Marker /\ marker.candidate \in Profile /\ Covered
  BY DEF CompleteCandidate, Pending, IInv, ActivationTypeOK, Marker
<1>3. /\ job' \in Job
      /\ job'.op = "complete" /\ job'.pc = "key" /\ job'.candidate = marker.candidate
      /\ job'.target = Absent
  BY <1>2 DEF CompleteCandidate, Begin, Job, Op, Pc
<1>4. conf' = conf /\ backup' = backup /\ marker' = marker
  BY <1>1 DEF Kept
<1>5. ~Unchanged
  BY DEF CompleteCandidate, Phase
<1>6. Undoable \/ Whole(conf, marker.candidate)
  BY <1>2, <1>5 DEF Covered, Outlived, Undoable, Unchanged
<1>7. (Undoable \/ Whole(conf, marker.candidate))'
  BY <1>6, <1>4 DEF Undoable, Whole
<1>8. JobOK'
  BY <1>2, <1>3, <1>4, <1>7 DEF JobOK, Replacing
<1> QED
  BY <1>1, <1>3, <1>8, BeginStep

\* --restore-prior begins with the backup the marker names.
LEMMA RestoreStep ==
    ASSUME IInv, RestorePrior
    PROVE  IInv'
<1>1. Kept /\ weights' \subseteq Profile
  BY DEF RestorePrior, IInv, ActivationTypeOK, Kept, Files
<1>2. /\ marker \in Marker /\ marker.candidate \in Profile /\ marker.prior \in Conf
      /\ backup /= Absent /\ backup.conf = marker.prior
  BY DEF RestorePrior, Pending, Bound, IInv, ActivationTypeOK, Marker
<1>3. /\ job' \in Job
      /\ job'.op = "restore" /\ job'.pc = "key" /\ job'.candidate = marker.candidate
      /\ job'.target = marker.prior
  BY <1>2 DEF RestorePrior, Begin, Job, Op, Pc
<1>4. conf' = conf /\ backup' = backup /\ marker' = marker
  BY <1>1 DEF Kept
<1>5. Undoable' /\ marker.prior /= Absent
  BY <1>2, <1>4, RecordsAreFiles DEF Undoable
<1>6. JobOK'
  BY <1>2, <1>3, <1>4, <1>5 DEF JobOK, Replacing
<1> QED
  BY <1>1, <1>3, <1>6, BeginStep

\* model-rollback begins with the files that its undo record names as completed.
LEMMA RollbackStep ==
    ASSUME IInv, CompletedRollback
    PROVE  IInv'
<1>1. Kept /\ weights' \subseteq Profile
  BY DEF CompletedRollback, IInv, ActivationTypeOK, Kept, Files
<1>2. rollback \in Rollback /\ conf = rollback.completed
  BY DEF CompletedRollback, RollbackRestorable, IInv, ActivationTypeOK
<1>3. /\ rollback.candidate \in Profile /\ rollback.prior \in Conf /\ rollback.prior /= Absent
      /\ Whole(conf, rollback.candidate) /\ Legit(rollback.prior)
  BY <1>2, RecordsAreFiles DEF IInv, Recorded, Rollback
<1>4. /\ job' \in Job
      /\ job'.op = "rollback" /\ job'.pc = "backup" /\ job'.candidate = rollback.candidate
      /\ job'.target = rollback.prior
  BY <1>3 DEF CompletedRollback, Begin, Job, Op, Pc
<1>5. conf' = conf
  BY <1>1 DEF Kept
<1>6. Whole(conf, job.candidate)' /\ Legit(job.target)'
  BY ZenonT(30), <1>3, <1>4, <1>5 DEF Whole, Legit, Private
<1>7. JobOK'
  BY <1>3, <1>4, <1>6 DEF JobOK, Replacing
<1> QED
  BY <1>1, <1>4, <1>7, BeginStep

\* Retaining a quarantine or a trial does not touch the configuration.
LEMMA RetainStep ==
    ASSUME IInv, NEW kind \in {"quarantine", "trial"}, Retain(kind)
    PROVE  IInv'
<1>1. Kept /\ weights' \subseteq Profile
  BY DEF Retain, IInv, ActivationTypeOK, Kept
<1>2. /\ job' \in Job
      /\ job'.op = "retain" /\ job'.pc = "archive"
  BY DEF Retain, Begin, Job, Op, Pc
<1>3. JobOK'
  BY <1>2 DEF JobOK, Replacing
<1> QED
  BY ZenonT(30), <1>1, <1>2, <1>3, BeginStep

\* The backup is created, and then written, while no marker is there: the files are whole.
LEMMA BackupStep ==
    ASSUME IInv, CreateBackup \/ WriteBackup
    PROVE  IInv'
<1>1. /\ conf' = conf /\ weights' = weights /\ marker' = marker /\ rollback' = rollback
      /\ keys' = keys
  BY DEF CreateBackup, WriteBackup
<1>2. /\ job \in Job /\ JobOK /\ job.pc \in {"backup", "saved"} /\ marker = Absent
      /\ job.candidate \in Profile
  <2>1. CASE CreateBackup
    BY ZenonT(30), <2>1, Standing DEF CreateBackup, activation_records_absent, JobOK
  <2>2. CASE WriteBackup
    BY <2>2, Standing DEF WriteBackup, JobOK
  <2> QED
    BY ZenonT(30), <2>1, <2>2
<1>3. PICK r \in {"saved", "mark"} :
         /\ Goto(r)
         /\ r = "saved" => backup' = Torn
         /\ r = "mark" => backup' = [candidate |-> job.candidate, conf |-> conf]
  BY DEF CreateBackup, WriteBackup
<1>4. Moved(r)
  BY <1>2, <1>3, GotoMoves DEF Pc
<1>5. marker \notin Marker /\ Legit(conf) /\ conf \in Conf
  BY <1>2, RecordsAreFiles DEF IInv, Covered, Undoable, ActivationTypeOK
<1>6. backup' \in Backup \cup {Absent, Torn}
  BY <1>2, <1>3, <1>5 DEF Backup
<1>7. ActivationTypeOK'
  BY <1>1, <1>4, <1>6 DEF IInv, ActivationTypeOK, Moved
<1>8. backup' \in Backup => backup'.conf = conf
  BY <1>3, RecordsAreFiles
<1>9. Legit(conf)'
  BY <1>1, <1>5 DEF Legit, Private, Whole
<1>10. Recorded'
  BY <1>1, <1>5, <1>8 DEF IInv, Recorded, Legit, Private, Whole
<1>11. Covered'
  BY ZenonT(30), <1>1, <1>5, <1>9 DEF Covered
<1>12. JobOK'
  <2>1. /\ job'.op = job.op /\ job'.candidate = job.candidate /\ job'.target = job.target
        /\ job'.pc = r
    BY <1>4 DEF Moved
  <2> QED
    BY <1>1, <1>2, <1>3, <2>1 DEF JobOK, Replacing, Legit, Private, Whole
<1> QED
  BY <1>7, <1>10, <1>11, <1>12 DEF IInv

\* The marker is created while the backup is there with the very files.
LEMMA CreateMarkerStep ==
    ASSUME IInv, CreateMarker
    PROVE  IInv'
<1>1. /\ conf' = conf /\ weights' = weights /\ backup' = backup /\ rollback' = rollback
      /\ keys' = keys /\ marker' = Torn
  BY DEF CreateMarker
<1>2. job \in Job /\ JobOK /\ job.pc = "mark"
  BY Standing DEF CreateMarker
<1>3. Moved("marked")
  BY ZenonT(30), <1>2, GotoMoves DEF CreateMarker, Pc
<1>4. marker \notin Marker /\ marker' \notin Marker
  BY <1>1, <1>2, RecordsAreFiles DEF JobOK
<1>5. Legit(conf)
  BY <1>4 DEF IInv, Covered, Undoable
<1>6. ActivationTypeOK'
  BY ZenonT(30), <1>1, <1>3 DEF IInv, ActivationTypeOK, Moved
<1>7. Recorded' /\ Covered'
  BY ZenonT(30), <1>1, <1>4, <1>5 DEF IInv, Recorded, Covered, Legit, Private, Whole
<1>8. JobOK'
  BY <1>1, <1>2, <1>3 DEF JobOK, Moved, Replacing, Legit, Private, Whole
<1> QED
  BY <1>6, <1>7, <1>8 DEF IInv

\* The marker is written from the backup: from here the files may be replaced.
LEMMA WriteMarkerStep ==
    ASSUME IInv, WriteMarker
    PROVE  IInv'
<1>1. /\ conf' = conf /\ weights' = weights /\ backup' = backup /\ rollback' = rollback
      /\ keys' = keys /\ marker' = [candidate |-> job.candidate, prior |-> backup.conf]
  BY ZenonT(30) DEF WriteMarker
<1>2. /\ job \in Job /\ JobOK /\ job.pc = "marked" /\ job.candidate \in Profile
      /\ backup = [candidate |-> job.candidate, conf |-> conf]
      /\ marker = Torn /\ conf \in Conf
  BY Standing DEF WriteMarker, JobOK, IInv, ActivationTypeOK
<1>3. PICK q \in {"retired", "key"} : Goto(q) /\ (q = "retired" => job.op = "activate")
  BY DEF WriteMarker
<1>4. Moved(q)
  BY <1>2, <1>3, GotoMoves DEF Pc
<1>5. /\ marker' = [candidate |-> job.candidate, prior |-> conf] /\ marker' \in Marker
      /\ backup \in Backup
  BY <1>1, <1>2 DEF Marker, Backup
<1>6. backup /= Absent /\ marker \notin Marker
  BY <1>2, <1>5, RecordsAreFiles
<1>7. Legit(conf)
  BY ZenonT(30), <1>6 DEF IInv, Covered, Undoable
<1>8. ActivationTypeOK'
  BY <1>1, <1>4, <1>5 DEF IInv, ActivationTypeOK, Moved
<1>9. Undoable' /\ marker'.candidate = job.candidate /\ marker'.prior = conf
  BY <1>1, <1>5, <1>6 DEF Undoable
<1>10. Recorded' /\ Covered'
  BY ZenonT(30), <1>1, <1>2, <1>5, <1>6, <1>7, <1>9 DEF IInv, Recorded, Covered, Legit, Private, Whole
<1>11. JobOK'
  BY ZenonT(30), <1>1, <1>2, <1>4, <1>3, <1>9 DEF JobOK, Moved, Replacing, Undoable, Legit, Private, Whole
<1> QED
  BY <1>8, <1>10, <1>11 DEF IInv

\* Replacing one of the three files keeps the cover: what was there is recorded, or the file is
\* written as it was.
LEMMA ReplaceStep ==
    ASSUME IInv, job \in Job, JobOK, job.pc \in {"key", "env", "selection"},
           NEW q \in Replacing \cup {"unbackup"}, Moved(q),
           UNCHANGED <<weights, backup, marker, rollback>>, conf' \in Conf, keys' \in Nat,
           job.target = Absent /\ Whole(conf, job.candidate) => Whole(conf, job.candidate)',
           q = "unbackup" => job.op = "restore" /\ conf' = job.target,
           job.op = "restore" /\ q # "unbackup" =>
              /\ q \in {"env", "selection"} /\ conf'.key = job.target.key
              /\ q = "selection" => conf'.env = job.target.env
    PROVE  IInv'
<1>1. /\ weights' = weights /\ backup' = backup /\ marker' = marker /\ rollback' = rollback
      /\ job'.op = job.op /\ job'.candidate = job.candidate /\ job'.target = job.target
      /\ job'.pc = q /\ job' \in Job
  BY ZenonT(30) DEF Moved
<1>2. /\ marker \in Marker /\ marker.candidate = job.candidate /\ job.candidate \in Profile
      /\ Undoable \/ (job.target = Absent /\ Whole(conf, job.candidate))
      /\ Recorded
  BY DEF JobOK, Replacing, IInv
<1>3. ActivationTypeOK'
  BY ZenonT(30), <1>1 DEF IInv, ActivationTypeOK
<1>4. Recorded'
  BY ZenonT(30), <1>1, <1>2 DEF Recorded, Legit, Private, Whole
<1>5. Undoable' = Undoable
  BY ZenonT(30), <1>1 DEF Undoable, Whole
<1>6. Undoable' \/ (job'.target = Absent /\ Whole(conf, job.candidate)')
  BY ZenonT(30), <1>1, <1>2, <1>5
<1>7. Whole(conf, job.candidate)' => Legit(conf)' /\ Whole(conf, marker.candidate)'
  BY ZenonT(30), <1>1, <1>2 DEF Legit, Private, Whole
<1>8. Undoable' /\ backup = Absent => Whole(marker.prior, marker.candidate)'
  BY ZenonT(30), <1>1 DEF Undoable
<1>9. Covered'
  BY <1>1, <1>6, <1>7, <1>8 DEF Covered, Outlived
<1>10. JobOK'
  <2>1. CASE q = "unbackup"
    <3>1. conf' = marker.prior /\ Legit(marker.prior)
      BY ZenonT(30), <2>1, <1>2 DEF JobOK, Replacing, Recorded
    <3>2. Legit(conf)' /\ Outlived'
      BY ZenonT(30), <3>1, <1>1 DEF Legit, Private, Whole, Outlived
    <3> QED
      BY ZenonT(30), <2>1, <3>2, <1>1, <1>2 DEF JobOK, Replacing
  <2>2. CASE q \in Replacing
    <3>1. q \notin {"stop", "lock", "backup", "saved", "mark", "marked", "unbackup", "unmark"}
      BY ZenonT(30), <2>2 DEF Replacing
    <3>2. /\ job.op # "retain"
          /\ job.target \in Conf \cup {Absent}
          /\ job.target # Absent <=> job.op \in {"restore", "rollback"}
          /\ job.op = "restore" => job.target = marker.prior
          /\ job.op = "rollback" => Legit(job.target) /\ Whole(marker.prior, marker.candidate)
      BY ZenonT(30) DEF JobOK, Replacing
    <3>3. job.op = "rollback" => Legit(job.target)' /\ Whole(marker.prior, marker.candidate)'
      BY <3>2, <1>1 DEF Legit, Private, Whole
    <3> QED
      BY ZenonT(30), <2>2, <3>1, <3>2, <3>3, <1>1, <1>2, <1>6 DEF JobOK, Replacing
  <2> QED
    BY ZenonT(30), <2>1, <2>2
<1> QED
  BY ZenonT(30), <1>3, <1>4, <1>9, <1>10 DEF IInv

\* A configuration is its three files.
LEMMA Files3 ==
    ASSUME NEW c \in Conf, NEW d \in Conf, c.selection = d.selection, c.env = d.env, c.key = d.key
    PROVE  c = d
BY DEF Conf

\* The credential: rotated, or put back.
LEMMA WriteKeyStep ==
    ASSUME IInv, WriteKey
    PROVE  IInv'
<1>1. /\ job \in Job /\ JobOK /\ job.pc = "key" /\ conf \in Conf /\ keys \in Nat
      /\ job.op # "retain"
      /\ job.target # Absent => job.target \in Conf
  BY Standing DEF WriteKey, JobOK, IInv, ActivationTypeOK
<1>2. Moved("env") /\ "env" \in Replacing
  BY <1>1, GotoMoves DEF WriteKey, Pc, Replacing
<1>3. UNCHANGED <<weights, backup, marker, rollback>> /\ keys' \in Nat
  BY <1>1 DEF WriteKey
<1>4. PICK k : /\ conf' = [conf EXCEPT !.key = k]
               /\ job.target # Absent => k = job.target.key
               /\ job.target = Absent => k = keys + 1
  BY DEF WriteKey, Written, Restoring
<1>5. k \in Nat \cup {Absent} /\ (job.target = Absent => k # Absent)
  BY <1>1, <1>4, RecordsAreFiles DEF Conf
<1>6. /\ conf' \in Conf /\ conf'.key = k /\ conf'.env = conf.env
      /\ conf'.selection = conf.selection
  BY <1>1, <1>4, <1>5 DEF Conf
<1>7. job.target = Absent /\ Whole(conf, job.candidate) => Whole(conf, job.candidate)'
  <2> SUFFICES ASSUME job.target = Absent, Whole(conf, job.candidate)
               PROVE  Whole(conf, job.candidate)'
    OBVIOUS
  <2>1. conf = Configured(job.candidate, conf.key) /\ job'.candidate = job.candidate
    BY <1>2 DEF Whole, Moved
  <2>2. conf' = Configured(job.candidate, k)
    BY <2>1, <1>4 DEF Configured
  <2> QED
    BY <2>1, <2>2, <1>5, <1>6 DEF Whole, Configured
<1>8. job.op = "restore" => conf'.key = job.target.key
  BY ZenonT(30), <1>1, <1>4, <1>6 DEF JobOK
<1> QED
  BY ZenonT(30), <1>1, <1>2, <1>3, <1>6, <1>7, <1>8, ReplaceStep

\* The reference environment.
LEMMA WriteEnvStep ==
    ASSUME IInv, WriteEnv
    PROVE  IInv'
<1>1. /\ job \in Job /\ JobOK /\ job.pc = "env" /\ conf \in Conf /\ keys \in Nat
      /\ job.op # "retain" /\ job.candidate \in Profile
      /\ job.target # Absent => job.target \in Conf
  BY Standing DEF WriteEnv, JobOK, IInv, ActivationTypeOK, Replacing
<1>2. Moved("selection") /\ "selection" \in Replacing
  BY <1>1, GotoMoves DEF WriteEnv, Pc, Replacing
<1>3. UNCHANGED <<weights, backup, marker, rollback>> /\ keys' \in Nat
  BY <1>1 DEF WriteEnv
<1>4. PICK e : /\ conf' = [conf EXCEPT !.env = e]
               /\ job.target # Absent => e = job.target.env
               /\ job.target = Absent => e = Selected(job.candidate)
  BY DEF WriteEnv, Written, Restoring
<1>5. e \in Choice
  BY <1>1, <1>4 DEF Conf, Selected, Choice
<1>6. /\ conf' \in Conf /\ conf'.env = e /\ conf'.key = conf.key
      /\ conf'.selection = conf.selection
  BY <1>1, <1>4, <1>5 DEF Conf
<1>7. job.target = Absent /\ Whole(conf, job.candidate) => Whole(conf, job.candidate)'
  <2> SUFFICES ASSUME job.target = Absent, Whole(conf, job.candidate)
               PROVE  Whole(conf, job.candidate)'
    OBVIOUS
  <2>1. /\ conf = Configured(job.candidate, conf.key) /\ job'.candidate = job.candidate
        /\ conf.key # Absent
    BY <1>2 DEF Whole, Moved
  <2>2. conf' = Configured(job.candidate, conf.key)
    BY <2>1, <1>4 DEF Configured
  <2> QED
    BY ZenonT(30), <2>1, <2>2, <1>6 DEF Whole
<1>8. job.op = "restore" => conf'.key = job.target.key /\ conf'.env = job.target.env
  BY ZenonT(30), <1>1, <1>4, <1>6 DEF JobOK
<1> QED
  BY ZenonT(30), <1>1, <1>2, <1>3, <1>6, <1>7, <1>8, ReplaceStep

\* The selection, which is written last.
LEMMA WriteSelectionStep ==
    ASSUME IInv, WriteSelection
    PROVE  IInv'
<1>1. /\ job \in Job /\ JobOK /\ job.pc = "selection" /\ conf \in Conf /\ keys \in Nat
      /\ job.op # "retain" /\ job.candidate \in Profile
      /\ job.target # Absent => job.target \in Conf
  BY Standing DEF WriteSelection, JobOK, IInv, ActivationTypeOK, Replacing
<1>2. PICK q \in {"trial", "consume", "unbackup", "retain"} :
         Goto(q) /\ (q = "unbackup" <=> job.op = "restore")
  BY DEF WriteSelection, AfterSelection
<1>3. Moved(q) /\ q \in Replacing \cup {"unbackup"}
  BY <1>1, <1>2, GotoMoves DEF Pc, Replacing
<1>4. UNCHANGED <<weights, backup, marker, rollback>> /\ keys' \in Nat
  BY <1>1 DEF WriteSelection
<1>5. PICK s : /\ conf' = [conf EXCEPT !.selection = s]
               /\ job.target # Absent => s = job.target.selection
               /\ job.target = Absent => s = Selected(job.candidate)
  BY DEF WriteSelection, Written, Restoring
<1>6. s \in Choice
  BY <1>1, <1>5 DEF Conf, Selected, Choice
<1>7. /\ conf' \in Conf /\ conf'.selection = s /\ conf'.key = conf.key
      /\ conf'.env = conf.env
  BY <1>1, <1>5, <1>6 DEF Conf
<1>8. job.target = Absent /\ Whole(conf, job.candidate) => Whole(conf, job.candidate)'
  <2> SUFFICES ASSUME job.target = Absent, Whole(conf, job.candidate)
               PROVE  Whole(conf, job.candidate)'
    OBVIOUS
  <2>1. /\ conf = Configured(job.candidate, conf.key) /\ job'.candidate = job.candidate
        /\ conf.key # Absent
    BY <1>3 DEF Whole, Moved
  <2>2. conf' = Configured(job.candidate, conf.key)
    BY <2>1, <1>5 DEF Configured
  <2> QED
    BY <2>1, <2>2, <1>7 DEF Whole
<1>9. q = "unbackup" => conf' = job.target
  <2> SUFFICES ASSUME job.op = "restore" PROVE conf' = job.target
    BY <1>2
  <2>1. job.target \in Conf /\ conf.key = job.target.key /\ conf.env = job.target.env
    BY <1>1 DEF JobOK
  <2>2. conf'.selection = job.target.selection
    BY <2>1, <1>1, <1>5, <1>7, RecordsAreFiles
  <2> QED
    BY ZenonT(30), <2>1, <2>2, <1>7, Files3
<1> QED
  BY ZenonT(30), <1>1, <1>2, <1>3, <1>4, <1>7, <1>8, <1>9, ReplaceStep

\* The undo record is replaced by the activation that is complete, or consumed by the rollback that
\* is: the records may now be cleared.
LEMMA UndoStep ==
    ASSUME IInv, RetainPrior \/ ConsumeRollback
    PROVE  IInv'
<1>1. /\ conf' = conf /\ weights' = weights /\ backup' = backup /\ marker' = marker
      /\ keys' = keys /\ Goto("unbackup")
  BY DEF RetainPrior, ConsumeRollback
<1>2. /\ job \in Job /\ JobOK /\ job.pc \in {"retain", "consume"} /\ conf \in Conf
      /\ RetainPrior => job.pc = "retain"
      /\ ConsumeRollback => job.pc = "consume"
  BY Standing DEF RetainPrior, ConsumeRollback, IInv, ActivationTypeOK
<1>3. Moved("unbackup")
  BY ZenonT(30), <1>1, <1>2, GotoMoves DEF Pc
<1>4. /\ marker \in Marker /\ marker.candidate = job.candidate /\ job.candidate \in Profile
      /\ Recorded /\ Covered
  BY <1>2 DEF JobOK, Replacing, IInv
<1>5. Legit(conf) /\ Outlived
  <2>1. CASE RetainPrior
    <3>1. Whole(conf, marker.candidate)
      BY ZenonT(30), <2>1 DEF RetainPrior, Candidate
    <3> QED
      BY <3>1, <1>4 DEF Legit, Private, Outlived
  <2>2. CASE ConsumeRollback
    <3>1. conf = job.target
      BY ZenonT(30), <2>2 DEF ConsumeRollback
    <3>2. job.op = "rollback"
      BY <3>1, <2>2, <1>2, RecordsAreFiles DEF JobOK
    <3> QED
      BY <3>1, <3>2, <1>2 DEF JobOK, Replacing, Outlived
  <2> QED
    BY ZenonT(30), <2>1, <2>2
<1>6. /\ rollback' \in Rollback \cup {Absent}
      /\ rollback' \in Rollback => Whole(rollback'.completed, rollback'.candidate) /\ Legit(rollback'.prior)
  <2>1. CASE ConsumeRollback
    BY ZenonT(30), <2>1, RecordsAreFiles DEF ConsumeRollback
  <2>2. CASE RetainPrior /\ backup = Absent
    BY <2>2, <1>4 DEF RetainPrior, IInv, ActivationTypeOK, Recorded
  <2>3. CASE RetainPrior /\ backup # Absent
    <3>1. rollback' = [completed |-> conf, candidate |-> job.candidate, prior |-> backup.conf]
      BY <2>3 DEF RetainPrior
    <3>2. backup.conf = marker.prior /\ marker.prior \in Conf /\ Legit(marker.prior)
      BY <2>3, <1>4 DEF Recorded, Marker
    <3>3. Whole(conf, job.candidate)
      BY ZenonT(30), <2>3, <1>4 DEF RetainPrior, Candidate
    <3>4. rollback' \in Rollback
      BY ZenonT(30), <3>1, <3>2, <1>2, <1>4 DEF Rollback
    <3>5. /\ rollback'.completed = conf /\ rollback'.candidate = job.candidate
          /\ rollback'.prior = marker.prior
      BY ZenonT(30), <3>1, <3>2
    <3> QED
      BY <3>2, <3>3, <3>4, <3>5
  <2> QED
    BY <2>1, <2>2, <2>3
<1>7. ActivationTypeOK'
  BY ZenonT(30), <1>1, <1>3, <1>6 DEF IInv, ActivationTypeOK, Moved
<1>8. Recorded'
  BY ZenonT(30), <1>1, <1>4, <1>6 DEF Recorded, Legit, Private, Whole
<1>9. Legit(conf)' /\ Outlived'
  BY <1>1, <1>5 DEF Legit, Private, Whole, Outlived
<1>10. Covered'
  BY ZenonT(30), <1>9 DEF Covered
<1>11. JobOK'
  <2>1. /\ job'.op = job.op /\ job'.candidate = job.candidate /\ job'.target = job.target
        /\ job'.pc = "unbackup"
    BY ZenonT(30), <1>3 DEF Moved
  <2>2. job.op = "rollback" => Legit(job.target)'
    BY ZenonT(30), <1>2, <2>1 DEF JobOK, Legit, Private, Whole
  <2> QED
    BY ZenonT(30), <1>1, <1>2, <1>4, <1>9, <2>1, <2>2 DEF JobOK, Replacing
<1> QED
  BY <1>7, <1>8, <1>10, <1>11 DEF IInv

\* The records are cleared over files that are whole, the backup first.
LEMMA RemoveBackupStep ==
    ASSUME IInv, RemoveBackup
    PROVE  IInv'
<1>1. /\ conf' = conf /\ weights' = weights /\ backup' = Absent /\ marker' = marker
      /\ rollback' = rollback /\ keys' = keys /\ Goto("unmark")
  BY ZenonT(30) DEF RemoveBackup
<1>2. /\ job \in Job /\ JobOK /\ job.pc = "unbackup" /\ marker \in Marker
      /\ Legit(conf) /\ Outlived
  BY Standing DEF RemoveBackup, JobOK
<1>3. Moved("unmark")
  BY <1>1, <1>2, GotoMoves DEF Pc
<1>4. ActivationTypeOK'
  BY ZenonT(30), <1>1, <1>3 DEF IInv, ActivationTypeOK, Moved
<1>5. Recorded'
  BY ZenonT(30), <1>1, RecordsAreFiles DEF IInv, Recorded, Legit, Private, Whole
<1>6. Legit(conf)' /\ Outlived'
  BY <1>1, <1>2 DEF Legit, Private, Whole, Outlived
<1>7. Covered'
  BY ZenonT(30), <1>6 DEF Covered
<1>8. JobOK'
  <2>1. /\ job'.op = job.op /\ job'.candidate = job.candidate /\ job'.target = job.target
        /\ job'.pc = "unmark"
    BY ZenonT(30), <1>3 DEF Moved
  <2>2. job.op = "rollback" => Legit(job.target)'
    BY <1>2, <2>1 DEF JobOK, Legit, Private, Whole
  <2> QED
    BY ZenonT(30), <1>1, <1>2, <1>6, <2>1, <2>2 DEF JobOK, Replacing
<1> QED
  BY <1>4, <1>5, <1>7, <1>8 DEF IInv

\* ... and then the marker, with which the command ends or goes on to the restart.
LEMMA RemoveMarkerStep ==
    ASSUME IInv, RemoveMarker
    PROVE  IInv'
<1>1. /\ conf' = conf /\ weights' = weights /\ backup' = backup /\ marker' = Absent
      /\ rollback' = rollback /\ keys' = keys
  BY ZenonT(30) DEF RemoveMarker
<1>2. job \in Job /\ JobOK /\ Legit(conf)
  BY ZenonT(30), Standing DEF RemoveMarker, JobOK
<1>3. \/ job' = Idle
      \/ job.op \in {"install", "activate"} /\ Moved("restart")
  BY ZenonT(30), <1>2, LockMoves DEF RemoveMarker, Pc
<1>4. ActivationTypeOK'
  BY <1>1, <1>3 DEF IInv, ActivationTypeOK, Moved
<1>5. Legit(conf)'
  BY ZenonT(30), <1>1, <1>2 DEF Legit, Private, Whole
<1>6. Recorded' /\ Covered'
  BY ZenonT(30), <1>1, <1>5, RecordsAreFiles DEF IInv, Recorded, Covered, Legit, Private, Whole
<1>7. job' # Idle => JobOK'
  BY ZenonT(30), <1>2, <1>3 DEF JobOK, Moved, Replacing
<1> QED
  BY <1>4, <1>6, <1>7 DEF IInv

\* --discard-orphan-backup: no marker was written, so the files are whole.
LEMMA OrphanStep ==
    ASSUME IInv, DiscardOrphan
    PROVE  IInv'
<1>1. /\ conf' = conf /\ weights' = weights /\ backup' = Absent /\ marker' = Absent
      /\ marker = Absent /\ rollback' = rollback /\ keys' = keys /\ job' = Idle
  BY ZenonT(30) DEF DiscardOrphan, OrphanUnchanged
<1>2. marker \notin Marker /\ Legit(conf)
  BY ZenonT(30), <1>1, RecordsAreFiles DEF IInv, Covered, Undoable
<1>3. ActivationTypeOK'
  BY ZenonT(30), <1>1 DEF IInv, ActivationTypeOK
<1>4. Recorded' /\ Covered'
  BY ZenonT(30), <1>1, <1>2, RecordsAreFiles DEF IInv, Recorded, Covered, Legit, Private, Whole
<1> QED
  BY <1>1, <1>3, <1>4 DEF IInv

\* Whatever is installed to begin with is whole, and nothing is recorded.
LEMMA InstalledIsWhole ==
    ASSUME ActivationInit
    PROVE  IInv
<1>1. /\ backup = Absent /\ marker = Absent /\ rollback = Absent /\ job = Idle
      /\ weights \subseteq Profile /\ keys \in Nat
  BY DEF ActivationInit
<1>2. PICK p \in Profile : conf \in {NoConf, LegacyConf(p), Configured(p, 1)}
  BY DEF ActivationInit
<1>3. conf \in Conf
  BY <1>2 DEF NoConf, LegacyConf, Configured, Selected, Exposed, Conf, Choice
<1>4. Legit(conf)
  <2>1. CASE conf = Configured(p, 1)
    <3>1. conf.key = 1 /\ conf.key # Absent
      BY <2>1, RecordsAreFiles DEF Configured
    <3> QED
      BY <2>1, <3>1 DEF Legit, Private, Whole
  <2> QED
    BY <1>2, <2>1 DEF Legit, Private
<1> QED
  BY ZenonT(30), <1>1, <1>3, <1>4, RecordsAreFiles DEF IInv, ActivationTypeOK, Recorded, Covered

\* A command that goes on, or ends, with the files and the records as they are.
LEMMA CommandStep ==
    ASSUME IInv,
           \/ StopWorker \/ Lock \/ Retired \/ CreateTrial \/ WriteTrial \/ Restart
           \/ CompleteTrial \/ ActivateCompletes \/ CreateQuarantine \/ WriteQuarantine
           \/ StopFailed \/ WriteArchive \/ RemoveRetained
    PROVE  IInv'
<1>1. Kept /\ weights' = weights
  BY DEF StopWorker, Lock, Retired, CreateTrial, WriteTrial, Restart, CompleteTrial,
         ActivateCompletes, CreateQuarantine, WriteQuarantine, StopFailed, WriteArchive,
         RemoveRetained, Kept, Files
<1>2. job.op # "idle"
  BY DEF StopWorker, Lock, Retired, CreateTrial, WriteTrial, Restart, CompleteTrial,
         ActivateCompletes, CreateQuarantine, WriteQuarantine, StopFailed, WriteArchive,
         RemoveRetained, At
<1>3. job \in Job /\ JobOK
  BY <1>2 DEF IInv, ActivationTypeOK, Idle
<1>4. CASE StopWorker
  BY ZenonT(30), <1>1, <1>3, <1>4, GotoMoves, MoveStep DEF StopWorker, At, Pc
<1>5. CASE Lock
  BY ZenonT(30), <1>1, <1>3, <1>5, LockMoves, MoveStep DEF Lock, At, Pc
<1>6. CASE Retired
  BY ZenonT(30), <1>1, <1>3, <1>6, LockMoves, MoveStep DEF Retired, At, Pc
<1>7. CASE CreateTrial
  BY ZenonT(30), <1>1, <1>3, <1>7, GotoMoves, MoveStep DEF CreateTrial, At, Pc
<1>8. CASE WriteTrial
  BY ZenonT(30), <1>1, <1>3, <1>8, GotoMoves, MoveStep DEF WriteTrial, At, Pc
<1>9. CASE Restart
  BY <1>1, <1>3, <1>9, GotoMoves, MoveStep DEF Restart, At, Pc
<1>10. CASE CompleteTrial
  <2>1. job.pc = "validate" /\ (job' = Idle \/ Goto("completed"))
    BY <1>10 DEF CompleteTrial, At
  <2>2. CASE Goto("completed")
    BY ZenonT(30), <1>1, <1>3, <2>1, <2>2, GotoMoves, MoveStep DEF Pc
  <2> QED
    BY ZenonT(30), <1>1, <2>1, <2>2, IdleStep
<1>11. CASE ActivateCompletes \/ StopFailed \/ RemoveRetained
  BY <1>1, <1>11, IdleStep DEF ActivateCompletes, StopFailed, RemoveRetained
<1>12. CASE CreateQuarantine
  BY ZenonT(30), <1>1, <1>3, <1>12, GotoMoves, MoveStep DEF CreateQuarantine, Pc
<1>13. CASE WriteQuarantine
  BY ZenonT(30), <1>1, <1>3, <1>13, GotoMoves, MoveStep DEF WriteQuarantine, At, Pc
<1>14. CASE WriteArchive
  BY ZenonT(30), <1>1, <1>3, <1>14, GotoMoves, MoveStep DEF WriteArchive, At, Pc
<1> QED
  BY ZenonT(30), <1>4, <1>5, <1>6, <1>7, <1>8, <1>9, <1>10, <1>11, <1>12, <1>13, <1>14

\* Every step of every command, worker, kill and power loss keeps the invariant.
LEMMA ActivationStep ==
    ASSUME IInv, [ActivationNext]_activationVars
    PROVE  IInv'
<1>1. CASE \/ StartWorker \/ SpawnRuntime \/ WorkerExits \/ Supervise \/ ClearQuarantine
           \/ UNCHANGED activationVars
  <2>1. Kept /\ weights' = weights /\ job' = job
    BY <1>1 DEF StartWorker, SpawnRuntime, WorkerExits, Supervise, ClearQuarantine, Kept, Files,
                activationVars
  <2> QED
    BY ZenonT(30), <2>1, IdleStep
<1>2. CASE Fail \/ PowerLoss
  <2>1. Kept /\ weights' = weights /\ job' = Idle
    BY <1>2 DEF Fail, PowerLoss, Kept, Files
  <2> QED
    BY <2>1, IdleStep
<1>3. CASE RetainQuarantine \/ RetainAbandoned \/ RetainIncomplete
  BY <1>3, RetainStep DEF RetainQuarantine, RetainAbandoned, RetainIncomplete
<1> QED
  BY ZenonT(30), <1>1, <1>2, <1>3, OrdinaryStep, CommandStep, BackupStep, CreateMarkerStep, WriteMarkerStep,
     WriteKeyStep, WriteEnvStep, WriteSelectionStep, UndoStep, RemoveBackupStep,
     RemoveMarkerStep, OrphanStep, ClearStep, CompleteStep, RestoreStep, RollbackStep
     DEF ActivationNext, Work, activation_reconcile, rollback_reconcile, quarantine_reconcile,
         validation_reconcile

\* What the invariant says of the files and the records is what can be recovered.
LEMMA CoveredIsRecoverable ==
    ASSUME IInv
    PROVE  PriorIsRecoverable
<1>1. CASE Legit(conf)
  BY <1>1 DEF Legit, PriorIsRecoverable
<1>2. CASE Undoable
  <2>1. marker \in Marker /\ marker \notin {Absent, Torn}
    BY ZenonT(30), <1>2, RecordsAreFiles DEF Undoable
  <2>2. CASE backup = Absent
    BY ZenonT(30), <1>2, <2>1, <2>2 DEF Undoable, PriorIsRecoverable
  <2>3. CASE backup # Absent
    <3>1. /\ backup = [candidate |-> marker.candidate, conf |-> marker.prior]
          /\ Legit(marker.prior)
      BY <2>1, <2>3 DEF IInv, Recorded
    <3>2. backup.conf = marker.prior
      BY <3>1
    <3> QED
      BY ZenonT(30), <2>1, <2>3, <3>1, <3>2 DEF Legit, PriorIsRecoverable
  <2> QED
    BY <2>2, <2>3
<1> QED
  BY <1>1, <1>2 DEF IInv, Covered

\* The configuration of a model is never lost (model.rs): whatever commands are killed, wherever
\* the power fails and however often, the three files are of one activation, or absent, or the
\* legacy ones, or the complete marker and backup allow the activation to be completed or undone.
THEOREM PriorRecoverable == ActivationSpec => []PriorIsRecoverable
<1>1. ActivationInit => IInv
  BY InstalledIsWhole
<1>2. IInv /\ [ActivationNext]_activationVars => IInv'
  BY ActivationStep
<1>3. IInv => PriorIsRecoverable
  BY CoveredIsRecoverable
<1> QED
  BY <1>1, <1>2, <1>3, PTL DEF ActivationSpec

=============================================================================
