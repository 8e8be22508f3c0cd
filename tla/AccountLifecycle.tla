---------------------------- MODULE AccountLifecycle ----------------------------
(***************************************************************************)
(* account_creation.rs, account_deletion.rs, account_transition.rs and the *)
(* account commands of admin_governance.rs: an account changes in three    *)
(* anchored commands (prepare, permit, complete) around the publication of *)
(* its files, which renames one staged file at a time in a fixed order.    *)
(* One command runs at a time (the journal's lock); it can die after any   *)
(* step, and a power loss can undo directory changes that no sync followed.*)
(***************************************************************************)
EXTENDS AdminCatalog, Sequences

CONSTANT NoJob

VARIABLES
    disk,     \* the identity directory, the homes and the event file in hand
    disks,    \* what a power loss can leave of them
    job       \* the command that runs

accountVars == <<catalog, disk, disks, job>>

\* The order a creation publishes in, the home first, and a deletion's.
CreationFiles == <<"home", "gshadow", "group", "shadow", "passwd", "registry">>
DeletionFiles == <<"shadow", "gshadow", "group", "passwd">>
Rows == {"home", "gshadow", "group", "passwd", "registry"}
NoStage == [state |-> "none"]
NoEvent == [state |-> "none"]

\* Everyone but Admin may be there from the installation, or not yet.
AccountInit ==
    \E installed \in {q \in SUBSET Principal : Admin \in q} :
        /\ catalog = Adopted(installed)
        /\ disk = [shadow |-> [p \in Principal |-> catalog.commitment[p]],
                   rows |-> [p \in Principal |-> IF p \in installed THEN Rows ELSE {}],
                   stage |-> [t \in Transaction |-> NoStage], next |-> "none",
                   event |-> NoEvent]
        /\ disks = {disk} /\ job = NoJob

Change(d) == disk' = d /\ disks' = disks \cup {d}
Synced(d) == disk' = d /\ disks' = {d}
Goto(at) == job' = [job EXCEPT !.at = at]
-----------------------------------------------------------------------------
(* The guards                                                              *)
Files(kind) ==
    CASE kind = "creation" -> CreationFiles [] kind = "deletion" -> DeletionFiles
      [] OTHER -> <<"shadow">>
\* The intent an anchored transition was prepared with.
IntentOf(x) ==
    [kind |-> x.kind, principal |-> x.principal, expected |-> x.expected,
     before |-> x.before, after |-> x.after, locked |-> x.locked]
\* A file is as the intent publishes it, or as the guard found it.
IsAfter(d, i, f) ==
    IF f = "shadow" THEN d.shadow[i.principal] = i.after
    ELSE (f \in d.rows[i.principal]) <=> (i.kind = "creation")
IsBefore(d, i, f) ==
    IF f = "shadow" THEN d.shadow[i.principal] = i.before
    ELSE (f \in d.rows[i.principal]) <=> (i.kind # "creation")
\* capture: the published files are the first ones of the order.
Prefix(d, i, n) ==
    LET files == Files(i.kind) IN
    /\ \A k \in 1..n : IsAfter(d, i, files[k])
    /\ \A k \in n+1..Len(files) : IsBefore(d, i, files[k])
Staged(d, t, i) == d.stage[t] = [state |-> "whole", intent |-> i]
Published(d, i) == Prefix(d, i, Len(Files(i.kind)))
Unpublished(d, i) == Prefix(d, i, 0)
\* Guard::retained of a creation or deletion: its stage is whole, and the files
\* are part of the way.
Retained(d, t, i) == Staged(d, t, i) /\ \E n \in 0..Len(Files(i.kind)) : Prefix(d, i, n)
NextFile(d, i) ==
    LET files == Files(i.kind) IN
    files[CHOOSE k \in 1..Len(files) :
             IsBefore(d, i, files[k]) /\ \A j \in 1..k-1 : IsAfter(d, i, files[j])]
\* replacements, and remove_account and remove_groups: the file is its old rows
\* with the account's one added or taken away.
WithRow(rows, f) == rows \cup {f}
WithoutRow(rows, f) == rows \ {f}
Renamed(d, i, f) ==
    IF f = "shadow" THEN [d EXCEPT !.shadow[i.principal] = i.after, !.next = "none"]
    ELSE [d EXCEPT !.rows[i.principal] = IF i.kind = "creation" THEN WithRow(@, f) ELSE WithoutRow(@, f),
                   !.next = "none"]
\* What the guards say of the files when a command is reviewed, and again when
\* its event is appended.
CreationBoundary(op, t, i) ==
    IF op = "complete" THEN Retained(disk, t, i) /\ Published(disk, i)
    ELSE Retained(disk, t, i) /\ Unpublished(disk, i)
DeletionBoundary(op, t, i) ==
    CASE op = "prepare" -> Unpublished(disk, i)
      [] op = "permit" -> Retained(disk, t, i) /\ Unpublished(disk, i)
      [] op = "complete" -> Retained(disk, t, i) /\ Published(disk, i)
TransitionBoundary(op, t, i) ==
    CASE op = "prepare" -> Unpublished(disk, i) /\ (i.kind # "lock" => Staged(disk, t, i))
      [] op = "permit" -> Unpublished(disk, i) /\ Staged(disk, t, i)
      [] op = "complete" -> Published(disk, i)
Boundary(op, t, i) ==
    CASE i.kind = "creation" -> CreationBoundary(op, t, i)
      [] i.kind = "deletion" -> DeletionBoundary(op, t, i)
      [] OTHER -> TransitionBoundary(op, t, i)
\* The event file: absent, or this very command's from before.
EventOf(op, t, i) == [state |-> "whole", op |-> op, transaction |-> t, intent |-> i]
\* Context::replay: a prepared event that the journal does not name refuses
\* every command but the one it belongs to.
Replays(candidate) == disk.event \in {NoEvent} \cup candidate
EventFits(op, t, i) == Replays({EventOf(op, t, i)})
-----------------------------------------------------------------------------
(* Proposals: creations, passwords, activations and recoveries are staged  *)
(* whole before their command is reviewed.                                 *)
Proposing(t, i) ==
    /\ job = NoJob /\ disk.stage[t] = NoStage /\ Unpublished(disk, i)
    /\ catalog.generation[i.principal] < MaxGeneration /\ Prepare(catalog, t, i) # {}
    /\ job' = [at |-> "proposing", op |-> "prepare", transaction |-> t, intent |-> i]
    /\ UNCHANGED <<catalog, disk, disks>>
\* creation's Guard::new and deletion's Guard::prepare: the intent is derived
\* from the files as they are.
NewCreation(t, p) ==
    {i \in Intents(t, p, catalog.generation[p], disk.shadow[p]) : i.kind = "creation"}
NewDeletion(t) ==
    {i \in UNION {Intents(t, p, catalog.generation[p], disk.shadow[p]) : p \in Principal \ {Admin}} :
        i.kind = "deletion"}
ProposeCreation(t, p) == \E i \in NewCreation(t, p) : Proposing(t, i)
ProposePassword(t, p) ==
    \E i \in Intents(t, p, catalog.generation[p], disk.shadow[p]) :
        i.kind \in {"password", "activation", "renewal"} /\ Proposing(t, i)
ProposeRecovery(t) ==
    \E i \in Intents(t, Admin, catalog.generation[Admin], disk.shadow[Admin]) :
        i.kind = "recovery" /\ Proposing(t, i)
\* The temporary directory is complete and synced when it takes its name.
RenameProposal ==
    /\ job # NoJob /\ job.at = "proposing"
    /\ Change([disk EXCEPT !.stage[job.transaction] = [state |-> "whole", intent |-> job.intent]])
    /\ Goto("proposed") /\ UNCHANGED catalog
SyncProposal ==
    /\ job # NoJob /\ job.at = "proposed"
    /\ Synced(disk) /\ job' = NoJob /\ UNCHANGED catalog
-----------------------------------------------------------------------------
(* One reviewed command: execute_catalog_authorized_at                     *)
Applies(op, t, i) ==
    CASE op = "prepare" -> Prepare(catalog, t, i)
      [] op = "permit" -> Permit(catalog, t)
      [] op = "complete" -> Complete(catalog, t)
Review(op, t, i) ==
    /\ job = NoJob /\ EventFits(op, t, i)
    /\ op = "prepare" => catalog.generation[i.principal] < MaxGeneration
    /\ Applies(op, t, i) # {} /\ Boundary(op, t, i)
    /\ job' = [at |-> IF op = "prepare" /\ ~Staged(disk, t, i) THEN "staging" ELSE "event",
               op |-> op, transaction |-> t, intent |-> i]
    /\ UNCHANGED <<catalog, disk, disks>>
\* The intent is derived from the files, or is the one the transaction has.
Reviewable(op, t) ==
    IF op = "prepare"
    THEN UNION {Intents(t, p, catalog.generation[p], disk.shadow[p]) : p \in Principal}
    ELSE {IntentOf(catalog.transition[u]) : u \in {t} \cap Pending(catalog)}
CreationCommand(op, t) == \E i \in Reviewable(op, t) : i.kind = "creation" /\ Review(op, t, i)
DeletionCommand(op, t) ==
    \E i \in IF op = "prepare" THEN NewDeletion(t) ELSE Reviewable(op, t) :
        i.kind = "deletion" /\ Review(op, t, i)
LockCommand(op, t) == \E i \in Reviewable(op, t) : i.kind = "lock" /\ Review(op, t, i)
PasswordCommand(op, t) == \E i \in Reviewable(op, t) : i.kind = "password" /\ Review(op, t, i)
ActivationCommand(op, t) ==
    \E i \in Reviewable(op, t) : i.kind \in {"activation", "renewal"} /\ Review(op, t, i)
RecoveryCommand(op, t) == \E i \in Reviewable(op, t) : i.kind = "recovery" /\ Review(op, t, i)
\* A deletion is staged as a proposal is; a lock is staged in place, and only an
\* interrupted stage of the same intent is gone on with.
StageLock ==
    /\ job # NoJob /\ job.at = "staging" /\ job.intent.kind = "lock"
    /\ disk.stage[job.transaction] \in {NoStage, [state |-> "part", intent |-> job.intent]}
    /\ Change([disk EXCEPT !.stage[job.transaction] = [state |-> "part", intent |-> job.intent]])
    /\ Goto("stagingLock") /\ UNCHANGED catalog
StageLockWhole ==
    /\ job # NoJob /\ job.at = "stagingLock"
    /\ Change([disk EXCEPT !.stage[job.transaction] = [state |-> "whole", intent |-> job.intent]])
    /\ Goto("stageSync") /\ UNCHANGED catalog
StageDeletion ==
    /\ job # NoJob /\ job.at = "staging" /\ job.intent.kind = "deletion"
    /\ disk.stage[job.transaction] = NoStage
    /\ Change([disk EXCEPT !.stage[job.transaction] = [state |-> "whole", intent |-> job.intent]])
    /\ Goto("stageSync") /\ UNCHANGED catalog
SyncStage ==
    /\ job # NoJob /\ job.at = "stageSync"
    /\ Synced(disk) /\ Goto("event") /\ UNCHANGED catalog
\* create_new: the file is there before its bytes are; bytes cut short refuse
\* every later command.
CreateEvent ==
    /\ job # NoJob /\ job.at = "event"
    /\ IF disk.event = NoEvent
       THEN Change([disk EXCEPT !.event = [state |-> "torn"]]) /\ Goto("eventBytes")
       ELSE UNCHANGED <<disk, disks>> /\ Goto("append")
    /\ UNCHANGED catalog
WriteEvent ==
    /\ job # NoJob /\ job.at = "eventBytes"
    /\ Synced([disk EXCEPT !.event = EventOf(job.op, job.transaction, job.intent)])
    /\ Goto("append") /\ UNCHANGED catalog
\* append: the journal takes the event and the anchor advances, as one step; a
\* permitted transition is published by the process that has it permitted.
AppendEvent ==
    /\ job # NoJob /\ job.at = "append"
    /\ Boundary(job.op, job.transaction, job.intent)
    /\ catalog' \in Applies(job.op, job.transaction, job.intent)
    /\ Synced([disk EXCEPT !.event = NoEvent])
    /\ IF job.op = "permit" /\ job.intent.kind \notin {"creation", "deletion"}
       THEN Goto("shadow") ELSE job' = NoJob
-----------------------------------------------------------------------------
(* Publication                                                             *)
\* The intent is captured again from the disk, under the anchored permission.
MayPublish_Prepared(t) == catalog.transition[t].phase \in {"prepared", "permitted"}
MayPublish(t) == catalog.transition[t].phase = "permitted"
Publishing(t, at) ==
    LET i == IntentOf(catalog.transition[t]) IN
    /\ job = NoJob /\ Replays({})
    /\ Retained(disk, t, i) /\ ~Published(disk, i)
    /\ job' = [at |-> at, op |-> "publish", transaction |-> t, intent |-> i]
    /\ UNCHANGED <<catalog, disk, disks>>
\* "permit" again publishes a transition; creations and deletions have a command
\* of their own for each file.
PublishTransition(t) ==
    /\ MayPublish(t) /\ catalog.transition[t].kind \notin {"creation", "deletion", "recovery"}
    /\ Publishing(t, "shadow")
\* RecoveryAttempt::execute: under the custody credential that is current.
PublishRecovery(t) ==
    /\ MayPublish(t) /\ catalog.transition[t].kind = "recovery"
    /\ Publishing(t, "shadow")
PublishCreation(t) ==
    /\ MayPublish(t) /\ catalog.transition[t].kind = "creation"
    /\ Publishing(t, IF "home" \in disk.rows[catalog.transition[t].principal]
                     THEN "copy" ELSE "home")
PublishDeletion(t) ==
    /\ MayPublish(t) /\ catalog.transition[t].kind = "deletion"
    /\ Publishing(t, "copy")
\* <file>.next is created, or an interrupted one with the same bytes completed.
CopyNext ==
    /\ job # NoJob /\ job.at = "copy"
    /\ Change([disk EXCEPT !.next = "torn"]) /\ Goto("copyBytes") /\ UNCHANGED catalog
WriteNext ==
    /\ job # NoJob /\ job.at = "copyBytes"
    /\ Synced([disk EXCEPT !.next = "whole"]) /\ Goto("rename") /\ UNCHANGED catalog
RenameTo(f) ==
    /\ Change(Renamed(disk, job.intent, f)) /\ Goto("renamed") /\ UNCHANGED catalog
RenameHome == job # NoJob /\ job.at = "home" /\ RenameTo("home")
RenameShadow == job # NoJob /\ job.at = "shadow" /\ RenameTo("shadow")
RenameCreated ==
    /\ job # NoJob /\ job.at = "rename" /\ job.intent.kind = "creation"
    /\ RenameTo(NextFile(disk, job.intent))
RenameDeleted ==
    /\ job # NoJob /\ job.at = "rename" /\ job.intent.kind = "deletion"
    /\ RenameTo(NextFile(disk, job.intent))
SyncFile ==
    /\ job # NoJob /\ job.at = "renamed"
    /\ Synced(disk) /\ job' = NoJob /\ UNCHANGED catalog
-----------------------------------------------------------------------------
(* Commands that change no file, and failures                              *)
Advance(p, on) ==
    /\ job = NoJob /\ Replays({}) /\ catalog.generation[p] < MaxGeneration
    /\ \/ catalog' \in AdvancePrincipal(catalog, p, catalog.generation[p], on)
       \/ p = Admin /\ on /\ catalog' \in RotateAdmin(catalog, catalog.generation[p])
    /\ UNCHANGED <<disk, disks, job>>
\* RecoveryAttempt::prepare: custody moves Admin on, while the installed registry
\* is the catalog's.
recover_admin ==
    /\ job = NoJob /\ Replays({}) /\ catalog.generation[Admin] < MaxGeneration
    /\ catalog.registry = {p \in Principal : "registry" \in disk.rows[p]}
    /\ catalog' \in RecoverAdmin(catalog, catalog.generation[Admin], catalog.recovery)
    /\ UNCHANGED <<disk, disks, job>>
Die == job # NoJob /\ job' = NoJob /\ UNCHANGED <<catalog, disk, disks>>
PowerLoss ==
    /\ \E d \in disks : disk' = d /\ disks' = {d}
    /\ job' = NoJob /\ UNCHANGED catalog

Command ==
    \/ \E t \in Transaction, p \in Principal : ProposeCreation(t, p) \/ ProposePassword(t, p)
    \/ \E t \in Transaction : ProposeRecovery(t)
    \/ \E t \in Transaction, op \in {"prepare", "permit", "complete"} :
          \/ CreationCommand(op, t) \/ DeletionCommand(op, t) \/ LockCommand(op, t)
          \/ PasswordCommand(op, t) \/ ActivationCommand(op, t) \/ RecoveryCommand(op, t)
    \/ \E t \in Transaction :
          \/ PublishTransition(t) \/ PublishRecovery(t) \/ PublishCreation(t) \/ PublishDeletion(t)
    \/ \E p \in Principal, on \in BOOLEAN : Advance(p, on)
    \/ recover_admin

AccountNext ==
    \/ job = NoJob /\ Command
    \/ RenameProposal \/ SyncProposal
    \/ StageLock \/ StageLockWhole \/ StageDeletion \/ SyncStage
    \/ CreateEvent \/ WriteEvent \/ AppendEvent
    \/ CopyNext \/ WriteNext
    \/ RenameHome \/ RenameShadow \/ RenameCreated \/ RenameDeleted \/ SyncFile
    \/ Die \/ PowerLoss
AccountSpec == AccountInit /\ [][AccountNext]_accountVars
-----------------------------------------------------------------------------
\* Whatever a power loss leaves, the account files are those of the catalog: an
\* account with nothing pending has exactly its committed credential and rows, a
\* prepared one is untouched with its stage whole, and a permitted one is part
\* of the way along its order with a stage that the same command resumes.
IdentityFollowsCatalog ==
    \A d \in disks : \A p \in Principal :
        IF PendingOf(catalog, p) = {}
        THEN /\ d.shadow[p] = IF p \in catalog.deleted THEN NoCredential ELSE catalog.commitment[p]
             /\ d.rows[p] = IF p \notin catalog.registry THEN {}
                            ELSE IF p \in catalog.deleted THEN {"home", "registry"} ELSE Rows
        ELSE \A t \in PendingOf(catalog, p) :
                LET x == catalog.transition[t]
                    i == IntentOf(x) IN
                /\ Staged(d, t, i)
                /\ IF x.phase = "prepared" THEN Unpublished(d, i)
                   ELSE \E n \in 0..Len(Files(i.kind)) : Prefix(d, i, n)
=============================================================================
