----------------------------- MODULE RequestHistory -----------------------------
(***************************************************************************)
(* resources.rs, resources/retention.rs, resource_manager/requests/        *)
(* journal.rs, resource_manager/history.rs and recovery.rs: the two        *)
(* histories of the resource manager, the ledger of leases and the journal *)
(* of requests.  Each is one hot file and a chain of immutable archives    *)
(* the hot file cites; an owner or a nonce once admitted is refused ever   *)
(* after, from the hot file or from the chain.  An archive is staged,      *)
(* renamed and only then cited; an interrupted stage is put aside, and     *)
(* evidence nothing cites is deleted offline.  Calls fail, processes die   *)
(* and power is lost between any two steps.  Directory changes are visible *)
(* at once and durable, in their order, at the next sync.                  *)
(***************************************************************************)
EXTENDS Naturals, Sequences, FiniteSets

CONSTANTS
    Identity,     \* the owners of leases, and the nonces of requests
    MaxReceipts,  \* hot records of the request journal
    MaxBatch,     \* MAX_ARCHIVES
    MaxEntries,   \* MAX_ARCHIVE_FILES and MAX_FILES
    MaxIntents,   \* the outcomes retained of evidence deletions
    MaxEpochs, MaxFaults

VARIABLES
    dir,          \* the private resource directory as a reader finds it
    dirs,         \* what a power loss can leave of it
    mode,         \* who holds ledger.lock: nobody, the manager, a command
    poisoned,     \* the holder's last publication is uncertain
    retired,      \* the identities the manager holds as retired
    job,          \* what the holder is in the middle of
    masked,       \* the three units are masked, idle and drained
    lock,         \* model-runtime.lock exists
    admitted,     \* the identities acknowledged
    faults

historyVars == <<dir, dirs, mode, poisoned, retired, job, masked, lock, admitted, faults>>

Stores == {"ledger", "requests"}
NoTask == [verb |-> "none", at |-> "none"]
Empty == [file |-> "whole", open |-> {}, done |-> {}, chain |-> <<>>, epoch |-> 0]

\* initialize, or a machine whose resource state is older than the journal.
HistoryInit ==
    /\ dir \in [hot : {[s \in Stores |-> Empty],
                       [ledger |-> Empty, requests |-> [Empty EXCEPT !.file = "absent"]]},
                files : {{}}, intents : {<<>>}]
    /\ dirs = {dir} /\ mode = "nobody" /\ poisoned = FALSE
    /\ retired = [s \in Stores |-> {}] /\ job = NoTask
    /\ masked = FALSE /\ lock = TRUE
    /\ admitted = [s \in Stores |-> {}] /\ faults = 0
-----------------------------------------------------------------------------
Change(d) == dir' = d /\ dirs' = dirs \cup {d}
Synced(d) == dir' = d /\ dirs' = {d}
Same == UNCHANGED <<dir, dirs>>
Fails == faults < MaxFaults /\ faults' = faults + 1
Steady == UNCHANGED <<mode, masked, lock, faults>>

Hot(d, s) == d.hot[s].open \cup d.hot[s].done
\* The name of a snapshot is its place in the chain and the digest of its bytes.
Snapshot(d, s) ==
    [batch |-> Len(d.hot[s].chain) + 1, items |-> d.hot[s].done, epoch |-> d.hot[s].epoch]
File(s, kind, id, torn) == [store |-> s, kind |-> kind, id |-> id, torn |-> torn]
Of(d, s) == {f \in d.files : f.store = s}
Cited(d, s) == {d.hot[s].chain[k] : k \in DOMAIN d.hot[s].chain}

\* verify_archives, inventory: every archive is whole and named for what it
\* holds, and each the hot file cites is there, after its predecessors.  The
\* bytes of a stage are not interpreted.
Inventory(d, s) ==
    /\ \A f \in Of(d, s) : f.kind = "archive" => ~f.torn /\ f.id.items # {}
    /\ \A k \in DOMAIN d.hot[s].chain :
           /\ d.hot[s].chain[k].batch = k
           /\ File(s, "archive", d.hot[s].chain[k], FALSE) \in d.files
    /\ \A j, k \in DOMAIN d.hot[s].chain :
           j # k => d.hot[s].chain[j].items \cap d.hot[s].chain[k].items = {}
Retired(d, s) == UNION {id.items : id \in Cited(d, s)}
\* decode, validate_records: no identity twice, one request outstanding at most.
Decodes(d, s) ==
    /\ d.hot[s].file = "whole" /\ d.hot[s].open \cap d.hot[s].done = {}
    /\ s = "requests" => Cardinality(d.hot[s].open) <= 1
\* Store::open, Gate::open
Opens(d, s) == Decodes(d, s) /\ Inventory(d, s)
\* Every lease is released, so that no worker task is left.
NoModelTasks(d) == d.hot["ledger"].open = {}
\* And no request is outstanding.
Drained(d) == NoModelTasks(d) /\ d.hot["requests"].open = {}
-----------------------------------------------------------------------------
(* The manager.                                                            *)
\* A start validates both histories and publishes its epoch.
Start ==
    /\ mode = "nobody" /\ ~masked
    /\ \A s \in Stores : Opens(dir, s)
    /\ dir.hot["ledger"].epoch < MaxEpochs
    /\ Synced([dir EXCEPT !.hot["ledger"].epoch = @ + 1])
    /\ mode' = "manager" /\ poisoned' = FALSE
    /\ retired' = [s \in Stores |-> Retired(dir, s)]
    /\ UNCHANGED <<job, masked, lock, admitted, faults>>

\* Whatever fails in a publication poisons it, and maintenance then fences the
\* manager for the rest of its life.
Serving == mode = "manager" /\ ~poisoned /\ job = NoTask

\* begin, and the admission of an owner: what is hot or retired is refused.
Fresh(s, i) == i \notin Hot(dir, s) /\ i \notin retired[s]
Admit(s, i) ==
    /\ Serving /\ lock /\ Fresh(s, i)
    /\ s = "requests" =>
           /\ dir.hot[s].open = {} /\ dir.hot["ledger"].open # {}
           /\ Cardinality(Hot(dir, s)) < MaxReceipts
    /\ \/ Synced([dir EXCEPT !.hot[s].open = @ \cup {i}])
          /\ admitted' = [admitted EXCEPT ![s] = @ \cup {i}]
          /\ UNCHANGED <<poisoned, faults>>
       \/ Change([dir EXCEPT !.hot[s].open = @ \cup {i}])
          /\ Fails /\ poisoned' = TRUE /\ UNCHANGED admitted
    /\ UNCHANGED <<mode, retired, job, masked, lock>>
\* A request ends, and a lease drains; a lease never before its request.
Settle(s, i) ==
    /\ Serving /\ i \in dir.hot[s].open
    /\ s = "ledger" => dir.hot["requests"].open = {}
    /\ Synced([dir EXCEPT !.hot[s].open = @ \ {i}, !.hot[s].done = @ \cup {i}])
    /\ UNCHANGED <<poisoned, retired, job, admitted>> /\ Steady
-----------------------------------------------------------------------------
(* resource-archive and resource-request-archive                           *)
Task(verb, s, at, id, plan) ==
    job' = [verb |-> verb, store |-> s, at |-> at, id |-> id, plan |-> plan]
Goto(at) == job' = [job EXCEPT !.at = at]
Finished == job' = NoTask

MayArchive(s) ==
    /\ dir.hot[s].open = {} /\ dir.hot[s].done # {}
    /\ s = "ledger" => Drained(dir) /\ dir.hot[s].epoch < MaxEpochs
    /\ Len(dir.hot[s].chain) < MaxBatch /\ Inventory(dir, s)
Archive(s) ==
    LET id == Snapshot(dir, s)
        path == File(s, "archive", id, FALSE)
        stage(torn) == File(s, "stage", id, torn)
    IN  /\ Serving /\ MayArchive(s)
        /\ \/ Cardinality(Of(dir, s)) < MaxEntries
           \/ {path, stage(TRUE), stage(FALSE)} \cap dir.files # {}
        /\ \/ path \in dir.files /\ Task("archive", s, "renamed", id, {}) /\ Same
              /\ UNCHANGED poisoned
           \/ /\ path \notin dir.files
              /\ \/ stage(FALSE) \in dir.files /\ Task("archive", s, "staged", id, {})
                    /\ Synced(dir) /\ UNCHANGED poisoned
                 \* a torn preparation is preserved, and refused
                 \/ stage(TRUE) \in dir.files /\ Finished /\ Same /\ poisoned' = TRUE
                 \/ /\ {stage(TRUE), stage(FALSE)} \cap dir.files = {}
                    /\ Change([dir EXCEPT !.files = @ \cup {stage(TRUE)}])
                    /\ Task("archive", s, "staging", id, {}) /\ UNCHANGED poisoned
        /\ UNCHANGED <<retired, admitted>> /\ Steady
Replaced(from, to) == [dir EXCEPT !.files = (@ \ {from}) \cup {to}]
ArchiveStaged ==
    /\ job.verb = "archive" /\ job.at = "staging"
    /\ Synced(Replaced(File(job.store, "stage", job.id, TRUE), File(job.store, "stage", job.id, FALSE)))
    /\ Goto("staged") /\ UNCHANGED <<poisoned, retired, admitted>> /\ Steady
ArchiveRenamed ==
    /\ job.verb = "archive" /\ job.at = "staged"
    /\ Change(Replaced(File(job.store, "stage", job.id, FALSE), File(job.store, "archive", job.id, FALSE)))
    /\ Goto("renamed") /\ UNCHANGED <<poisoned, retired, admitted>> /\ Steady
ArchivePublished ==
    /\ job.verb = "archive" /\ job.at = "renamed"
    /\ Synced(dir) /\ Goto("published") /\ UNCHANGED <<poisoned, retired, admitted>> /\ Steady
\* The cut: the hot file cites the archive and drops what it holds.
Cut(d, s, id) ==
    [d EXCEPT !.hot[s].chain = Append(@, id), !.hot[s].done = {},
              !.hot[s].epoch = IF s = "ledger" THEN @ + 1 ELSE @]
\* The tombstones follow the cut; when its publication fails nobody is served.
ArchiveCut ==
    LET s == job.store IN
    /\ job.verb = "archive" /\ job.at = "published"
    /\ \/ Synced(Cut(dir, s, job.id))
          /\ retired' = [retired EXCEPT ![s] = @ \cup job.id.items]
          /\ UNCHANGED <<poisoned, faults>>
       \/ Change(Cut(dir, s, job.id)) /\ Fails /\ poisoned' = TRUE /\ UNCHANGED retired
    /\ Finished /\ UNCHANGED <<mode, masked, lock, admitted>>
-----------------------------------------------------------------------------
(* resource-recover and resource-request-recover: a torn stage is renamed  *)
(* out of the way, its bytes kept.  A whole one is left for the archive    *)
(* command it belongs to.                                                  *)
RecoveryCandidate(s, f) ==
    /\ Drained(dir) /\ Inventory(dir, s)
    /\ f \in Of(dir, s) /\ f.kind = "stage" /\ f.torn
    /\ \A g \in Of(dir, s) : g.kind = "stage" => g.id.batch <= Len(dir.hot[s].chain) + 1
\* handle: the groups are empty and, for the ledger, no request is outstanding.
MayRecover(s) == NoModelTasks(dir) /\ (s = "ledger" => dir.hot["requests"].open = {})
RecoverStage(s) ==
    /\ Serving /\ MayRecover(s)
    /\ \E f \in dir.files :
           /\ RecoveryCandidate(s, f)
           /\ Change(Replaced(f, [f EXCEPT !.kind = "retained"]))
           /\ Task("recover", s, "renamed", f.id, {})
    /\ UNCHANGED <<poisoned, retired, admitted>> /\ Steady
StagePreserved ==
    /\ job.verb = "recover" /\ Synced(dir) /\ Finished
    /\ UNCHANGED <<poisoned, retired, admitted>> /\ Steady
-----------------------------------------------------------------------------
(* resource-request-export: a cited archive, read back and compared with   *)
(* its digest before any of it is answered.                                *)
Exportable(id) == File("requests", "archive", id, FALSE) \in dir.files
Export(id) ==
    /\ Serving /\ id \in Cited(dir, "requests")
    /\ poisoned' = ~Exportable(id)
    /\ Synced(dir) /\ UNCHANGED <<retired, job, admitted>> /\ Steady
-----------------------------------------------------------------------------
(* The offline commands, under the masks and the ledger's lock.            *)
Mask ==
    /\ mode # "manager" /\ masked' = ~masked
    /\ UNCHANGED <<dir, dirs, mode, poisoned, retired, job, lock, admitted, faults>>
Offline == mode = "nobody" /\ masked /\ Opens(dir, "ledger") /\ NoModelTasks(dir)

\* deletion_plan, retention_evidence: nothing the hot files cite, and nothing
\* that belongs to a batch still to come.
Deletable_Named(f) == TRUE
Deletable(f) ==
    /\ f.kind = "archive" => f.id \notin Cited(dir, f.store)
    /\ f.kind = "stage" => f.id.batch <= Len(dir.hot[f.store].chain) + 1
Intents == dir.intents
\* retention_outcomes: a damaged record of an earlier deletion refuses all.
OutcomesReadable == \A k \in DOMAIN Intents : Intents[k].file = "whole" /\ Intents[k].receipt # "torn"
DeletionPlan(plan) ==
    /\ Opens(dir, "requests") /\ Drained(dir)
    /\ plan # {} /\ \A f \in plan : Deletable(f)
DeleteRetained(plan) ==
    /\ Offline /\ lock /\ DeletionPlan(plan)
    /\ OutcomesReadable /\ Len(Intents) < MaxIntents
    /\ Change([dir EXCEPT !.intents = Append(@, [file |-> "torn", receipt |-> "none"])])
    /\ Task("delete", "ledger", "intent", <<>>, plan)
    /\ mode' = "command" /\ poisoned' = FALSE
    /\ UNCHANGED <<retired, masked, lock, admitted, faults>>
Last == Len(dir.intents)
DeletionIntended ==
    /\ job.verb = "delete" /\ job.at = "intent"
    /\ Synced([dir EXCEPT !.intents[Last].file = "whole"]) /\ Goto("unlink")
    /\ UNCHANGED <<poisoned, retired, admitted>> /\ Steady
\* The grant and the masks are checked again before every file.
DeletionUnlinks ==
    /\ job.verb = "delete" /\ job.at = "unlink" /\ masked
    /\ \E f \in job.plan :
           /\ f \in dir.files
           /\ Synced([dir EXCEPT !.files = @ \ {f}])
           /\ job' = [job EXCEPT !.plan = @ \ {f}]
    /\ UNCHANGED <<poisoned, retired, admitted>> /\ Steady
DeletionVerified ==
    /\ job.verb = "delete" /\ job.at = "unlink" /\ job.plan = {}
    /\ \A s \in Stores : Opens(dir, s)
    /\ Change([dir EXCEPT !.intents[Last].receipt = "torn"]) /\ Goto("receipt")
    /\ UNCHANGED <<poisoned, retired, admitted>> /\ Steady
DeletionReceipted ==
    /\ job.verb = "delete" /\ job.at = "receipt"
    /\ Synced([dir EXCEPT !.intents[Last].receipt = "whole"]) /\ Finished /\ mode' = "nobody"
    /\ UNCHANGED <<poisoned, retired, masked, lock, admitted, faults>>

\* request_migration: only where there is no trace of a request history.
NoHistory == dir.hot["requests"].file = "absent" /\ Of(dir, "requests") = {}
MigrateStore ==
    /\ mode = "nobody" /\ Opens(dir, "ledger") /\ lock
    /\ NoHistory /\ NoModelTasks(dir) /\ dir.hot["ledger"].epoch < MaxEpochs
    /\ Synced([dir EXCEPT !.hot["ledger"].epoch = IF @ = 0 THEN 0 ELSE @ + 1])
    /\ Task("migrate", "requests", "rotated", <<>>, {})
    /\ mode' = "command" /\ poisoned' = FALSE
    /\ UNCHANGED <<retired, masked, lock, admitted, faults>>
MigrationCreates ==
    /\ job.verb = "migrate" /\ job.at = "rotated"
    /\ Change([dir EXCEPT !.hot["requests"].file = "torn"]) /\ Goto("created")
    /\ UNCHANGED <<poisoned, retired, admitted>> /\ Steady
Migrated ==
    /\ job.verb = "migrate" /\ job.at = "created"
    /\ Synced([dir EXCEPT !.hot["requests"].file = "whole"]) /\ Finished /\ mode' = "nobody"
    /\ UNCHANGED <<poisoned, retired, masked, lock, admitted, faults>>

\* recover: a missing exclusion inode is made again once nothing can run.
RecoverLock ==
    /\ Offline /\ ~lock /\ lock' = TRUE
    /\ UNCHANGED <<dir, dirs, mode, poisoned, retired, job, masked, admitted, faults>>
-----------------------------------------------------------------------------
(* Faults.                                                                 *)
\* A call of the task fails; the publication is uncertain from there on.
TaskFails ==
    /\ job # NoTask /\ Fails /\ Finished
    /\ poisoned' = TRUE /\ mode' = IF mode = "command" THEN "nobody" ELSE mode
    /\ UNCHANGED <<dir, dirs, retired, masked, lock, admitted>>
\* A boundary is refused because the masks went away under the command.
DeletionRefused ==
    /\ job.verb = "delete" /\ job.at = "unlink" /\ ~masked
    /\ Finished /\ mode' = "nobody"
    /\ UNCHANGED <<dir, dirs, poisoned, retired, masked, lock, admitted, faults>>
Exit ==
    /\ mode = "manager" /\ job = NoTask /\ mode' = "nobody"
    /\ retired' = [s \in Stores |-> {}]
    /\ UNCHANGED <<dir, dirs, poisoned, job, masked, lock, admitted, faults>>
PowerLoss ==
    /\ Fails /\ dir' \in dirs /\ dirs' = {dir'}
    /\ mode' = "nobody" /\ job' = NoTask /\ poisoned' = FALSE /\ masked' = FALSE
    /\ retired' = [s \in Stores |-> {}]
    /\ UNCHANGED <<lock, admitted>>
LockLost ==
    /\ Fails /\ lock /\ lock' = FALSE
    /\ UNCHANGED <<dir, dirs, mode, poisoned, retired, job, masked, admitted>>
-----------------------------------------------------------------------------
HistoryNext ==
    \/ Start
    \/ \E s \in Stores, i \in Identity : Admit(s, i)
    \/ \E s \in Stores, i \in Identity : Settle(s, i)
    \/ \E s \in Stores : Archive(s)
    \/ ArchiveStaged
    \/ ArchiveRenamed
    \/ ArchivePublished
    \/ ArchiveCut
    \/ \E s \in Stores : RecoverStage(s)
    \/ StagePreserved
    \/ \E id \in Cited(dir, "requests") : Export(id)
    \/ Mask
    \/ \E plan \in SUBSET dir.files : DeleteRetained(plan)
    \/ DeletionIntended
    \/ DeletionUnlinks
    \/ DeletionVerified
    \/ DeletionReceipted
    \/ MigrateStore
    \/ MigrationCreates
    \/ Migrated
    \/ RecoverLock
    \/ TaskFails
    \/ DeletionRefused
    \/ Exit
    \/ PowerLoss
    \/ LockLost
HistorySpec == HistoryInit /\ [][HistoryNext]_historyVars
-----------------------------------------------------------------------------
\* An identity once acknowledged is never forgotten: whatever a power loss
\* leaves of the directory opens, and names the identity in its hot file or in
\* an archive the hot file cites; and a manager that serves holds it as hot or
\* retired, so that begin and the admission of an owner refuse it.
NeverForgotten ==
    \A s \in Stores : \A i \in admitted[s] :
        /\ \A d \in dirs : Opens(d, s) /\ i \in Hot(d, s) \cup Retired(d, s)
        /\ mode = "manager" /\ ~poisoned => ~Fresh(s, i)
=============================================================================
