---------------------------- MODULE WorkflowHistory ----------------------------
(***************************************************************************)
(* workflow_dag.rs: the durable runs of one principal's workflow graph.    *)
(* A run is a plan and a chain of checkpoints, in SQLite; the bytes its    *)
(* nodes produce are content-addressed files.  Publications go to the      *)
(* artifact catalog, which is CatalogService here.                         *)
(*                                                                         *)
(* A call holds the flock of the domain's root (while the domain is        *)
(* created, of its parent) until it ends, and so does every operation of   *)
(* the history ledger: step # "idle" is that lock.  Authority is checked   *)
(* between the steps and not held: it may go away at any time.             *)
(***************************************************************************)
EXTENDS Naturals, Sequences, FiniteSets, SequencesExt

CONSTANTS
    Run, Node,
    Order,      \* the nodes in the order of the signed graph
    Kind,       \* of each node: "read", "calc" or "write"
    Artifact, Target,  \* Target[w][n]: the artifact and the version a write expects
    MaxEpoch,   \* bound: epochs ever opened
    None

VARIABLES
    disk,       \* the domain and the history ledger as a reader finds them
    disks,      \* what a power loss can leave of them
    published,  \* the receipts of the artifact catalog
    step, job,  \* where the process holding the lock is, and what it does
    armed,      \* its authority was checked and nothing changed since
    granted,    \* the grants of the callers are in force
    owned,      \* the runs' owner generation is the current one
    late        \* durable changes since authority was last withdrawn

world == <<granted, owned>>
dagVars == <<disk, disks, published, step, job, armed, granted, owned, late>>

Data == {n \in Node : Kind[n] # "write"}
Epoch == 0 .. MaxEpoch
Event == [phase : {"prepared", "cancelled"}, node : {None}]
            \cup [phase : {"applying", "completed"}, node : Node]
Effect == [request : Run \X Node \X Epoch, artifact : Artifact, version : 1 .. Cardinality(Run)]

Catalog == INSTANCE CatalogService WITH Promised <- Effect, told <- {}

DagInit ==
    /\ disk = [domain |-> "absent", plan |-> [w \in Run |-> None],
               events |-> [w \in Run |-> <<>>], objects |-> [n \in Data |-> "none"],
               staged |-> FALSE,
               ledger |-> [epoch |-> 0, export |-> None, mark |-> None, deleting |-> FALSE]]
    /\ disks = {disk}
    /\ published = {}
    /\ step = "idle" /\ job = None /\ armed = FALSE
    /\ granted = TRUE /\ owned = TRUE
    /\ late = 0
-----------------------------------------------------------------------------
(* Reading the store.                                                      *)

Completed(es) == SelectSeq(es, LAMBDA e : e.phase = "completed")
Cursor(es) == Len(Completed(es))
Finished(es) == Cursor(es) = Len(Order)
Phase(es) == Last(es).phase
Terminal(es) == es # <<>> /\ (Phase(es) = "cancelled" \/ Finished(es))
NextNode(es) == Order[Cursor(es) + 1]
Closed(es) == es = <<>> \/ Terminal(es)

\* load: the checkpoints of a run replay to a run, with the objects they name.
ValidEvent(es, i, d) ==
    LET before == SubSeq(es, 1, i - 1)
        e == es[i]
    IN /\ i > 1 => ~Terminal(before)
       /\ CASE e.phase = "prepared" -> i = 1
            [] e.phase = "cancelled" -> i > 1 /\ Phase(before) # "applying"
            [] e.phase = "applying" -> /\ i > 1 /\ Phase(before) # "applying"
                                       /\ e.node = NextNode(before) /\ Kind[e.node] = "write"
            [] e.phase = "completed" -> /\ i > 1 /\ e.node = NextNode(before)
                                        /\ IF Kind[e.node] = "write"
                                           THEN Phase(before) = "applying"
                                           ELSE d.objects[e.node] = "object"
\* Proposal::validate: every write has its target, no two the same artifact.
ValidProposal(w) ==
    \A n \in Node \ Data : \A m \in (Node \ Data) \ {n} :
        Target[w][n].artifact # Target[w][m].artifact
\* Plan::validate: a stored plan names its epoch and its targets, whatever is
\* installed now.
ValidPlan(d, w) == d.plan[w] \in Epoch /\ ValidProposal(w)
Load(d, w) ==
    /\ d.events[w] # <<>> => ValidPlan(d, w)
    /\ \A i \in DOMAIN d.events[w] : ValidEvent(d.events[w], i, d)

\* Store::open, with inventory: the domain is whole and every run loads.
Openable(d) == d.domain = "ready" /\ \A w \in Run : Load(d, w)

\* check_epoch: nothing is staged or marked, and the epoch is the plan's.
EpochOpen(d, e) == ~d.staged /\ d.ledger.mark = None /\ ~d.ledger.deleting /\ d.ledger.epoch = e

EffectOf(w, n) == [request |-> <<w, n, disk.plan[w]>>,
                   artifact |-> Target[w][n].artifact, version |-> Target[w][n].expected + 1]
\* committed_owned_invoice: the catalog holds exactly this receipt.
Proven(w, n) == EffectOf(w, n) \in published
-----------------------------------------------------------------------------
(* The steps of a call.                                                    *)

\* authorize_base for an owner's call, authorize_workflow_recovery for a
\* disposition of an old generation's run, authorize_history_owner for the rest.
Authority(j) ==
    /\ granted
    /\ j.by = "owner" => owned
    /\ j.by # "history" => EpochOpen(disk, j.epoch)

Check == /\ step # "idle" /\ ~armed /\ Authority(job)
         /\ armed' = TRUE
         /\ UNCHANGED <<disk, disks, published, step, job, world, late>>

Effectful_OneCheck == armed /\ UNCHANGED armed /\ late' = IF Authority(job) THEN late ELSE late + 1
\* A durable change is made right after a check, which it uses up.
Effectful == /\ armed /\ armed' = FALSE
             /\ late' = IF Authority(job) THEN late ELSE late + 1
Change(d) == disk' = d /\ disks' = disks \cup {d}
SyncAll == disk' = disk /\ disks' = {disk}
\* persist syncs the root between the insertion and the COMMIT, which makes what
\* an interrupted call left unsynced durable as well.  A plan is stored with its
\* first checkpoint.
CommitEvents(w, es, e) ==
    /\ disk' = [disk EXCEPT !.events[w] = es, !.plan[w] = e]
    /\ disks' = {disk'}
Go(s) == step' = s
Leave == step' = "idle" /\ job' = None /\ armed' = FALSE
Enter(s, j) == step' = s /\ job' = j /\ armed' = FALSE

OwnerJob(w) == [by |-> "owner", run |-> w, epoch |-> disk.plan[w], next |-> None]
Checkpoint(p, n) == [phase |-> p, node |-> n]

\* owned_store and prepare: the domain is created by the first run, the plan
\* carries the epoch its caller reviewed.
BeginPrepare(w, e) ==
    /\ step = "idle" /\ granted /\ owned /\ EpochOpen(disk, e) /\ ValidProposal(w)
    /\ \/ disk.domain = "absent" /\ Go("create")
       \/ Openable(disk) /\ disk.events[w] = <<>> /\ Go("persist")
    /\ job' = [OwnerJob(w) EXCEPT !.epoch = e, !.next = Checkpoint("prepared", None)]
    /\ armed' = FALSE
    /\ UNCHANGED <<disk, disks, published, world, late>>

\* initialize: the directory exists before its members do.
CreateDomain ==
    /\ step = "create" /\ Effectful
    /\ Change([disk EXCEPT !.domain = "partial"])
    /\ Go("creating") /\ UNCHANGED <<published, job, world>>
FinishDomain ==
    /\ step = "creating"
    /\ disk' = [disk EXCEPT !.domain = "ready"] /\ disks' = {disk'}
    /\ Go("persist") /\ UNCHANGED <<published, job, armed, world, late>>

\* replayed_review: the caller reviewed the checkpoint its lost answer followed.
Replayed(es, review, cancel) ==
    LET difference == Len(es) - review
    IN IF cancel THEN Phase(es) = "cancelled" /\ difference = 1
       ELSE /\ Phase(es) = "completed"
            /\ difference = 1 \/ (difference = 2 /\ Kind[Last(es).node] = "write")

\* advance_reviewed goes on only from the checkpoint the caller reviewed; a
\* replay and a finished run change nothing.
MayAdvance(w, review, scheduled) ==
    LET es == disk.events[w]
    IN /\ es # <<>> /\ Phase(es) # "cancelled" /\ ~Finished(es)
       /\ ~Replayed(es, review, FALSE) /\ review = Len(es)
       /\ scheduled => Phase(es) # "applying"

FirstStep(n, es) == CASE Kind[n] # "write" -> "put"
                      [] Phase(es) = "applying" -> "publish"
                      [] OTHER -> "apply"

Advance(w, review, scheduled) ==
    /\ step = "idle" /\ Openable(disk)
    /\ MayAdvance(w, review, scheduled) /\ Authority(OwnerJob(w))
    /\ LET n == NextNode(disk.events[w])
       IN Enter(FirstStep(n, disk.events[w]),
                [OwnerJob(w) EXCEPT !.next = Checkpoint("completed", n)])
    /\ UNCHANGED <<disk, disks, published, world, late>>
BeginAdvance(w, review) == Advance(w, review, FALSE)
\* An item of a schedule: only the exact current checkpoint, with no publication
\* in doubt.  The batch ends at the first item that fails, so nothing is retried.
Dispatch(w, review) == Advance(w, review, TRUE)

\* put: an object that is there is taken, a preparation is finished if whole.
PutPresent ==
    /\ step = "put" /\ disk.objects[job.next.node] = "object"
    /\ Go("persist") /\ UNCHANGED <<disk, disks, published, job, armed, world, late>>
PutCreate ==
    /\ step = "put" /\ disk.objects[job.next.node] = "none" /\ Effectful
    /\ Change([disk EXCEPT !.objects[job.next.node] = "torn"])
    /\ Go("writing") /\ UNCHANGED <<published, job, world>>
PutWrite ==
    /\ step = "writing"
    /\ disk' = [disk EXCEPT !.objects[job.next.node] = "pending"] /\ disks' = {disk'}
    /\ Go("put") /\ UNCHANGED <<published, job, armed, world, late>>
PutRename ==
    /\ step = "put" /\ disk.objects[job.next.node] = "pending" /\ Effectful
    /\ LET renamed == [disk EXCEPT !.objects[job.next.node] = "object"]
       IN disk' = renamed /\ disks' = {disk, renamed}
    /\ Go("renamed") /\ UNCHANGED <<published, job, world>>
PutSync ==
    /\ step = "renamed" /\ SyncAll
    /\ Go("persist") /\ UNCHANGED <<published, job, armed, world, late>>

\* persist: compare, insert, replay the proposed chain, check, commit.
Persist(e) ==
    LET es == Append(disk.events[job.run], e)
    IN /\ Effectful
       /\ ValidEvent(es, Len(es), disk)
       /\ CommitEvents(job.run, es, job.epoch)

PersistApplying ==
    /\ step = "apply" /\ Persist(Checkpoint("applying", job.next.node))
    /\ Go("publish") /\ UNCHANGED <<published, job, world>>

\* commit_owned_invoice: a replay finds its receipt, a fresh effect adds it.
PublishReplay ==
    /\ step = "publish" /\ Proven(job.run, job.next.node)
    /\ Go("persist") /\ UNCHANGED <<disk, disks, published, job, armed, world, late>>
Publish ==
    /\ step = "publish" /\ Effectful
    /\ Catalog!PublishEffect(EffectOf(job.run, job.next.node))
    /\ Go("persist") /\ UNCHANGED <<disk, disks, job, world>>

\* The last checkpoint of a call; a write's needs its receipt in the catalog.
PersistNext ==
    /\ step = "persist"
    /\ job.next.node # None /\ Kind[job.next.node] = "write" => Proven(job.run, job.next.node)
    /\ Persist(job.next)
    /\ Go("answer") /\ UNCHANGED <<published, job, world>>
Answer ==
    /\ step = "answer" /\ Authority(job) /\ Leave
    /\ UNCHANGED <<disk, disks, published, world, late>>

\* A run that may have published is not cancelled.
MayCancel(w, review) ==
    /\ step = "idle" /\ Openable(disk) /\ disk.events[w] # <<>>
    /\ ~Replayed(disk.events[w], review, TRUE) /\ review = Len(disk.events[w])
    /\ Phase(disk.events[w]) # "applying" /\ ~Terminal(disk.events[w])
CancelJob(w, by) == [OwnerJob(w) EXCEPT !.by = by, !.next = Checkpoint("cancelled", None)]

\* committed: a run in doubt whose receipt the catalog holds.
Committed(w) ==
    /\ step = "idle" /\ Openable(disk) /\ disk.events[w] # <<>>
    /\ Phase(disk.events[w]) = "applying"
    /\ Proven(w, NextNode(disk.events[w]))
ReconcileJob(w, by) ==
    [OwnerJob(w) EXCEPT !.by = by, !.next = Checkpoint("completed", NextNode(disk.events[w]))]

Dispose(j) == /\ Authority(j) /\ Enter("persist", j)
              /\ UNCHANGED <<disk, disks, published, world, late>>

\* cancel, and reconcile --publish-committed, by the owner: a receipt the run
\* never recorded is recorded.
BeginCancel(w, review) == MayCancel(w, review) /\ Dispose(CancelJob(w, "owner"))
BeginReconcile(w) == Committed(w) /\ Dispose(ReconcileJob(w, "owner"))
\* The same as a disposition of an old generation's run.
RecoverCancel(w, review) == MayCancel(w, review) /\ Dispose(CancelJob(w, "recovery"))
RecoverReconcile(w) == Committed(w) /\ Dispose(ReconcileJob(w, "recovery"))
-----------------------------------------------------------------------------
(* The world around the calls.                                             *)

Revoke == granted /\ granted' = FALSE /\ late' = 0
          /\ UNCHANGED <<disk, disks, published, step, job, armed, owned>>
Regrant == ~granted /\ step = "idle" /\ granted' = TRUE /\ late' = 0
          /\ UNCHANGED <<disk, disks, published, step, job, armed, owned>>
NewGeneration == owned /\ owned' = FALSE /\ late' = 0
          /\ UNCHANGED <<disk, disks, published, step, job, armed, granted>>

\* A check refuses, an operation fails or the process dies.
Stop == /\ step # "idle" /\ Leave
        /\ UNCHANGED <<disk, disks, published, world, late>>
PowerLoss == /\ disk' \in disks /\ disks' = {disk'} /\ Leave
             /\ UNCHANGED <<published, world, late>>

DagNext ==
    \/ \E w \in Run, e \in Epoch : BeginPrepare(w, e)
    \/ Check \/ CreateDomain \/ FinishDomain
    \/ \E w \in Run : step = "idle" /\ \E review \in 1 .. Len(disk.events[w]) :
          \/ BeginAdvance(w, review) \/ Dispatch(w, review)
          \/ BeginCancel(w, review) \/ RecoverCancel(w, review)
    \/ PutPresent \/ PutCreate \/ PutWrite \/ PutRename \/ PutSync
    \/ PersistApplying \/ PublishReplay \/ Publish \/ PersistNext \/ Answer
    \/ \E w \in Run : BeginReconcile(w) \/ RecoverReconcile(w)
    \/ Revoke \/ Regrant \/ NewGeneration \/ Stop \/ PowerLoss
--------------------------------------------------------------------------------
(***************************************************************************)
(* workflow_history.rs: the retirement of a principal's closed runs.  The  *)
(* whole domain is exported, marked, and after a grace deleted member by   *)
(* member; the ledger then opens the next epoch.  The ledger's state is    *)
(* replaced by renaming a staged file, and a staged file left behind       *)
(* fences the domain until it is discarded.                                *)
(***************************************************************************)
CONSTANTS
    Grace,     \* grace_seconds
    Width,     \* the widest interval protected time may report
    MaxAge     \* bound: how long a mark is watched

VARIABLE
    age        \* true time since the mark was observed

historyVars == <<disk, disks, published, step, job, armed, granted, owned, late, age>>

\* Tree::capture: the manifest names every member with its content.
Manifest == [epoch |-> disk.ledger.epoch, plan |-> disk.plan, events |-> disk.events,
             objects |-> disk.objects]

\* closed_history: the store opens, every run ended, a published node's receipt
\* is in the catalog; what is pending is archived as it is.
ClosedHistory ==
    /\ Openable(disk)
    /\ \A w \in Run : /\ Closed(disk.events[w])
                      /\ \A i \in DOMAIN disk.events[w] :
                            LET e == disk.events[w][i]
                            IN e.phase = "completed" /\ Kind[e.node] = "write" => Proven(w, e.node)
\* Manifest.validate: something to retire.
Retirable == (\E w \in Run : disk.events[w] # <<>>) \/ (\E n \in Data : disk.objects[n] \in {"torn", "pending"})

\* current_tree: the domain is not fenced by a staged file or a mark.
CurrentTree == ~disk.staged /\ disk.ledger.mark = None /\ ClosedHistory /\ Retirable

HistoryInit == DagInit /\ age = 0

\* State::validate, when the ledger is opened: a deletion has its mark, a mark is
\* of this epoch and of the export recorded.
ValidState(l) ==
    /\ l.deleting => l.mark # None
    /\ l.mark # None => l.mark.manifest.epoch = l.epoch /\ l.export = l.mark.manifest

HistoryJob(state, then) == [by |-> "history", state |-> state, then |-> then]
\* Ledger::at: the ledger is locked, read and validated.
OpenLedger == step = "idle" /\ ValidState(disk.ledger)
Begin(s, state, then) == /\ OpenLedger /\ granted
                         /\ Enter(s, HistoryJob(state, then))
                         /\ UNCHANGED <<disk, disks, published, world, late>>
-----------------------------------------------------------------------------
(* Ledger::save.  job.state is the state to publish.                       *)

Stage ==
    /\ step = "save" /\ ~disk.staged /\ Effectful
    /\ disk' = [disk EXCEPT !.staged = TRUE] /\ disks' = disks \cup {disk'}
    /\ Go("staged") /\ UNCHANGED <<published, job, world, age>>

\* The staged bytes are synced and read back before they replace the state.
Replace ==
    /\ step = "staged" /\ Effectful
    /\ LET saved == [disk EXCEPT !.staged = FALSE, !.ledger = job.state]
       IN disk' = saved /\ disks' = {disk, saved}
    /\ Go("replaced") /\ UNCHANGED <<published, job, world, age>>

Saved ==
    /\ step = "replaced" /\ SyncAll
    /\ IF job.then = "done" THEN Leave
       ELSE Go(job.then) /\ armed' = FALSE /\ UNCHANGED job
    /\ age' = IF disk.ledger.mark = None THEN 0 ELSE age
    /\ UNCHANGED <<published, world, late>>

\* Ledger::staging: the one unpublished file of this domain.
Staging == disk.staged
\* discard_staging: the reviewed unpublished file is removed.
BeginDiscard == /\ Staging /\ Begin("discard", disk.ledger, "done") /\ UNCHANGED age
Discard ==
    /\ step = "discard" /\ Staging /\ Effectful
    /\ Change([disk EXCEPT !.staged = FALSE])
    /\ Go("replaced") /\ UNCHANGED <<published, job, world, age>>
-----------------------------------------------------------------------------
(* workflow-history-export, -mark and -delete.                             *)

BeginExport ==
    /\ step = "idle" /\ CurrentTree
    /\ Begin("export", [disk.ledger EXCEPT !.export = Manifest], "done")
    /\ UNCHANGED age
\* The stream is complete only after every member was sent under a check.
Export ==
    /\ step = "export" /\ Authority(job)
    /\ Go("save") /\ UNCHANGED <<disk, disks, published, job, armed, world, late, age>>

\* The export recorded must be the export of exactly what is there now; the
\* deadline counts from the latest time it can be, ahead of the true time.
BeginMark ==
    /\ step = "idle" /\ CurrentTree /\ disk.ledger.export = Manifest
    /\ \E ahead \in 0 .. Width :
          Begin("save", [disk.ledger EXCEPT !.mark = [manifest |-> Manifest,
                                                      wait |-> ahead + Grace]], "done")
    /\ age' = 0

\* The earliest time it can be is past the deadline.
Elapsed == \E behind \in 0 .. Width : age >= disk.ledger.mark.wait + behind

\* Tree::recheck: the members that are there are the manifest's; before the
\* destructive intent none is missing.
Present(d) == {n \in Data : d.objects[n] # "none"}
TreeMatches(partial) ==
    LET m == disk.ledger.mark.manifest
    IN \/ disk.domain = "absent" /\ partial
       \/ /\ disk.domain # "absent"
          /\ \A n \in Present(disk) : disk.objects[n] = m.objects[n]
          /\ disk.domain = "ready" => disk.events = m.events
          /\ ~partial => disk.domain = "ready" /\ disk.objects = m.objects

BeginDelete ==
    /\ step = "idle" /\ ~disk.staged /\ disk.ledger.mark # None /\ Elapsed
    /\ TreeMatches(disk.ledger.deleting)
    /\ IF disk.ledger.deleting THEN Begin("remove", disk.ledger, "remove")
       ELSE Begin("save", [disk.ledger EXCEPT !.deleting = TRUE], "remove")
    /\ UNCHANGED age

\* remove_members: the database first, then the objects, each synced.
RemoveDatabase ==
    /\ step = "remove" /\ disk.domain = "ready" /\ Elapsed /\ Effectful
    /\ Change([disk EXCEPT !.domain = "partial", !.plan = [w \in Run |-> None],
                           !.events = [w \in Run |-> <<>>]])
    /\ Go("removed") /\ UNCHANGED <<published, job, world, age>>
RemoveObject(n) ==
    /\ step = "remove" /\ disk.domain = "partial" /\ disk.objects[n] # "none"
    /\ Elapsed /\ Effectful
    /\ Change([disk EXCEPT !.objects[n] = "none"])
    /\ Go("removed") /\ UNCHANGED <<published, job, world, age>>
SyncRemoval ==
    /\ step = "removed" /\ SyncAll
    /\ Go("remove") /\ UNCHANGED <<published, job, armed, world, late, age>>

\* remove_directories, and the sync of the parent that Absence proves from.
RemoveDomain ==
    /\ step = "remove" /\ disk.domain = "partial" /\ Present(disk) = {}
    /\ Elapsed /\ Effectful
    /\ Change([disk EXCEPT !.domain = "absent"])
    /\ Go("removed") /\ UNCHANGED <<published, job, world, age>>

\* Absence: the parent is the one the manifest names and holds no such domain.
Absence == disk.domain = "absent"

\* The tombstone closes the epoch: the successor has no export and no mark.
Retire ==
    /\ step = "remove" /\ Absence /\ Elapsed
    /\ disk.ledger.epoch < MaxEpoch
    /\ SyncAll
    /\ Go("save")
    /\ job' = HistoryJob([epoch |-> disk.ledger.epoch + 1, export |-> None, mark |-> None,
                          deleting |-> FALSE], "done")
    /\ UNCHANGED <<published, armed, world, late, age>>

\* Time passes; it is read only while something is marked.
Tick == /\ age < MaxAge /\ disk.ledger.mark # None /\ age' = age + 1
        /\ UNCHANGED <<disk, disks, published, step, job, armed, world, late>>

HistoryNext ==
    \/ DagNext /\ UNCHANGED age
    \/ Stage \/ Replace \/ Saved \/ BeginDiscard \/ Discard
    \/ BeginExport \/ Export \/ BeginMark \/ BeginDelete
    \/ RemoveDatabase \/ (\E n \in Data : RemoveObject(n)) \/ SyncRemoval
    \/ RemoveDomain \/ Retire \/ Tick

HistorySpec == HistoryInit /\ [][HistoryNext]_historyVars
-----------------------------------------------------------------------------
\* A node that completed a publication has its receipt in the catalog, an effect
\* the run never declared is not there, and a cancelled run published nothing
\* beyond the writes it completed.
PublicationIsRecorded ==
    disk.domain = "ready" =>
       \A w \in Run : \A n \in Node \ Data :
          LET es == disk.events[w]
              recorded == Checkpoint("completed", n) \in ToSet(es)
              declared == Checkpoint("applying", n) \in ToSet(es)
          IN /\ recorded => Proven(w, n)
             /\ es # <<>> /\ Proven(w, n) => declared
             /\ es # <<>> /\ Phase(es) = "cancelled" /\ Proven(w, n) => recorded

\* After grants are withdrawn or the owner's generation changes, a call in flight
\* makes at most the one durable change its last check preceded.
RevocationStops == late <= 1

=============================================================================
