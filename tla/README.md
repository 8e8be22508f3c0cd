# LumaOS in TLA+

This directory models the parts of LumaOS whose correctness depends on the order
of steps: durable journals, the TPM objects that authenticate them, update slots,
leases, accounts, and the processes that race over them.  TLC checks every model
on small instances.  TLAPS proves the properties that matter most for instances
of any size.

`PROJECT.json` maps 1070 definitions to the lines they model.  The map is not
complete: 169 helpers are left out whose lines are, except for some 380, those of a
definition that is listed, and so are 76 definitions of the environment (crashes,
power losses, the TPM, the people at the console) that model no line of `src/`.

## 1. The system

LumaOS is an appliance platform with two implementations of its control plane.
`src/src/luma_os/` is the Python reference implementation: a privileged helper
with an idempotent effect executor, a durable administration log, a resource
ledger and A/B boot control.  `src/rust/luma-platform/src/` is the native
implementation for the installed system.

How the native parts fit together:

* An Admin enrolls a checkpoint in the TPM once (`admin_enrollment.rs`).  From
  then on every administrative command is an entry of a journal
  (`admin_journal.rs`) whose head is a TPM index, and the catalog of roles,
  grants and accounts is the reduction of that journal (`admin_roles.rs`).
* Commands reach the journal through the local Admin service
  (`admin_service.rs`), which authenticates the person at the other end.  Account
  commands also publish the account files, one rename at a time.
* Whatever needs a grant runs as a governed operation (`admin_governance.rs`): it
  checks the catalog around each effect and keeps evidence of every decision
  (`policy_decisions.rs`), which is later archived and deleted.
* The broker (`service.rs`) owns the socket, the worker jobs
  (`broker_effects.rs`), the leases of the workers (`resource_manager.rs`) and the
  inference requests.  Its two ledgers are a pair of files under one TPM index
  (`resources/checkpoint.rs`).
* Models are downloaded, imported, verified, tried, activated and served under
  those leases (`model*.rs`, `acquisition.rs`), from catalogs that custodians sign
  (`model_trust.rs`, `skill_trust.rs`).
* Workflow runs publish in an artifact catalog (`workflow_*.rs`,
  `artifact_catalog.rs`).
* Time comes from three operators over a keeper process (`utc_*.rs`), and the
  system updates itself in two slots (`platform.rs`, `release_trust.rs`).

The same problem returns in most parts.  A process writes a record, does something
outside its own store (a TPM extension, an adapter call, a systemd job, a rename in
another directory), and writes the outcome.  It can die, lose power or lose the
reply anywhere in between, and another process may be doing the same.

Parsing, framing, configuration, cryptography and ranking appear in the models
only as the choice between acceptance and refusal.

## 2. Modules

| Module | Models | Checked by |
|---|---|---|
| `EffectLedger` | `SQLiteIdempotentEffectExecutor` (`durable_effects.py`) | `effects` |
| `FencedEffect` | what an effect promises its caller, abstractly | refined by `EffectLedger` |
| `PrivilegedHelper` | `SQLiteRequestJournal` and `PrivilegedHelper.handle`, over the ledger | `effects`, `helper_prepared` |
| `BootControl` | `transition` (`boot_control.py`) | `boot` |
| `SystemUpdate` | installation, native updates, boot health, repair (`platform.rs`, `release_trust.rs`) | `boot` |
| `AdminJournal` | `admin_journal.rs`, the `LocalAnchor` of `tpm.rs` | `administration` |
| `CheckpointEnrollment` | `admin_enrollment.rs` and the TPM writes of `tpm_esys.c`, composed with `AdminJournal` | `administration` |
| `AdminSession` | `admin_service.rs`, `authentication.rs`, `principal.rs` | `administration` |
| `AdminCatalog` | `admin_roles.rs`, `finite_grants.rs` | `administration` |
| `AccountLifecycle` | `account_*.rs`, composed with `AdminCatalog` | `administration` |
| `AdminEventLog` | `durable_administration.py`, `monotonic_anchor.py` | `governance` |
| `GovernedOperation` | boundaries of `admin_governance.rs`, records of `policy_decisions.rs` | `governance` |
| `PolicyArchive` | `policy_decisions.rs`, `policy_decisions/history.rs` | `governance`, `archive_cleanup` |
| `PairedCheckpoint` | `resources/checkpoint.rs` | `protected`, `paired_closure` |
| `ProtectedPair` | what the pair of files promises its holder, abstractly | refined by `PairedCheckpoint` |
| `ResourceEnrollment` | `resource_checkpoint.rs`, the `ResourceDevice` of `tpm.rs` | `protected` |
| `TrustedTime` | `utc_*.rs` | `protected` |
| `ResourceManager` | `resources.rs` under the `Manager` of `resource_manager.rs` | `resources` |
| `ResourceLedger` | `ResourceLedger` (`resources.py`) | `resources` |
| `BrokerEffects` | `broker_effects.rs`, the effect thread | `broker` |
| `BrokerService` | `service.rs`, `service/ingress.rs` | `broker` |
| `InferenceGateway` | `requests.rs`, `requests/gateway.rs`, the granted client, `model/gateway.rs` | `broker` |
| `RequestHistory` | `requests/journal.rs`, `resources/retention.rs`, `resource_manager/history.rs`, `recovery.rs` | `broker` |
| `ExportRelay` | the launcher and relay of `service/granted_gateway.rs` | `broker` |
| `ModelActivation` | `model.rs`, `model/validation.rs`, `model/supervision.rs` | `models` |
| `ModelPacks` | downloads, imports and the installer's staging (`model.rs`, `model/pack_store.rs`, `model/installer_staging.rs`) | `models` |
| `PackProofs` | the broker's proofs of installed packs (`model/pack_store.rs`) | `models` |
| `GrantedAcquisition` | `acquisition.rs`, `service/granted_acquisition.rs`, the broker's side | `models` |
| `TrustedContent` | `model_trust.rs`, `skill_trust.rs` and their commands | `models` |
| `ModelQa` | the isolated trial of a model (`model/qa.rs`) | `models` |
| `ModelQualification` | the delivery of qualification packages (`model_qualification.rs`) | `models` |
| `ArtifactCatalog` | `artifact_catalog.rs` with its collector | `workflow` |
| `CatalogService` | what the catalog promises a run, abstractly | refined by `ArtifactCatalog`, used by both runs |
| `WorkflowHistory` | `workflow_dag.rs` and, over it, `workflow_history.rs` | `workflow` |
| `WorkflowRuns` | `workflow_runs.rs` | `workflow` |

Proofs are in `EffectLedgerProofs` (ledger, helper and refinement) and
`ServiceProofs` (`BrokerEffects`, `AdminSession`, `AdminEventLog`), and at the end of
`CheckpointEnrollment` (journal and bootstrap), `BootControl`, `ResourceManager`,
`PairedCheckpoint`, `ModelActivation` and `ArtifactCatalog`.

An `MC` module instantiates the components of one area for TLC.  A variable
`part` is chosen in the initial state and says which of them runs; the others
stay in their initial state.  So one run explores each component by itself, and
a property `P == part = "x" => X!P` speaks of that component only.

A definition named `X_Something` next to `X` is the form `X` would take with a
plausible mistake.  No specification uses it; it documents which mistake a
property rules out.

### How state and steps correspond to the code

*Transactions.*  A SQLite transaction is one action.  A process can stop between
any two, and any transaction can fail.

*Files.*  A directory change (create, rename, unlink) is visible at once and
durable after a sync.  Beside what a reader finds (`visible`, `disk`, `store`,
`files`, ...) a model keeps the set of what a power loss could leave (`possible`,
`disks`, `stores`, `platters`, ...).  A change adds to the set, a sync reduces it
to what is visible, and a power loss picks any member.  A missing or misplaced
sync therefore shows as a reachable bad state.  Metadata is assumed to become
durable in its order, as in an ordered metadata journal (ext4, xfs), which the
code relies on where a publication fails between its rename and its sync.  A file
written with `create_new` is torn until it is complete; `write_atomic` replaces a
file in one step, or in the steps rename and sync where the difference matters.

*Locks.*  Where the code holds an exclusive lock, the model has one program
counter, and a death frees it.  State read under a lock that is given up and used
later is kept in the process's own record, so that it can be stale.

*Digests, tags and signatures* are identified with the data they cover.
*Authorization* is part of the state where a model is about it (grants, sessions,
generations that are withdrawn between two steps), and elsewhere a choice that can
only make a step refuse.

*Faults* are bounded by a counter (`MaxFaults` and its kin); each model says
which faults it counts.  Every bound is a constant named in its module.

Points about single modules that the mapping alone does not show:

* `EffectLedger` has one program counter per attempt.  `AdapterActs` is the moment
  the outside world changes, which may come before, after or without a reply.
* `BootControl` leaves out the generation, the operation ledger and the tag: they
  are written by every command and read by none except the comparison that makes
  an applied command current.
* `AdminJournal` identifies the NV head with the sequence of entries extended.
* `CheckpointEnrollment`: the journal opens in the published directory before
  anything syncs the directory above it, so the module composes the two; an
  append's own sync commits the earlier rename too.  Defining the index and
  extending it by its genesis are two steps, as they are two commands to the TPM.
* `PolicyArchive` tells the bytes of a file from its name: the name is durable at the
  next sync of any directory, the bytes only after the sync of the file itself, and
  until then a power loss may tear them.  A file that `publish` finds complete is
  used without a sync.
* `AdminEventLog` leaves out SQLite's data version, which the code also compares:
  the model allows every run that it allows, and more.
* `AdminCatalog` gives each command as an operator from a catalog to the set of
  catalogs it may become; `AccountLifecycle` uses those operators for the anchored
  phases of an account.
* `ResourceManager` names a lease by its worker process.  `maintain` is one action
  per phase: between them workers fork, exit or are killed for memory.
* `PairedCheckpoint` identifies a manifest with a number and the index with the
  manifest extended last.
* `SystemUpdate` installs each disk once, and changes the release state once per
  operation.  Trust versions are abstracted to whether the pending one is current.
* `TrustedTime` works in coarse ticks, so that tolerances of milliseconds become
  equality; a reboot is not a step of its own and `suspend_generation` is constant.
* `TrustedContent` names a trust bundle by its sequence; every validity window is
  open from the start.
* `ModelActivation`: a command whose review names anything but the present state
  changes nothing, so a command is taken in the state it was reviewed in.
* `WorkflowHistory` separates the check of a caller's authority from the durable
  change that uses it up.

## 3. Runs

Bounds are small because each mechanism acts on one record at a time: two actors
are enough for every pairwise race, three generations for a takeover of a
takeover, one or two faults for an interruption and the interruption of its
recovery.

| Run | Instance | What it shows |
|---|---|---|
| `effects` | ledger: 2 attempts at 1 effect, 3 authorizations, a clock that steps, crashes, lost transactions; helper: 2 attempts at 2 requests under one id, 2 authorizations, leases that expire under their owner | `AtMostOnce`: the adapter acts at most once; `CompletionIsTruthful`: a stored completion says what happened; `ImplementsFencedEffect`; `ReceiptIsTheLedgers`: the journal's receipt is the ledger's completion; `EffectIsJournalled`: only the journalled request reaches an adapter |
| `helper_prepared` | one failing store | `PreparedIsReclaimable`: **violated**, see findings |
| `boot` | control: 4 releases with partial data compatibility; system: 2 images, 1 trial boot, 1 interruption or manual choice | `FallbackNeverStranded`: fallback can read what was acknowledged; `NeverBackwards`; `NeverStranded`: the installed system can boot something whole; `UpdateEnds`: an update that is driven ends |
| `administration` | checkpoint: 3 request ids, 2 payloads, 3 events after a bootstrap with 2 attempts and 2 secrets, interrupted between the definition of the index and its extension too; session: 2 clients; catalog: 2 principals, 1 role, 2 activities, 1 assignment, 1 grant; accounts: 2 principals, 2 interchangeable transactions, 3 generations | `CommittedIsRecoverable`: what the TPM holds is on every disk a power loss can leave; `EnrollmentIsRecoverable`: so are the intent and the secret of an index that was defined, and what was extended can be reconciled or is published; `NothingLateIsDispatched`; `AuthorityNeverRevives`: a grant that stopped authorizing never does again; `IdentityFollowsCatalog`: the account files fit the anchored phase |
| `governance` | log: 2 processes, 1 assignment, 3 events, 2 clock values; operation: 1 operation, 1 effect, 2 heads and epochs; archive: 2 commands, 2 members, 4 instants | `ReceiptIsAnchored`; `RevocationHolds`: an acknowledged revocation holds for every later query; `WithdrawalStops`: at most one part of one effect follows a withdrawal; `EvidenceSurvives`: records go only by a deletion, a grace after their export, whose intent is durable |
| `archive_cleanup` | 1 command, 1 member | `RemovedBytesAreBound`: **violated**, see findings |
| `protected` | pair: 2 ledgers, 2 request journals, 3 manifests, 1 damage or rollback; enroll: 3 secrets; time: 3 operators, 1 wrong | `PairIsRecoverable`; `ImplementsProtectedPair`; `TpmIsAccountedFor`: no TPM object that no file accounts for; `TruthIsCovered`: an interval a client uses contains UTC |
| `paired_closure` | 1 ledger, 2 request journals | `DurableClosurePrecedesNV`: **violated**, see findings |
| `resources` | manager: a model worker and an acquisition that exclude each other, 2 sessions, 4 epochs in all domains together, 1 kill for memory; library: 2 owners, 2 domains, 2 generations | `CapacityHeldUntilDrained`: capacity is charged until a worker and its descendants are gone; `ReceiptIsCurrent`: a completion vouches for nothing that was fenced; `AllocationIsLeased`: no byte is lost or counted twice; `DrainingEnds` |
| `broker` | effects: 3 requests, room for 2 records; service: 2 peers, 3 readers; gateway: 1 granted and 2 laboratory clients, 1 fault; history: 2 identities, 2 faults; relay: 4 blocks | `DispatchedOnce`: at most one job per request; `FrameIsQueued`: a frame that was read finds a place; `DeliveryIsBacked`: what a client gives out is its own durably completed answer; `NeverForgotten`: an identity once admitted is never accepted again; `RecordedIsDelivered` |
| `models` | activation: 2 profiles, 2 faults; content: 2 trust bundles, 2 releases; packs and proofs: 2 members; acquisition: 2 clients, 2 leases, 1 fault; qa: a complete and a cancelled scenario; qualification: 2 packages, 2 power losses | `PriorIsRecoverable`: whatever interrupts an activation, the prior configuration can be had back; `AuthorityIsCurrent`: an authority is given only for what is admitted at that moment; `PublishedIsWhole`; `VerifiedIsInPlace`: bytes count as verified only as they are in place, and a trial is reported only of what was reviewed; `SuccessIsBacked` |
| `workflow` | catalog: 2 requests, 1 artifact, 2 inodes; history: 2 runs of a reading and a writing node, 2 epochs; runs: 2 invoices | `AlwaysOpens`: whatever a power loss leaves opens with every receipt backed; `ImplementsCatalogService`; `RevocationStops`: at most the durable change that was already checked follows a withdrawal; `InvoiceIsWhole`: records and receipts agree |

In `protected`, three manifests are the enrolled one, its successor and a return to
the first contents, so that a publication meets backups that already exist.  In
`resources`, the model worker needs the whole host and the acquisition half of it,
so that a lease released too early admits a worker that does not fit.  In
`workflow`, both runs expect to write the first version of the same artifact, so
that one of them must lose.

`CHECK_DEADLOCK FALSE`, or a stuttering step for one part, is used where an
instance runs out of ids, records or generations, where a ceremony ends, or where
the code fences itself and waits for an operator.

### Fairness

There are two liveness properties.  `UpdateEnds`, in `boot`, assumes weak fairness
of `Drive`, the steps of a controller that goes on with the update it has begun:
the controller retries until the phase is idle, and the code bounds the number of
trial boots.  Nothing is assumed of power loss, of new updates or of data
acknowledgements.

`DrainingEnds`, in `resources`, is about a session that lasts.  It assumes weak
fairness of the steps of maintain, which the loop of `serve` runs every 100 ms;
strong fairness of the fault after a maintain that failed, because the loop fences
the manager as soon as one of its own maintains fails, and those that fail in a
request do not hold the loop back; and that a process sent a kill ends.  It assumes
nothing of workers, of requests or of the broker's restarts.

### Findings

* `helper_prepared`: after a store failure before adapter entry, `handle` marks
  the request FAILED_UNKNOWN although its effect is PREPARED, and no later attempt
  reclaims it.  `docs/THREAT_MODEL.md:102` says that PREPARED "is safely
  reclaimable by generation-fenced CAS".
* `paired_closure`: `stage` accepts a backup that exists with the right bytes
  without syncing it, so the index can be extended over a backup that an
  interrupted publication had only written.  The comment at
  `resources/checkpoint.rs:609` says "The durable prepared closure precedes NV."
  `PairIsRecoverable` therefore excepts backups taken over in that way.
* `archive_cleanup`: `History::publish` returns as soon as a file holds the bytes it
  would write, and syncs nothing then.  A cleanup that finds the `cleanup.json` of
  one that died before its sync goes on to remove the files, and a power loss can
  then leave it torn with some of them gone: no later cleanup can read its plan.
  The comment at `policy_decisions/history.rs:974` says "Full removed bytes remain
  bound in cleanup.json".  `intent.json` is taken over in the same way, and
  `EvidenceSurvives` therefore excepts the bytes, not the presence, of an intent
  that a deletion found unsynced.

### Behaviours worth knowing

The models also show states that the code reaches on purpose, or that its
documentation accepts, and that an operator meets sooner or later.

* A process that appends to the administration log between another's swap and its
  read-back makes the other fence itself without a receipt, although its event is
  anchored.
* A refusal after the Admin proposal is durable leaves a proposal that the TPM
  never commits to, and the journal stays closed: an uncommitted proposal is never
  discarded.
* A committed Admin request may be answered as denied; a retry under the same
  review is refused and must be inspected again.  A client behind others can time
  out before it is served.
* `SystemUpdate`: `NeverStranded` is about at most one interruption or manual boot
  choice, and not about disks that live repair has rewritten (`disturbed`).  With
  two, a stale uncounted entry of a higher sequence can outrank the fallback.  A
  candidate abandoned after the prior was booted by hand stays the loader's
  default.  A governed `boot_health` on the prior writes `failed-update.json` for a
  candidate that was only prepared.
* Bytes held by a helper that no lease accounts for can overcommit the host; each
  maintain then fails and the loop fences the manager until the broker restarts.
  A completion may be acknowledged although a kill that the counters already show
  has not been noted yet.
* Inference: a slow client may see its result before the acknowledgement and gives
  it up; a failed challenge ends the worker; a failed publication fences the
  manager for the session.
* A torn `requests.json`, a torn catalog event, recovery or garbage-collection
  record closes its store until it is repaired by hand.  A failed publication of
  the request history fences it until a restart.
* A failed launcher may leave its unit running until `RuntimeMaxSec`, and a
  recorded export may be reported as failed.  `REPLY_WAIT` is long for everything
  but a handler.
* `CheckpointEnrollment`: a process that stops between the definition of the NV index
  and its genesis extension leaves an index that was never written.  Its proposal
  stays pending with its secret, nothing is published, and `reconcile_pending`
  refuses it for as long as the index exists: no command of the platform ends that
  state.  `EnrollmentIsRecoverable` says that the evidence is complete then, not that
  a command accepts it.
* `ResourceEnrollment`: an interruption after `.parent-reconciled.json` or
  `.enrollment-prepared`, before the NV dispatch marker, and an index that is
  defined but not extended, are left for no command.
* `GrantedAcquisition`: a client that dies between its completion proof and the
  final acknowledgement fences the manager; a unit of the same profile that starts
  late may be attached to another's registration.
* `ModelActivation`: a rollback interrupted between the removal of the backup and
  of the marker can only be ended by `--complete-candidate`; a torn backup without
  a marker and a torn marker cannot be reconciled.
* `ModelPacks`: an interrupted import blocks later ones until it is reviewed and
  retained; staging by the installer runs once the system can boot, and its failure
  leaves the manual way.  `PackProofs`: an attempt that runs into its deadline is
  not repeated until the pack changes.
* `TrustedContent`: one approval too many, or the revocation of an approver, ends
  a release request; a key's `not_after` may be extended by a rotation.
* Workflows: a run at applying whose lease is fenced and whose receipt is missing
  can be neither cancelled, advanced nor reconciled, and blocks the retirement of
  its history.
* `PolicyArchive`: a crash between the unlink of an archive and `done.json` leaves
  a domain that neither delete nor cleanup can finish, as documented.
* Trusted time: a seed steps `CLOCK_REALTIME` and fences open clients; a refused
  second seed fences the stream.

## 4. Proofs

Every theorem holds for all values of the constants that satisfy the named
assumptions of its module, which TLC evaluates in the runs.  A safety proof is the
three facts `Init => IInv`, `IInv /\ [Next]_vars => IInv'` and `IInv => P`, with
one lemma or step per action and, below it, one per conjunct that the action can
disturb.

`EffectLedgerProofs`, the ledger.  `IInv` is the types (`TInv`), how far each
effect has got outside the store against its row (`WorldOK`), what an attempt past
the claim knows about its row (`ApplierOK`), and that no two attempts are past
adapter entry for one effect (`Alone`).  It is needed because `AtMostOnce` alone
does not survive `EnterAdapter`: that the adapter has not acted follows from the
row being APPLYING under this attempt's ownership, which follows from the claim
having found PREPARED, which follows from PREPARED rows never having been entered.
`AtMostOnceHolds`, `PreparedHolds`, `TruthfulHolds` and `OneApplierHolds` follow.
`LedgerImplementsFencedEffect` maps a row to the phase and the answer of
`FencedEffect`; every step of the ledger is one of its steps or a stutter, with
`IInv` excluding the transitions that would skip a phase.

`EffectLedgerProofs`, the helper.  `HInv` adds to `IInv` the journal's types, the
digest a journalled id is bound to (`BoundAt`), and what a helper between the two
stores carries with it (`CallAt`): a completion it is about to commit is the one in
the ledger.  A step of the helper that calls the ledger is a ledger step, so that
`IInv` is reused and not proved again.  `ReceiptIsTheLedgersHolds` and
`EffectIsJournalledHolds` follow.

`CheckpointEnrollment`, the journal.  `IInv` adds to the properties what each step of
an append knows: at `dispatch` only the proposal is possible on disk and the TPM
equals the journal; at `publish` the TPM equals the proposal.
`CommittedIsRecoverableHolds` quantifies over every directory a power loss could
leave.

`CheckpointEnrollment`, the bootstrap.  `EInv` is the types, `EnrollmentIsRecoverable`,
what each step of the enrollment knows of the trees and of the TPM (`BootstrapInv`: the
parent exists from the binding of the intent on, the index from its definition on, and
it is extended before anything is published), and what lasts
once an index exists (`LastingInv`): an append dispatches only when every tree a
power loss can leave has the published directory of that index.  It is proved
inductive together with the journal's `IInv`, since the two share the syncs.
`EnrollmentIsRecoverableHolds` and `EnrolledJournalIsRecoverable` follow.

`BootControl`.  `IInv` strengthens the validator of the stored document with the
readability of the acknowledged data by the fallback, the rank of a verified
candidate over the anti-downgrade floor, and the fact that an update in progress has
an attempt left.  `ValidHolds`: no legal command is refused by its own outcome.
`NeverStrandedHolds` needs that the watermark rises during a trial only to data the
fallback can read; `NeverBackwardsHolds` is an action property from the same
invariant.

`ServiceProofs`, the broker's effects.  `EffectInv` says of every journal a power loss could leave what
`JournalOK` says: a refused request was not dispatched, a dispatched one has a
record, a completed one succeeded, an acknowledged one is recorded as completed.
With what the phase of the effect thread knows of the last record, that gives
`DispatchedOnceHolds`, `RecordedTruthfullyHolds` and `AcknowledgedSurvivesHolds`.

`ServiceProofs`, the administration log.  `LogInv` is the types, `ReceiptIsAnchored`, and for each process
that the receipts it started from are still receipts and, once it has compared its
log with the anchor, prefixes of that log.  `RevocationHoldsAlways` is an action
property from it: a query answers from a log that has every revocation acknowledged
before it began.

`ServiceProofs`, the Admin service.  Of a late request, `LateOK` keeps the reason it
is late (peer, account files, journal head or time), which can still be observed at
the last check; `Pinned` says that nothing the child pinned is newer than what there
is, and `Attended` that who is served or waits in the queue has asked.
`NothingLateIsDispatchedHolds` follows.

`ResourceManager`.  `IInv` is the types, `LeasedIsStarted` (who holds a lease was
started), `CapacityHeldUntilDrained`, `VoidIsFenced` (an output that may no longer
be vouched for has a lease that is over, and is fenced) and `ReceiptIsCurrent`.
Restarts, quarantine and reviews are the cases that need the last two together.

`PairedCheckpoint`.  `IInv` is the types, `SelectedIsDurable` (the record of the
manifest that the index selects is durable, and so is each backup it names that was
not taken over unsynced), `StagedIsNew` (a publication in progress is a new manifest
that differs from the selected pair in one member), `StagedInOrder` (backups before
the record, the record before the extension) and `HolderIsKnown` (who holds the
lock, and what is published before the answer).
`PairIsRecoverableHolds` follows, and `PairImplementsProtectedPair` maps the index
to the abstract pair: the extension is the one step that changes it.

`ModelActivation`.  `IInv` is the types, `Recorded` (what the backup, the marker and
the undo record hold was there as a whole, and backup and marker belong together),
`Covered` (the files are whole or can be undone, and a marker that outlived its
backup goes with the configuration beside it) and `JobOK` (what the command knows at
each of its steps).  The property `PriorIsRecoverable` speaks of files and records
only; it does not survive a step of a command unless the records are tied to the
step, which is what `JobOK` adds.  `ActivationAssumption` says that no file and a
torn file are told from every content.  `PriorRecoverable` follows.

`ArtifactCatalog`.  `CatalogInv` is the types, `Chained` (the versions of an artifact
are 1 up to the current one), `Sound` of every directory a power loss can leave (its
objects have their bytes, every receipt has its object, no name is both pending and
retained or already committed, the number of files is within its limit), and
`Working`: a publication under way is of a fresh request, and its receipt is
committed only when every such directory has its object.  From it
`AlwaysOpensHolds`.  `CatalogImplementsService` maps the committed receipts to what
`CatalogService` has published and the answered ones to what it has told; the
commit is the one step that publishes.  `CatalogAssumption` says that the bounds are
numbers, and tells requests, contents, an absent and a torn file from one another.

### What is only model-checked, and why

* Liveness, `UpdateEnds` and `DrainingEnds`: outside what the prover handles.
* `AllocationIsLeased` compares a counter with a sum over a set of leases, and
  needs an induction over that set.
* `TpmIsAccountedFor`, `TruthIsCovered`, `NeverStranded`, `IdentityFollowsCatalog`,
  `AuthorityNeverRevives`, `WithdrawalStops`, `EvidenceSurvives`, `RevocationStops`,
  `InvoiceIsWhole`, `PublishedIsWhole`, `VerifiedIsInPlace`, `AuthorityIsCurrent`,
  `SuccessIsBacked`, `FrameIsQueued`, `DeliveryIsBacked`, `NeverForgotten` and
  `RecordedIsDelivered`: no inductive invariant has been written for their modules.
  They are safety properties within the prover's reach; the work is in the
  invariants.

## 5. Not modelled

* Decoders and framing (command lines, HTTP, IPC, JSON, GGUF, partition tables),
  cryptography, sealing, pure ranking and formatting.
* The Python counterparts of native parts that are modelled: grants, signing trust,
  workflows, inference.
* The one-shot host tools: installer media, state transfer, host inventory.
* Of modelled parts: the confinement of the Admin service; the recovery console's
  time, unlock, export, data repair and model disablement; the recovery disablement
  marker, `restore_prior` and `running_prior` of activation; the laboratory
  branches of trusted content and its retained model decisions; the key separation
  between trust domains; the process quota, the pressure and loading checks and the
  adoption of a replaced group in the native manager; archives and capacity limits
  of the paired authority; PCR values, signature formats and TPM sessions; the
  import of a legacy artifact store.
