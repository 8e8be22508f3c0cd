------------------------ MODULE CheckpointEnrollment ------------------------
(***************************************************************************)
(* admin_enrollment.rs and the Provisioner of tpm.rs: the bootstrap of the *)
(* Admin checkpoint, and the journal that lives in what it publishes.  The *)
(* bootstrap allocates a persistent TPM parent under a durable intent,     *)
(* then an NV index under a durable proposal, and publishes the proposal   *)
(* by a rename.  A TPM write whose reply is lost is never sent again; what *)
(* an interrupted attempt leaves behind is continued, or published, only   *)
(* against an operator's review of it.                                     *)
(*                                                                         *)
(* One anchor lock admits one process at a time, of the bootstrap or of    *)
(* the journal.  A directory entry is visible at once and durable after    *)
(* the sync: trees holds what a power loss could leave.  The file system   *)
(* is ext4, whose one metadata journal commits in order, so a later sync   *)
(* anywhere makes an earlier rename durable.  The parent is derived from   *)
(* the owner seed and a fixed template: every allocation has one Name.     *)
(***************************************************************************)
EXTENDS AdminJournal, TLAPS

CONSTANTS
    MaxAttempts,   \* bound: enroll runs that get as far as creating an intent
    MaxSecrets,    \* bound: NV secrets generated
    Absent,        \* a directory that does not exist
    Partial        \* a directory that exists, with files missing or torn

VARIABLES
    tree,         \* admin.parent-intent, admin.enrollment-pending and the final directory
    trees,        \* the trees a power loss can leave
    parent,       \* whether the persistent parent handle is occupied
    nv,           \* the proposal the NV index was defined for, or None
    extended,     \* whether the index has been extended with the genesis
    step,         \* where the bootstrap process that holds the lock is
    proposal,     \* the proposal it has sealed
    observed,     \* the observation an operator has reviewed
    attempts,     \* intents created so far
    secrets,      \* secrets generated so far
    parentWrites, \* parent allocations the TPM has executed
    reported      \* whether a run has reported checkpoint_enrolled

enrollmentVars ==
    <<tree, trees, parent, nv, extended, step, proposal, observed, attempts, secrets, parentWrites,
      reported>>
forest == <<tree, trees>>
handles == <<parent, nv, extended, parentWrites>>

\* partial: the directory exists and read_for_inspection refuses it.
Stage == {"absent", "partial", "unbound", "bound"}
Intent == [stage : Stage, attempt : 0 .. MaxAttempts]
Proposal == [secret : 1 .. MaxSecrets, attempt : 1 .. MaxAttempts]
Retained == Proposal \cup {Absent, Partial}
Tree == [intent : Intent, pending : Retained, final : Retained]

ASSUME EnrollmentAssumption ==
    /\ MaxAttempts \in Nat /\ MaxSecrets \in Nat
    /\ Absent # Partial /\ {Absent, Partial, None} \cap Proposal = {}
    /\ None \notin {Absent, Partial}

EnrollmentTypeOK ==
    /\ tree \in Tree /\ trees \subseteq Tree /\ tree \in trees
    /\ parent \in BOOLEAN /\ nv \in Proposal \cup {None} /\ extended \in BOOLEAN
    /\ step \in {"idle", "intent_created", "intent_fenced", "intent_written", "allocate",
                 "bind", "name_created", "name_written", "seal", "propose", "pending_created",
                 "pending_fenced", "pending_written", "provision", "extend", "publish",
                 "published"}
    /\ proposal \in Proposal \cup {None}
    /\ observed \in [tree : Tree, parent : BOOLEAN, nv : Proposal \cup {None}] \cup {None}
    /\ attempts \in 0 .. MaxAttempts /\ secrets \in 0 .. MaxSecrets
    /\ parentWrites \in Nat
    /\ reported \in BOOLEAN

EnrollmentInit ==
    /\ tree = [intent |-> [stage |-> "absent", attempt |-> 0],
               pending |-> Absent, final |-> Absent]
    /\ trees = {tree}
    /\ parent = FALSE /\ nv = None /\ extended = FALSE
    /\ step = "idle" /\ proposal = None /\ observed = None
    /\ attempts = 0 /\ secrets = 0 /\ parentWrites = 0
    /\ reported = FALSE

\* Nothing is enrolled, and the journal that an enrollment will publish is empty.
CheckpointInit == Init /\ EnrollmentInit
-----------------------------------------------------------------------------
\* An operation on the tree that no sync has made durable yet, and the sync.
Change(new) == tree' = new /\ trees' = trees \cup {new}
Sync == tree' = tree /\ trees' = {tree}

Step(from, to) == step = from /\ step' = to

\* destinations, and absent(parent_path)
AllAbsent ==
    /\ tree.intent.stage = "absent"
    /\ tree.pending = Absent /\ tree.final = Absent

\* enroll, up to the mkdir of the intent.  Provisioner::local has found the NV index vacant.
Enroll ==
    /\ Step("idle", "intent_created")
    /\ AllAbsent /\ nv = None /\ pc = "down"
    /\ attempts < MaxAttempts /\ attempts' = attempts + 1
    /\ Change([tree EXCEPT !.intent = [stage |-> "partial", attempt |-> attempts']])
    /\ UNCHANGED <<handles, proposal, observed, secrets, reported>>

\* Mutation of Synced: the proposal is not synced before the index is provisioned.
Synced_NoProposal ==
    /\ \/ Step("intent_created", "intent_fenced") /\ Sync
       \/ Step("intent_written", "allocate") /\ Sync
       \/ Step("name_written", "seal") /\ Sync
       \/ Step("pending_created", "pending_fenced") /\ Sync
       \/ Step("pending_written", "provision") /\ UNCHANGED forest
    /\ UNCHANGED <<handles, proposal, observed, attempts, secrets, reported>>

\* The syncs of ParentIntent::prepare, ParentIntent::bind_name and Proposal::prepare.
Synced ==
    /\ \/ Step("intent_created", "intent_fenced") \/ Step("intent_written", "allocate")
       \/ Step("name_written", "seal")
       \/ Step("pending_created", "pending_fenced") \/ Step("pending_written", "provision")
    /\ Sync
    /\ UNCHANGED <<handles, proposal, observed, attempts, secrets, reported>>

\* The two files of the intent.
WriteIntent ==
    /\ Step("intent_fenced", "intent_written")
    /\ Change([tree EXCEPT !.intent.stage = "unbound"])
    /\ UNCHANGED <<handles, proposal, observed, attempts, secrets, reported>>

\* allocate_parent: refused when the handle is occupied.  The reply may be lost.
AllocateParent ==
    /\ step = "allocate" /\ ~parent /\ nv = None
    /\ step' \in {"bind", "idle"}
    /\ parent' = TRUE /\ parentWrites' = parentWrites + 1
    /\ UNCHANGED <<forest, nv, extended, proposal, observed, attempts, secrets, reported>>

\* bind_name creates the file and then writes it.
CreateName ==
    /\ Step("bind", "name_created")
    /\ Change([tree EXCEPT !.intent.stage = "partial"])
    /\ UNCHANGED <<handles, proposal, observed, attempts, secrets, reported>>

WriteName ==
    /\ Step("name_created", "name_written")
    /\ Change([tree EXCEPT !.intent.stage = "bound"])
    /\ UNCHANGED <<handles, proposal, observed, attempts, secrets, reported>>

\* A fresh secret is sealed under the parent.
Seal ==
    /\ Step("seal", "propose")
    /\ secrets < MaxSecrets /\ secrets' = secrets + 1
    /\ proposal' = [secret |-> secrets', attempt |-> tree.intent.attempt]
    /\ UNCHANGED <<forest, handles, observed, attempts, reported>>
-----------------------------------------------------------------------------
(* commit *)

CreatePending ==
    /\ Step("propose", "pending_created")
    /\ tree.pending = Absent /\ tree.final = Absent
    /\ Change([tree EXCEPT !.pending = Partial])
    /\ UNCHANGED <<handles, proposal, observed, attempts, secrets, reported>>

WritePending ==
    /\ Step("pending_fenced", "pending_written")
    /\ Change([tree EXCEPT !.pending = proposal])
    /\ UNCHANGED <<handles, proposal, observed, attempts, secrets, reported>>

\* Provisioner::provision defines the index, refused when it is occupied.  Either reply of the TPM
\* may be lost, and nothing undoes what it has executed.
DefineIndex ==
    /\ step = "provision" /\ tree.pending = proposal /\ tree.final = Absent
    /\ nv = None /\ nv' = proposal
    /\ step' \in {"extend", "idle"}
    /\ UNCHANGED <<forest, parent, extended, parentWrites, proposal, observed, attempts, secrets,
                   reported>>

\* The genesis extend, in the same session.
ExtendGenesis ==
    /\ step = "extend" /\ step' \in {"publish", "idle"}
    /\ extended' = TRUE
    /\ UNCHANGED <<forest, parent, nv, parentWrites, proposal, observed, attempts, secrets, reported>>

\* publish: the rename that replaces nothing.
PublishProposal ==
    /\ Step("publish", "published")
    /\ tree.final = Absent
    /\ Change([tree EXCEPT !.pending = Absent, !.final = tree.pending])
    /\ UNCHANGED <<handles, proposal, observed, attempts, secrets, reported>>

\* The sync, the last recheck and Store::open.
Report ==
    /\ Step("published", "idle")
    /\ Sync
    /\ tree.final = nv
    /\ reported' = TRUE /\ proposal' = None
    /\ UNCHANGED <<handles, observed, attempts, secrets>>
-----------------------------------------------------------------------------
(* Review, continuation and publication of an interrupted attempt *)

Observation == [tree |-> tree, parent |-> parent, nv |-> nv]

\* inspect_at.  It refuses a parent intent that it cannot read.
Phase ==
    LET stage == tree.intent.stage
        bare == tree.pending = Absent /\ tree.final = Absent /\ nv = None
        matches == stage = "bound" /\ parent
    IN  CASE stage = "partial" -> "refused"
          [] stage = "absent" /\ bare /\ ~parent -> "not_started"
          [] stage = "unbound" /\ bare -> "parent_write_uncertain"
          [] matches /\ bare -> "parent_bound_proposal_absent"
          [] matches /\ tree.pending # Absent /\ tree.final = Absent ->
                "nv_write_or_publication_uncertain"
          [] matches /\ tree.pending = Absent /\ tree.final # Absent /\ nv # None ->
                "published_unverified"
          [] OTHER -> "conflict_preserve_state"

\* PendingRecovery::inspect: exactly one directory, rebuilt from the retained intent, whose
\* secret opens the index, with exactly the genesis in the journal and in the TPM.
CommittedAt(directory) ==
    /\ directory \in Proposal /\ directory.attempt = tree.intent.attempt
    /\ tree.intent.stage = "bound" /\ parent
    /\ directory = nv /\ extended
    /\ visible = Genesis /\ tpm = <<>>

Pending == CommittedAt(tree.pending) /\ tree.final = Absent
Replay == CommittedAt(tree.final) /\ tree.pending = Absent

\* inspect prints the digest that resume_bound_parent takes, reconcile_pending without one
\* prints its own.
InspectEnrollment ==
    /\ step = "idle" /\ pc = "down"
    /\ Phase = "parent_bound_proposal_absent" \/ Pending \/ Replay
    /\ observed' = Observation
    /\ UNCHANGED <<forest, handles, step, proposal, attempts, secrets, reported>>

\* resume_bound_parent, up to the fresh secret.
ResumeBoundParent ==
    /\ Step("idle", "seal")
    /\ pc = "down"
    /\ Phase = "parent_bound_proposal_absent" /\ observed = Observation
    /\ UNCHANGED <<forest, handles, proposal, observed, attempts, secrets, reported>>

\* reconcile_pending with a reviewed digest: publish, or replay a publication whose
\* acknowledgement was lost.
ReconcilePending ==
    /\ step = "idle" /\ pc = "down" /\ observed = Observation
    /\ \/ /\ Pending
          /\ Change([tree EXCEPT !.pending = Absent, !.final = tree.pending])
       \/ Replay /\ UNCHANGED forest
    /\ step' = "published"
    /\ UNCHANGED <<handles, proposal, observed, attempts, secrets, reported>>

\* A refused authorization, changed boot inputs, an I/O error, a TPM that refuses or a crash:
\* the process ends and everything it wrote stays.
Stop ==
    /\ step # "idle"
    /\ step' = "idle" /\ proposal' = None
    /\ UNCHANGED <<forest, handles, observed, attempts, secrets, reported>>

Bootstrap ==
    \/ Enroll \/ Synced \/ WriteIntent \/ AllocateParent \/ CreateName \/ WriteName \/ Seal
    \/ CreatePending \/ WritePending \/ DefineIndex \/ ExtendGenesis \/ PublishProposal
    \/ Report \/ InspectEnrollment \/ ResumeBoundParent \/ ReconcilePending \/ Stop
-----------------------------------------------------------------------------
(* The journal in the published directory *)

\* LocalAnchor::installed: the lock is free and the final directory's secret opens the index.
Installed == step = "idle" /\ nv # None /\ extended /\ tree.final = nv

JournalStep ==
    /\ Installed
    /\ \/ /\ Open \/ Dispatch \/ Publish \/ AppendFails \/ Inspect \/ Recover \/ Exit
             \/ \E e \in Entry : Prepare(e)
          /\ UNCHANGED trees
       \/ (SyncProposal \/ Acknowledge \/ Recovered) /\ trees' = {tree}
    /\ UNCHANGED <<tree, handles, step, proposal, observed, attempts, secrets, reported>>

\* A tree older than the visible one comes back only with the journal of that time.  The
\* digest of a committed enrollment binds the TPM's reset and restart counts, so no review of
\* one outlives the boot.
LosePower ==
    /\ PowerLoss
    /\ tree' \in trees /\ trees' = {tree'}
    /\ tree' # tree => visible' = Genesis
    /\ step' = "idle" /\ proposal' = None
    /\ observed' = IF observed # None /\ observed.nv # None THEN None ELSE observed
    /\ UNCHANGED <<handles, attempts, secrets, reported>>

CheckpointNext ==
    \/ Bootstrap /\ UNCHANGED vars
    \/ JournalStep
    \/ LosePower

CheckpointSpec == CheckpointInit /\ [][CheckpointNext]_<<vars, enrollmentVars>>
-----------------------------------------------------------------------------
(* What an interrupted bootstrap leaves *)

\* From the definition of the index on, whatever a power loss leaves is one complete directory,
\* made for this index and bound to the retained intent, and before it nothing is published.  Once
\* the genesis is extended that directory is exactly what reconcile_pending accepts, or it is
\* published for good: no enrollment is reported and no entry is committed while the directory
\* could still lose its place.  An index whose genesis was never extended publishes nothing: its
\* proposal stays pending, which reconcile_pending refuses for as long as the index exists.
EnrollmentIsRecoverable ==
    \A d \in trees :
        IF nv = None THEN d.final = Absent /\ ~extended
        ELSE /\ parent /\ d.intent.stage = "bound" /\ d.intent.attempt = nv.attempt
             /\ {d.pending, d.final} = {Absent, nv}
             /\ ~extended => d.final = Absent
             /\ reported \/ tpm # <<>> => d.final = nv
-----------------------------------------------------------------------------
(***************************************************************************)
(* Proofs, first about AdminJournal and then about the bootstrap above it: *)
(* for every set of requests and payloads and every journal limit, nothing *)
(* the TPM has been extended with is lost by a crash or a power failure.   *)
(***************************************************************************)

(***************************************************************************)
(* The strengthening: at each point of append and of reconcile, how the    *)
(* disk, the TPM and what the process knows relate.  Only while a proposal *)
(* is durable does the TPM move, which is what dispatch and publish say.   *)
(***************************************************************************)
Proposed == [journal |-> known, pending |-> Append(known, entry)]

PcInv ==
    /\ pc \in {"sync_proposal", "dispatch"} =>
          entry \in Entry /\ visible = Proposed /\ tpm = known /\ entry.id \notin Ids(known)
    /\ pc = "dispatch" => possible = {visible}
    /\ pc = "publish" =>
          /\ entry \in Entry /\ visible = Proposed /\ tpm = Append(known, entry)
          /\ possible = {visible}
    /\ pc = "sync_journal" =>
          /\ entry \in Entry /\ tpm = Append(known, entry)
          /\ visible = [journal |-> tpm, pending |-> None]
    /\ pc = "sync_recovered" => visible = [journal |-> tpm, pending |-> None]

IInv == TypeOK /\ PcInv /\ CommittedIsRecoverable /\ AcknowledgedSurvives /\ ExtendedOnce
-----------------------------------------------------------------------------
\* A proposal is a directory whose pending file is a one-entry successor of its journal.
LEMMA ProposalIsSuccessor ==
    ASSUME NEW log \in Seq(Entry), NEW e \in Entry
    PROVE  /\ Append(log, e) \in Seq(Entry)
           /\ [journal |-> log, pending |-> Append(log, e)] \in Directory
           /\ Successor([journal |-> log, pending |-> Append(log, e)])
<1>1. Append(log, e) \in Seq(Entry) /\ Append(log, e) # None
  BY JournalAssumption
<1> QED
  BY <1>1 DEF Directory, Successor

\* Appending keeps what a log holds, and adds the new entry.
LEMMA AppendKeeps ==
    ASSUME NEW log \in Seq(Entry), NEW e \in Entry
    PROVE  /\ \A i \in DOMAIN log : i \in DOMAIN Append(log, e) /\ Append(log, e)[i] = log[i]
           /\ Len(log) + 1 \in DOMAIN Append(log, e)
           /\ Append(log, e)[Len(log) + 1] = e
  OBVIOUS

\* A log whose ids are distinct keeps them distinct when a new id is appended.
LEMMA AppendDistinct ==
    ASSUME NEW log \in Seq(Entry), NEW e \in Entry, e.id \notin Ids(log),
           \A i, j \in DOMAIN log : log[i].id = log[j].id => i = j
    PROVE  \A i, j \in DOMAIN Append(log, e) :
              Append(log, e)[i].id = Append(log, e)[j].id => i = j
<1>1. \A i \in DOMAIN Append(log, e) : i \in DOMAIN log \/ i = Len(log) + 1
  OBVIOUS
<1>2. \A i \in DOMAIN log : log[i].id # e.id
  BY DEF Ids
<1> QED
  BY <1>1, <1>2, AppendKeeps

\* The initial directory, journal and TPM of the enrollment satisfy the invariant.
LEMMA InitInv == Init => IInv
<1> SUFFICES ASSUME Init PROVE IInv
  OBVIOUS
<1>1. <<>> \in Seq(Entry)
  OBVIOUS
<1>2. visible.journal = <<>> /\ visible.pending = None
  BY DEF Init, Genesis
<1>3. TypeOK
  BY <1>1 DEF Init, Genesis, TypeOK, Directory
<1>4. CommittedIsRecoverable
  BY <1>2 DEF Init, Genesis, CommittedIsRecoverable
<1> QED
  BY <1>3, <1>4 DEF Init, Genesis, IInv, PcInv, AcknowledgedSurvives, ExtendedOnce
-----------------------------------------------------------------------------
\* Every step of a process, of an operator and of the power supply keeps the invariant.
LEMMA StepInv == IInv /\ [Next]_vars => IInv'
<1> SUFFICES ASSUME IInv, [Next]_vars PROVE IInv'
  OBVIOUS
<1> USE DEF IInv
<1>1. CASE Open
  <2>1. TypeOK' BY <1>1 DEF Open, TypeOK, Directory, disk
  <2> QED
    BY <1>1, <2>1 DEF Open, disk, PcInv, CommittedIsRecoverable, AcknowledgedSurvives,
                      ExtendedOnce
<1>2. ASSUME NEW e \in Entry, Prepare(e) PROVE IInv'
  <2> DEFINE staged == [journal |-> known, pending |-> Append(known, e)]
  <2>1. staged \in Directory /\ Successor(staged) /\ Append(known, e) \in Seq(Entry)
    BY SMTT(30), <1>2, ProposalIsSuccessor DEF TypeOK
  <2>2. visible.journal = known /\ tpm = known /\ visible \in possible
    BY <1>2 DEF Prepare, Current, TypeOK
  <2>3. visible' = staged /\ possible' = possible \cup {staged} /\ entry' = e
    BY <1>2 DEF Prepare, Rename
  <2>4. TypeOK'
    BY ZenonT(30), <1>2, <2>1, <2>3 DEF Prepare, TypeOK
  <2>5. PcInv'
    BY <1>2, <2>2, <2>3 DEF Prepare, PcInv, Proposed
  <2>6. CommittedIsRecoverable'
    <3>1. tpm' = tpm /\ staged.journal = tpm
      BY <1>2, <2>2 DEF Prepare
    <3>2. \A directory \in possible' : directory \in possible \/ directory = staged
      BY <2>3
    <3> HIDE DEF staged
    <3> QED
      BY <2>1, <3>1, <3>2 DEF CommittedIsRecoverable, Successor
  <2>7. AcknowledgedSurvives'
    BY <1>2, <2>2, <2>3 DEF Prepare, AcknowledgedSurvives
  <2>8. ExtendedOnce'
    BY <1>2 DEF Prepare, ExtendedOnce
  <2> QED
    BY <2>4, <2>5, <2>6, <2>7, <2>8
<1>3. CASE SyncProposal
  <2>1. TypeOK' BY <1>3 DEF SyncProposal, SyncDirectory, TypeOK
  <2> QED
    BY <1>3, <2>1 DEF SyncProposal, SyncDirectory, TypeOK, PcInv, Proposed,
                      CommittedIsRecoverable, AcknowledgedSurvives, ExtendedOnce
<1>4. CASE Dispatch
  <2>1. /\ entry \in Entry /\ tpm = known /\ entry.id \notin Ids(known)
        /\ visible = Proposed /\ possible = {visible} /\ known \in Seq(Entry)
    BY <1>4 DEF Dispatch, PcInv, TypeOK
  <2>2. /\ tpm' = Append(known, entry) /\ tpm' \in Seq(Entry)
        /\ Successor(visible) /\ visible.pending = tpm'
    BY SMTT(30), <1>4, <2>1, ProposalIsSuccessor DEF Dispatch, Proposed
  <2>3. TypeOK'
    BY <1>4, <2>2 DEF Dispatch, TypeOK, disk
  <2>4. PcInv'
    BY ZenonT(30), <1>4, <2>1, <2>2 DEF Dispatch, PcInv, Proposed, disk
  <2>5. CommittedIsRecoverable'
    BY ZenonT(30), <1>4, <2>1, <2>2 DEF Dispatch, CommittedIsRecoverable, disk
  <2>6. AcknowledgedSurvives'
    BY <1>4 DEF Dispatch, AcknowledgedSurvives, disk
  <2>7. ExtendedOnce'
    BY <2>1, <2>2, AppendDistinct DEF ExtendedOnce
  <2> QED
    BY <2>3, <2>4, <2>5, <2>6, <2>7
<1>5. CASE Publish
  <2> DEFINE published == [journal |-> tpm, pending |-> None]
  <2>1. /\ entry \in Entry /\ known \in Seq(Entry) /\ tpm = Append(known, entry)
        /\ visible = Proposed /\ possible = {visible}
    BY <1>5 DEF Publish, PcInv, TypeOK
  <2>2. visible' = published /\ possible' = possible \cup {published}
    BY <1>5, <2>1 DEF Publish, Rename, Proposed
  <2>3. published \in Directory
    BY DEF TypeOK, Directory
  <2>4. TypeOK'
    BY <1>5, <2>2, <2>3 DEF Publish, TypeOK
  <2>5. PcInv'
    BY <1>5, <2>1, <2>2 DEF Publish, PcInv
  <2>6. CommittedIsRecoverable'
    BY <1>5, <2>2 DEF Publish, CommittedIsRecoverable
  <2>7. AcknowledgedSurvives'
    <3>1. \A e \in acknowledged : \E i \in DOMAIN known : known[i] = e
      BY <2>1 DEF AcknowledgedSurvives, Proposed
    <3>2. \A e \in acknowledged : \E i \in DOMAIN tpm : tpm[i] = e
      BY <2>1, <3>1, AppendKeeps
    <3> QED
      BY <1>5, <2>2, <3>2 DEF Publish, AcknowledgedSurvives
  <2>8. ExtendedOnce'
    BY <1>5 DEF Publish, ExtendedOnce
  <2> QED
    BY <2>4, <2>5, <2>6, <2>7, <2>8
<1>6. CASE Acknowledge
  <2>1. /\ entry \in Entry /\ known \in Seq(Entry) /\ tpm = Append(known, entry)
        /\ visible.journal = tpm /\ visible \in possible
    BY <1>6 DEF Acknowledge, PcInv, TypeOK
  <2>2. visible' = visible /\ possible' = {visible} /\ acknowledged' = acknowledged \cup {entry}
    BY <1>6 DEF Acknowledge, SyncDirectory
  <2>3. TypeOK'
    BY <1>6, <2>1, <2>2, ProposalIsSuccessor DEF Acknowledge, TypeOK
  <2>4. AcknowledgedSurvives'
    BY <2>1, <2>2, AppendKeeps DEF AcknowledgedSurvives
  <2> QED
    BY <1>6, <2>1, <2>2, <2>3, <2>4
       DEF Acknowledge, PcInv, CommittedIsRecoverable, ExtendedOnce
<1>7. CASE AppendFails
  <2>1. TypeOK' BY <1>7 DEF AppendFails, TypeOK, disk
  <2> QED
    BY <1>7, <2>1 DEF AppendFails, disk, PcInv, CommittedIsRecoverable, AcknowledgedSurvives,
                      ExtendedOnce
<1>8. CASE Inspect
  <2>1. TypeOK' BY <1>8 DEF Inspect, TypeOK, disk
  <2> QED
    BY <1>8, <2>1 DEF Inspect, disk, PcInv, CommittedIsRecoverable, AcknowledgedSurvives,
                      ExtendedOnce
<1>9. CASE Recover
  <2> DEFINE published == [journal |-> tpm, pending |-> None]
  <2>1. PICK e \in Entry : visible.pending = Append(visible.journal, e)
    BY <1>9 DEF Recover, Committed, Successor
  <2>2. visible.journal \in Seq(Entry) /\ visible \in possible /\ tpm = Append(visible.journal, e)
    BY <1>9, <2>1 DEF Recover, Committed, TypeOK, Directory
  <2>3. visible' = published /\ possible' = possible \cup {published}
    BY <1>9 DEF Recover, Rename, Committed
  <2>4. published \in Directory
    BY DEF TypeOK, Directory
  <2>5. TypeOK'
    BY <1>9, <2>3, <2>4 DEF Recover, TypeOK
  <2>6. CommittedIsRecoverable'
    BY <1>9, <2>3 DEF Recover, CommittedIsRecoverable
  <2>7. AcknowledgedSurvives'
    <3>1. \A a \in acknowledged : \E i \in DOMAIN visible.journal : visible.journal[i] = a
      BY <2>2 DEF AcknowledgedSurvives
    <3>2. \A a \in acknowledged : \E i \in DOMAIN tpm : tpm[i] = a
      BY <2>2, <3>1, AppendKeeps
    <3> QED
      BY <1>9, <2>3, <3>2 DEF Recover, AcknowledgedSurvives
  <2> QED
    BY <1>9, <2>3, <2>5, <2>6, <2>7 DEF Recover, PcInv, ExtendedOnce
<1>10. CASE Recovered
  <2>1. TypeOK'
    BY <1>10 DEF Recovered, SyncDirectory, TypeOK, Directory
  <2> QED
    BY <1>10, <2>1 DEF Recovered, SyncDirectory, TypeOK, PcInv, CommittedIsRecoverable,
                       AcknowledgedSurvives, ExtendedOnce
<1>11. CASE Exit
  <2>1. TypeOK' BY <1>11 DEF Exit, TypeOK, disk
  <2> QED
    BY <1>11, <2>1 DEF Exit, disk, PcInv, CommittedIsRecoverable, AcknowledgedSurvives,
                       ExtendedOnce
<1>12. CASE PowerLoss
  <2>1. visible' \in possible /\ possible' = {visible'}
    BY <1>12 DEF PowerLoss
  <2>2. TypeOK' BY <1>12, <2>1 DEF PowerLoss, TypeOK
  <2> QED
    BY <1>12, <2>1, <2>2 DEF PowerLoss, PcInv, CommittedIsRecoverable, AcknowledgedSurvives,
                             ExtendedOnce
<1>13. CASE UNCHANGED vars
  BY <1>13 DEF vars, TypeOK, PcInv, Proposed, CommittedIsRecoverable, AcknowledgedSurvives,
               ExtendedOnce
<1> QED
  BY <1>1, <1>2, <1>3, <1>4, <1>5, <1>6, <1>7, <1>8, <1>9, <1>10, <1>11, <1>12, <1>13 DEF Next
-----------------------------------------------------------------------------
\* The inductive invariant holds in every reachable state.
THEOREM Invariance == Spec => []IInv
  BY InitInv, StepInv, PTL DEF Spec

\* append extends the TPM only over a durable proposal, and publishes only what the TPM has, so
\* at every instant a power loss leaves the disk with all that the TPM has.
THEOREM CommittedIsRecoverableHolds == Spec => []CommittedIsRecoverable
  BY Invariance, PTL DEF IInv

\* append returns Ok only after the directory sync, so an acknowledged entry survives.
THEOREM AcknowledgedSurvivesHolds == Spec => []AcknowledgedSurvives
  BY Invariance, PTL DEF IInv

\* No crash, lost reply or reviewed recovery makes the TPM take a request twice.
THEOREM ExtendedOnceHolds == Spec => []ExtendedOnce
  BY Invariance, PTL DEF IInv
-----------------------------------------------------------------------------
(***************************************************************************)
(* The bootstrap and the journal together, for every number of attempts    *)
(* and secrets.  EInv says how far the bootstrap that holds the lock has   *)
(* come: no index is provisioned before its proposal is all that a power   *)
(* loss can leave, and no journal entry is dispatched before the published *)
(* directory is.                                                           *)
(***************************************************************************)
Preparing == {"intent_created", "intent_fenced", "intent_written", "allocate", "bind",
              "name_created", "name_written"}
Sealing == {"seal", "propose", "pending_created", "pending_fenced", "pending_written", "provision"}

BootstrapInv ==
    /\ step \in Preparing \cup Sealing => nv = None /\ tree.intent.attempt # 0
    /\ step \in Sealing \cup {"name_written"} => tree.intent.stage = "bound"
    /\ step \in Sealing \ {"seal"} =>
          proposal \in Proposal /\ proposal.attempt = tree.intent.attempt
    /\ step \in {"pending_written", "provision"} => tree.pending = proposal
    /\ step = "provision" => trees = {tree}
    /\ step \in {"bind", "name_created", "name_written"} \cup Sealing => parent
    /\ step \in {"extend", "publish", "published"} => nv # None
    /\ step \in {"publish", "published"} => extended
    /\ step # "idle" => pc = "down"

\* An attempt is numbered, and nothing is reported or dispatched without a lasting enrollment.
LastingInv ==
    /\ \A d \in trees : d.intent.stage # "absent" => d.intent.attempt # 0
    /\ nv = None => ~reported /\ tpm = <<>>
    /\ pc = "dispatch" => nv # None /\ \A d \in trees : d.final = nv

EInv == EnrollmentTypeOK /\ EnrollmentIsRecoverable /\ BootstrapInv /\ LastingInv

\* The types of what the bootstrap counts, the TPM's handles and the reviewed observation.
RestTypeOK ==
    /\ parent \in BOOLEAN /\ extended \in BOOLEAN /\ parentWrites \in Nat
    /\ observed \in [tree : Tree, parent : BOOLEAN, nv : Proposal \cup {None}] \cup {None}
    /\ attempts \in 0 .. MaxAttempts /\ secrets \in 0 .. MaxSecrets

LEMMA TreeFields ==
    ASSUME NEW t \in Tree
    PROVE  /\ t.intent \in Intent /\ t.intent.stage \in Stage /\ t.intent.attempt \in 0 .. MaxAttempts
           /\ t.pending \in Retained /\ t.final \in Retained
           /\ \A stage \in Stage : LET u == [t EXCEPT !.intent.stage = stage]
                                   IN  /\ u \in Tree /\ u.intent.stage = stage
                                       /\ u.intent.attempt = t.intent.attempt
                                       /\ u.pending = t.pending /\ u.final = t.final
           /\ \A p \in Retained, q \in Retained :
                 LET u == [t EXCEPT !.pending = p, !.final = q]
                 IN  u \in Tree /\ u.intent = t.intent /\ u.pending = p /\ u.final = q
           /\ \A p \in Retained :
                 LET u == [t EXCEPT !.pending = p]
                 IN  u \in Tree /\ u.intent = t.intent /\ u.pending = p /\ u.final = t.final
           /\ \A i \in Intent :
                 LET u == [t EXCEPT !.intent = i]
                 IN  u \in Tree /\ u.intent = i /\ u.pending = t.pending /\ u.final = t.final
BY ZenonT(30) DEF Tree, Intent

LEMMA RetainedKinds == Absent \in Retained /\ Partial \in Retained /\ Proposal \subseteq Retained
                       /\ None \notin Proposal
BY EnrollmentAssumption DEF Retained

\* A change of the tree before an index is provisioned publishes nothing.
LEMMA EarlyChange ==
    ASSUME EInv, nv = None, UNCHANGED <<nv, extended, reported, tpm, pc>>, pc = "down",
           NEW new \in Tree, Change(new), new.final = Absent,
           new.intent.stage # "absent" => new.intent.attempt # 0
    PROVE  EnrollmentIsRecoverable' /\ LastingInv' /\ tree' = new /\ tree' \in trees'
           /\ tree' \in Tree /\ trees' \subseteq Tree
<1>1. tree' = new /\ trees' = trees \cup {new}
  BY DEF Change
<1>2. ~extended
  BY DEF EInv, EnrollmentTypeOK, EnrollmentIsRecoverable
<1>3. EnrollmentIsRecoverable'
  BY <1>1, <1>2 DEF EInv, EnrollmentIsRecoverable
<1>4. LastingInv'
  BY <1>1 DEF EInv, LastingInv
<1>5. QED
  BY <1>1, <1>3, <1>4 DEF EInv, EnrollmentTypeOK

\* A step that leaves the tree as it is, or makes it durable.
LEMMA SameTree ==
    ASSUME EInv, UNCHANGED <<nv, extended, reported, tpm, pc>>, parent => parent',
           UNCHANGED forest \/ Sync
    PROVE  EnrollmentIsRecoverable' /\ LastingInv' /\ tree' = tree /\ tree' \in trees'
           /\ tree' \in Tree /\ trees' \subseteq Tree
<1>1. tree' = tree /\ trees' \subseteq trees /\ tree' \in trees' /\ tree \in Tree /\ trees \subseteq Tree
  BY DEF forest, Sync, EInv, EnrollmentTypeOK
<1>2. EnrollmentIsRecoverable'
  BY ZenonT(30), <1>1 DEF EInv, EnrollmentIsRecoverable
<1>3. LastingInv'
  BY <1>1 DEF EInv, LastingInv
<1>4. QED
  BY <1>1, <1>2, <1>3

LEMMA Assembled ==
    ASSUME EInv, EnrollmentIsRecoverable', LastingInv', BootstrapInv',
           tree' \in Tree, trees' \subseteq Tree, tree' \in trees', RestTypeOK',
           nv' \in Proposal \cup {None}, reported' \in BOOLEAN,
           step' \in Preparing \cup Sealing \cup {"idle", "extend", "publish", "published"},
           proposal' \in Proposal \cup {None}
    PROVE  EInv'
BY DEF EInv, EnrollmentTypeOK, RestTypeOK, Preparing, Sealing

LEMMA EFacts ==
    ASSUME EInv
    PROVE  /\ tree \in Tree /\ tree \in trees /\ trees \subseteq Tree /\ RestTypeOK
           /\ nv \in Proposal \cup {None} /\ reported \in BOOLEAN
           /\ proposal \in Proposal \cup {None}
           /\ nv = None => tree.final = Absent
           /\ tree.intent.stage # "absent" => tree.intent.attempt # 0
BY DEF EInv, EnrollmentTypeOK, RestTypeOK, EnrollmentIsRecoverable, LastingInv

LEMMA EnrollStep == ASSUME EInv, UNCHANGED vars, Enroll PROVE EInv'
<1> DEFINE new == [tree EXCEPT !.intent = [stage |-> "partial", attempt |-> attempts']]
<1>1. /\ step = "idle" /\ step' = "intent_created" /\ nv = None /\ pc = "down"
      /\ attempts < MaxAttempts /\ attempts' = attempts + 1 /\ Change(new)
      /\ UNCHANGED <<parent, nv, extended, parentWrites, proposal, observed, secrets, reported, pc, tpm>>
  BY DEF Enroll, Step, handles, vars
<1>2. attempts' \in 0 .. MaxAttempts /\ attempts' # 0
  BY <1>1, EFacts, EnrollmentAssumption DEF RestTypeOK
<1>3. [stage |-> "partial", attempt |-> attempts'] \in Intent
  BY <1>2 DEF Intent, Stage
<1>4. new \in Tree /\ new.intent.stage = "partial" /\ new.intent.attempt # 0 /\ new.final = tree.final
  <2> DEFINE intent == [stage |-> "partial", attempt |-> attempts']
  <2>1. intent.stage = "partial" /\ intent.attempt = attempts' /\ intent \in Intent
    BY <1>3
  <2>2. tree \in Tree
    BY EFacts
  <2> HIDE DEF intent
  <2>3. LET u == [tree EXCEPT !.intent = intent] IN u \in Tree /\ u.intent = intent /\ u.final = tree.final
    BY <2>1, <2>2 DEF Tree
  <2>4. QED
    BY <1>2, <2>1, <2>3 DEF intent
<1> HIDE DEF new
<1>5. /\ EnrollmentIsRecoverable' /\ LastingInv' /\ tree' = new /\ tree' \in trees'
      /\ tree' \in Tree /\ trees' \subseteq Tree
  BY <1>1, <1>4, EarlyChange, EFacts
<1>6. BootstrapInv'
  BY <1>1, <1>4, <1>5 DEF BootstrapInv, Preparing, Sealing
<1>7. RestTypeOK'
  BY <1>1, <1>2, EFacts DEF RestTypeOK
<1>8. step' \in Preparing
  BY <1>1 DEF Preparing
<1>9. QED
  BY <1>1, <1>5, <1>6, <1>7, <1>8, EFacts, Assembled

LEMMA SyncedStep == ASSUME EInv, UNCHANGED vars, Synced PROVE EInv'
<1>1. /\ Sync
      /\ UNCHANGED <<parent, nv, extended, parentWrites, proposal, observed, attempts, secrets,
                     reported, pc, tpm>>
  BY DEF Synced, handles, vars
<1>2. /\ EnrollmentIsRecoverable' /\ LastingInv' /\ tree' = tree /\ tree' \in trees'
      /\ tree' \in Tree /\ trees' \subseteq Tree /\ trees' = {tree}
  BY <1>1, SameTree DEF Sync
<1>3. BootstrapInv'
  BY <1>1, <1>2 DEF EInv, Synced, Step, BootstrapInv, Preparing, Sealing
<1>4. step' \in Preparing \cup Sealing
  BY DEF Synced, Step, Preparing, Sealing
<1>5. RestTypeOK'
  BY <1>1, EFacts DEF RestTypeOK
<1>6. QED
  BY <1>1, <1>2, <1>3, <1>4, <1>5, EFacts, Assembled

LEMMA IntentStep == ASSUME EInv, UNCHANGED vars, WriteIntent \/ CreateName \/ WriteName PROVE EInv'
<1>1. PICK stage \in Stage : /\ Change([tree EXCEPT !.intent.stage = stage])
                             /\ step' = "name_written" => stage = "bound"
  BY DEF WriteIntent, CreateName, WriteName, Step, Stage
<1> DEFINE new == [tree EXCEPT !.intent.stage = stage]
<1>2. /\ step \in Preparing /\ step' \in Preparing
      /\ UNCHANGED <<parent, nv, extended, parentWrites, proposal, observed, attempts, secrets,
                     reported, pc, tpm>>
  BY DEF WriteIntent, CreateName, WriteName, Step, Preparing, handles, vars
<1>3. /\ nv = None /\ tree.intent.attempt # 0 /\ pc = "down"
      /\ step' \in {"bind", "name_created", "name_written"} => parent
  BY <1>2 DEF EInv, BootstrapInv, Preparing, WriteIntent, CreateName, WriteName, Step
<1>4. /\ new \in Tree /\ new.intent.stage = stage /\ new.intent.attempt = tree.intent.attempt
      /\ new.final = tree.final
  BY ZenonT(30), EFacts, TreeFields
<1>5. Change(new)
  BY <1>1
<1> HIDE DEF new
<1>6. /\ EnrollmentIsRecoverable' /\ LastingInv' /\ tree' = new /\ tree' \in trees'
      /\ tree' \in Tree /\ trees' \subseteq Tree
  BY <1>2, <1>3, <1>4, <1>5, EarlyChange, EFacts
<1>7. BootstrapInv'
  BY <1>1, <1>2, <1>3, <1>4, <1>6 DEF BootstrapInv, Preparing, Sealing
<1>8. RestTypeOK'
  BY <1>2, EFacts DEF RestTypeOK
<1>9. QED
  BY <1>2, <1>6, <1>7, <1>8, EFacts, Assembled

LEMMA AllocateParentStep == ASSUME EInv, UNCHANGED vars, AllocateParent PROVE EInv'
<1>1. /\ UNCHANGED <<tree, trees, nv, extended, proposal, observed, attempts, secrets, reported,
                     pc, tpm>>
      /\ step = "allocate" /\ step' \in {"bind", "idle"} /\ parent' = TRUE
      /\ parentWrites' = parentWrites + 1
  BY DEF AllocateParent, forest, vars
<1>2. /\ EnrollmentIsRecoverable' /\ LastingInv' /\ tree' = tree /\ tree' \in trees'
      /\ tree' \in Tree /\ trees' \subseteq Tree
  BY <1>1, SameTree DEF forest
<1>3. BootstrapInv'
  BY <1>1 DEF EInv, BootstrapInv, Preparing, Sealing
<1>4. RestTypeOK'
  BY <1>1, EFacts DEF RestTypeOK
<1>5. QED
  BY <1>1, <1>2, <1>3, <1>4, EFacts, Assembled DEF Preparing

LEMMA SealStep == ASSUME EInv, UNCHANGED vars, Seal PROVE EInv'
<1>1. /\ UNCHANGED <<tree, trees, nv, extended, parent, parentWrites, observed, attempts, reported,
                     pc, tpm>>
      /\ step = "seal" /\ step' = "propose" /\ secrets < MaxSecrets /\ secrets' = secrets + 1
      /\ proposal' = [secret |-> secrets', attempt |-> tree.intent.attempt]
  BY DEF Seal, Step, forest, handles, vars
<1>2. secrets' \in 1 .. MaxSecrets /\ secrets' \in 0 .. MaxSecrets
  BY <1>1, EFacts, EnrollmentAssumption DEF RestTypeOK
<1>3. tree.intent.attempt \in 1 .. MaxAttempts
  <2>1. tree.intent.attempt # 0
    BY <1>1 DEF EInv, BootstrapInv, Sealing
  <2>2. tree.intent.attempt \in 0 .. MaxAttempts
    BY ZenonT(30), EFacts, TreeFields
  <2>3. QED
    BY <2>1, <2>2
<1>4. proposal' \in Proposal /\ proposal'.attempt = tree.intent.attempt
  BY <1>1, <1>2, <1>3 DEF Proposal
<1>5. /\ EnrollmentIsRecoverable' /\ LastingInv' /\ tree' = tree /\ tree' \in trees'
      /\ tree' \in Tree /\ trees' \subseteq Tree
  BY <1>1, SameTree DEF forest
<1>6. BootstrapInv'
  BY <1>1, <1>4 DEF EInv, BootstrapInv, Preparing, Sealing
<1>7. RestTypeOK'
  BY <1>1, <1>2, EFacts DEF RestTypeOK
<1>8. QED
  BY <1>1, <1>4, <1>5, <1>6, <1>7, EFacts, Assembled DEF Sealing

LEMMA PendingStep == ASSUME EInv, UNCHANGED vars, CreatePending \/ WritePending PROVE EInv'
<1>1. /\ UNCHANGED <<nv, extended, parent, parentWrites, proposal, observed, attempts, secrets,
                     reported, pc, tpm>>
      /\ step \in Sealing \ {"seal"} /\ step' \in {"pending_created", "pending_written"}
  BY DEF CreatePending, WritePending, Step, Sealing, handles, vars
<1>2. /\ nv = None /\ tree.intent.attempt # 0 /\ pc = "down" /\ proposal \in Proposal /\ parent
      /\ proposal.attempt = tree.intent.attempt /\ tree.intent.stage = "bound"
  BY <1>1 DEF EInv, BootstrapInv, Sealing
<1>3. PICK p \in Retained : /\ Change([tree EXCEPT !.pending = p])
                            /\ step' = "pending_written" => p = proposal
  BY <1>2, RetainedKinds DEF CreatePending, WritePending, Step
<1> DEFINE new == [tree EXCEPT !.pending = p]
<1>4. new \in Tree /\ new.intent = tree.intent /\ new.pending = p /\ new.final = tree.final
  BY ZenonT(30), EFacts, TreeFields
<1>5. Change(new)
  BY <1>3
<1> HIDE DEF new
<1>6. /\ EnrollmentIsRecoverable' /\ LastingInv' /\ tree' = new /\ tree' \in trees'
      /\ tree' \in Tree /\ trees' \subseteq Tree
  BY <1>1, <1>2, <1>4, <1>5, EarlyChange, EFacts
<1>7. BootstrapInv'
  BY <1>1, <1>2, <1>3, <1>4, <1>6 DEF BootstrapInv, Preparing, Sealing
<1>8. RestTypeOK'
  BY <1>1, EFacts DEF RestTypeOK
<1>9. QED
  BY <1>1, <1>6, <1>7, <1>8, EFacts, Assembled DEF Sealing

\* The index is defined over a proposal that no power loss can take.
LEMMA DefineIndexStep == ASSUME EInv, UNCHANGED vars, DefineIndex PROVE EInv'
<1>1. /\ UNCHANGED <<tree, trees, parent, extended, parentWrites, proposal, observed, attempts, secrets,
                     reported, pc, tpm>>
      /\ step = "provision" /\ step' \in {"extend", "idle"} /\ nv = None /\ nv' = proposal
      /\ tree.pending = proposal /\ tree.final = Absent
  BY DEF DefineIndex, forest, vars
<1>2. /\ trees = {tree} /\ proposal \in Proposal /\ proposal.attempt = tree.intent.attempt /\ parent
      /\ tree.intent.stage = "bound" /\ pc = "down" /\ ~reported /\ tpm = <<>>
  BY <1>1 DEF EInv, BootstrapInv, LastingInv, Sealing
<1>3. nv' # None
  BY <1>1, <1>2, EnrollmentAssumption
<1>4. EnrollmentIsRecoverable'
  BY <1>1, <1>2, <1>3 DEF EnrollmentIsRecoverable
<1>5. LastingInv'
  BY <1>1, <1>2, <1>3 DEF EInv, LastingInv
<1>6. BootstrapInv'
  BY <1>1, <1>2, <1>3 DEF BootstrapInv, Preparing, Sealing
<1>7. RestTypeOK'
  BY <1>1, EFacts DEF RestTypeOK
<1>8. QED
  BY <1>1, <1>2, <1>4, <1>5, <1>6, <1>7, EFacts, Assembled

LEMMA ExtendGenesisStep == ASSUME EInv, UNCHANGED vars, ExtendGenesis PROVE EInv'
<1>1. /\ UNCHANGED <<tree, trees, parent, nv, parentWrites, proposal, observed, attempts, secrets,
                     reported, pc, tpm>>
      /\ step = "extend" /\ step' \in {"publish", "idle"} /\ extended' = TRUE
  BY DEF ExtendGenesis, forest, vars
<1>2. nv # None /\ pc = "down"
  BY <1>1 DEF EInv, BootstrapInv
<1>3. EnrollmentIsRecoverable'
  BY <1>1, <1>2 DEF EInv, EnrollmentIsRecoverable
<1>4. LastingInv'
  BY <1>1, <1>2 DEF EInv, LastingInv
<1>5. BootstrapInv'
  BY <1>1, <1>2 DEF BootstrapInv, Preparing, Sealing
<1>6. RestTypeOK'
  BY <1>1, EFacts DEF RestTypeOK
<1>7. QED
  BY <1>1, <1>3, <1>4, <1>5, <1>6, EFacts, Assembled

\* publish, and the publication of reconcile_pending.
LEMMA PublicationStep ==
    ASSUME EInv, nv # None, extended, tree.final = Absent, pc = "down",
           Change([tree EXCEPT !.pending = Absent, !.final = tree.pending]),
           step' = "published",
           UNCHANGED <<parent, nv, extended, parentWrites, proposal, observed, attempts, secrets,
                       reported, pc, tpm>>
    PROVE  EInv'
<1> DEFINE new == [tree EXCEPT !.pending = Absent, !.final = tree.pending]
<1>1. /\ tree.pending = nv /\ nv # Absent /\ tree.intent.stage = "bound"
      /\ tree.intent.attempt = nv.attempt /\ ~reported /\ tpm = <<>> /\ parent
  <2>1. /\ {tree.pending, tree.final} = {Absent, nv} /\ nv \in Proposal
        /\ tree.intent.stage = "bound" /\ tree.intent.attempt = nv.attempt
        /\ reported \/ tpm # <<>> => tree.final = nv
        /\ parent
    BY EFacts DEF EInv, EnrollmentIsRecoverable
  <2>2. nv # Absent
    BY <2>1, EnrollmentAssumption
  <2>3. QED
    BY <2>1, <2>2
<1>2. new \in Tree /\ new.intent = tree.intent /\ new.pending = Absent /\ new.final = nv
  <2>1. tree \in Tree /\ tree.pending \in Retained /\ Absent \in Retained
    BY ZenonT(30), EFacts, TreeFields, RetainedKinds
  <2>2. QED
    BY ZenonT(30), <1>1, <2>1 DEF Tree
<1>3. tree' = new /\ trees' = trees \cup {new}
  BY DEF Change
<1> HIDE DEF new
<1>4. EnrollmentIsRecoverable'
  BY <1>1, <1>2, <1>3 DEF EInv, EnrollmentIsRecoverable
<1>5. LastingInv'
  BY <1>1, <1>2, <1>3, EFacts DEF EInv, LastingInv
<1>6. BootstrapInv'
  BY DEF BootstrapInv, Preparing, Sealing
<1>7. tree' \in Tree /\ trees' \subseteq Tree /\ tree' \in trees' /\ RestTypeOK'
  BY <1>2, <1>3, EFacts DEF RestTypeOK
<1>8. QED
  BY <1>4, <1>5, <1>6, <1>7, EFacts, Assembled

LEMMA PublishProposalStep == ASSUME EInv, UNCHANGED vars, PublishProposal PROVE EInv'
<1>1. nv # None /\ extended /\ pc = "down"
  BY DEF EInv, BootstrapInv, PublishProposal, Step
<1>2. QED
  BY <1>1, PublicationStep DEF PublishProposal, Step, handles, vars

LEMMA ReconcilePendingStep == ASSUME EInv, UNCHANGED vars, ReconcilePending PROVE EInv'
<1>1. CASE Pending /\ Change([tree EXCEPT !.pending = Absent, !.final = tree.pending])
  <2>1. nv # None /\ extended /\ tree.final = Absent
    BY <1>1, EnrollmentAssumption DEF Pending, CommittedAt
  <2>2. QED
    BY <1>1, <2>1, PublicationStep DEF ReconcilePending, handles, vars
<1>2. CASE Replay /\ UNCHANGED forest
  <2>1. /\ UNCHANGED <<parent, nv, extended, parentWrites, proposal, observed, attempts, secrets,
                       reported, pc, tpm>>
        /\ step' = "published" /\ pc = "down" /\ nv # None /\ extended
    BY <1>2, EnrollmentAssumption DEF ReconcilePending, handles, vars, Replay, CommittedAt
  <2>2. /\ EnrollmentIsRecoverable' /\ LastingInv' /\ tree' = tree /\ tree' \in trees'
        /\ tree' \in Tree /\ trees' \subseteq Tree
    BY <1>2, <2>1, SameTree
  <2>3. BootstrapInv'
    BY <2>1 DEF BootstrapInv, Preparing, Sealing
  <2>4. RestTypeOK'
    BY <2>1, EFacts DEF RestTypeOK
  <2>5. QED
    BY <2>1, <2>2, <2>3, <2>4, EFacts, Assembled
<1>3. QED
  BY <1>1, <1>2 DEF ReconcilePending

LEMMA ReportStep == ASSUME EInv, UNCHANGED vars, Report PROVE EInv'
<1>1. /\ UNCHANGED <<parent, nv, extended, parentWrites, observed, attempts, secrets, pc, tpm>>
      /\ step = "published" /\ step' = "idle" /\ tree' = tree /\ trees' = {tree} /\ tree.final = nv
      /\ reported' = TRUE /\ proposal' = None
  BY DEF Report, Step, Sync, handles, vars
<1>2. nv # None /\ pc = "down"
  BY <1>1 DEF EInv, BootstrapInv
<1>3. EnrollmentIsRecoverable'
  BY ZenonT(30), <1>1, <1>2, EFacts DEF EInv, EnrollmentIsRecoverable
<1>4. LastingInv'
  BY <1>1, <1>2, EFacts DEF EInv, LastingInv
<1>5. BootstrapInv'
  BY <1>1 DEF BootstrapInv, Preparing, Sealing
<1>6. RestTypeOK'
  BY <1>1, EFacts DEF RestTypeOK
<1>7. QED
  BY <1>1, <1>3, <1>4, <1>5, <1>6, EFacts, Assembled

\* The steps that write neither the tree nor the index.
LEMMA ReviewStep ==
    ASSUME EInv, UNCHANGED vars, InspectEnrollment \/ ResumeBoundParent \/ Stop
    PROVE  EInv'
<1>1. UNCHANGED <<tree, trees, nv, extended, parent, parentWrites, attempts, secrets, reported, pc, tpm>>
  BY DEF InspectEnrollment, ResumeBoundParent, Stop, forest, handles, vars
<1>2. /\ EnrollmentIsRecoverable' /\ LastingInv' /\ tree' = tree /\ tree' \in trees'
      /\ tree' \in Tree /\ trees' \subseteq Tree
  BY <1>1, SameTree DEF forest
<1>3. CASE InspectEnrollment
  <2>1. Observation \in [tree : Tree, parent : BOOLEAN, nv : Proposal \cup {None}]
    BY EFacts DEF Observation, RestTypeOK
  <2>2. RestTypeOK'
    BY <1>1, <1>3, <2>1, EFacts DEF RestTypeOK, InspectEnrollment
  <2>3. BootstrapInv'
    BY <1>3 DEF InspectEnrollment, BootstrapInv, Preparing, Sealing
  <2>4. QED
    BY <1>1, <1>2, <1>3, <2>2, <2>3, EFacts, Assembled DEF InspectEnrollment
<1>4. CASE ResumeBoundParent
  <2>1. /\ tree.intent.stage = "bound" /\ nv = None /\ parent /\ step' = "seal" /\ pc = "down"
        /\ UNCHANGED <<observed, proposal>>
    <3>1. Phase = "parent_bound_proposal_absent" => tree.intent.stage = "bound" /\ nv = None /\ parent
      BY ZenonT(30), EFacts, TreeFields DEF Phase, Stage
    <3>2. QED
      BY <1>4, <3>1 DEF ResumeBoundParent, Step
  <2>2. BootstrapInv'
    BY <1>1, <2>1, EFacts DEF BootstrapInv, Preparing, Sealing
  <2>3. RestTypeOK'
    BY <1>1, <2>1, EFacts DEF RestTypeOK
  <2>4. QED
    BY <1>1, <1>2, <2>1, <2>2, <2>3, EFacts, Assembled DEF Sealing
<1>5. CASE Stop
  <2>1. step' = "idle" /\ proposal' = None /\ UNCHANGED observed
    BY <1>5 DEF Stop
  <2>2. BootstrapInv'
    BY <2>1 DEF BootstrapInv, Preparing, Sealing
  <2>3. RestTypeOK'
    BY <1>1, <2>1, EFacts DEF RestTypeOK
  <2>4. QED
    BY <1>1, <1>2, <2>1, <2>2, <2>3, EFacts, Assembled
<1>6. QED
  BY <1>3, <1>4, <1>5

\* The journal extends the TPM only after a sync of the published directory.
LEMMA JournalKeeps == ASSUME EInv, JournalStep PROVE EInv'
<1>1. /\ UNCHANGED <<tree, parent, nv, extended, parentWrites, step, proposal, observed, attempts,
                     secrets, reported>>
      /\ step = "idle" /\ nv # None /\ tree.final = nv /\ extended
      /\ trees' = trees \/ trees' = {tree}
  BY DEF JournalStep, Installed, handles
<1>2. /\ pc' = "dispatch" => trees' = {tree}
      /\ tpm' # tpm => pc = "dispatch"
  BY ZenonT(30) DEF JournalStep, Open, Prepare, SyncProposal, Dispatch, Publish, Acknowledge, AppendFails, Inspect,
         Recover, Recovered, Exit
<1>3. \A d \in trees' : d \in trees /\ (tpm' # tpm => d.final = nv)
  BY <1>1, <1>2, EFacts DEF EInv, LastingInv
<1>4. EnrollmentIsRecoverable'
  BY <1>1, <1>3 DEF EInv, EnrollmentIsRecoverable
<1>5. LastingInv'
  BY <1>1, <1>2, <1>3 DEF EInv, LastingInv
<1>6. BootstrapInv'
  BY <1>1 DEF BootstrapInv, Preparing, Sealing
<1>7. tree' \in Tree /\ trees' \subseteq Tree /\ tree' \in trees' /\ RestTypeOK'
  BY <1>1, EFacts DEF RestTypeOK
<1>8. QED
  BY <1>1, <1>4, <1>5, <1>6, <1>7, EFacts, Assembled

LEMMA LosePowerStep == ASSUME EInv, LosePower PROVE EInv'
<1>1. /\ tree' \in trees /\ trees' = {tree'} /\ step' = "idle" /\ proposal' = None /\ pc' = "down"
      /\ observed' \in {None, observed}
      /\ UNCHANGED <<parent, nv, extended, parentWrites, attempts, secrets, reported, tpm>>
  BY DEF LosePower, PowerLoss, handles
<1>2. EnrollmentIsRecoverable'
  BY <1>1 DEF EInv, EnrollmentIsRecoverable
<1>3. LastingInv' /\ BootstrapInv'
  BY <1>1 DEF EInv, LastingInv, BootstrapInv, Preparing, Sealing
<1>4. tree' \in Tree /\ trees' \subseteq Tree /\ tree' \in trees' /\ RestTypeOK'
  BY <1>1, EFacts DEF RestTypeOK
<1>5. QED
  BY <1>1, <1>2, <1>3, <1>4, EFacts, Assembled

LEMMA CheckpointInitInv == CheckpointInit => IInv /\ EInv
<1> SUFFICES ASSUME CheckpointInit PROVE IInv /\ EInv
  OBVIOUS
<1>1. IInv
  BY InitInv DEF CheckpointInit
<1>2. tree \in Tree /\ tree.intent.stage = "absent" /\ tree.final = Absent
  BY EnrollmentAssumption DEF CheckpointInit, EnrollmentInit, Tree, Intent, Stage, Retained
<1>3. EnrollmentTypeOK
  <2>1. /\ trees = {tree} /\ parent = FALSE /\ nv = None /\ extended = FALSE /\ step = "idle" /\ proposal = None
        /\ observed = None /\ attempts = 0 /\ secrets = 0 /\ parentWrites = 0 /\ reported = FALSE
    BY DEF CheckpointInit, EnrollmentInit
  <2>2. 0 \in 0 .. MaxAttempts /\ 0 \in 0 .. MaxSecrets /\ 0 \in Nat
    BY EnrollmentAssumption
  <2>3. RestTypeOK
    BY ZenonT(30), <2>1, <2>2 DEF RestTypeOK
  <2>4. QED
    BY ZenonT(30), <1>2, <2>1, <2>3 DEF EnrollmentTypeOK, RestTypeOK
<1>4. EnrollmentIsRecoverable /\ BootstrapInv /\ LastingInv
  BY <1>2 DEF CheckpointInit, EnrollmentInit, Init, EnrollmentIsRecoverable, BootstrapInv, LastingInv,
              Preparing, Sealing
<1>5. QED
  BY <1>1, <1>3, <1>4 DEF EInv

LEMMA CheckpointStepInv == IInv /\ EInv /\ [CheckpointNext]_<<vars, enrollmentVars>> => (IInv /\ EInv)'
<1> SUFFICES ASSUME IInv, EInv, [CheckpointNext]_<<vars, enrollmentVars>> PROVE IInv' /\ EInv'
  OBVIOUS
<1>1. [Next]_vars
  BY DEF CheckpointNext, JournalStep, LosePower, Next
<1>2. IInv'
  BY <1>1, StepInv
<1>3. CASE Bootstrap /\ UNCHANGED vars
  BY <1>2, <1>3, EnrollStep, SyncedStep, IntentStep, AllocateParentStep, SealStep, PendingStep,
     DefineIndexStep, ExtendGenesisStep,
     PublishProposalStep, ReportStep, ReviewStep, ReconcilePendingStep DEF Bootstrap
<1>4. CASE JournalStep \/ LosePower
  BY <1>2, <1>4, JournalKeeps, LosePowerStep
<1>5. CASE UNCHANGED <<vars, enrollmentVars>>
  <2>1. /\ UNCHANGED <<tree, trees, nv, extended, parent, parentWrites, attempts, secrets, reported, pc, tpm, step,
                       proposal, observed>>
    BY <1>5 DEF vars, enrollmentVars
  <2>2. EnrollmentTypeOK' /\ EnrollmentIsRecoverable'
    BY ZenonT(30), <2>1 DEF EInv, EnrollmentTypeOK, EnrollmentIsRecoverable
  <2>3. BootstrapInv' /\ LastingInv'
    BY <2>1 DEF EInv, BootstrapInv, LastingInv
  <2>4. QED
    BY <1>2, <2>2, <2>3 DEF EInv
<1>6. QED
  BY <1>2, <1>3, <1>4, <1>5 DEF CheckpointNext

\* The bootstrap and the journal under one lock keep both invariants.
THEOREM CheckpointInvariance == CheckpointSpec => [](IInv /\ EInv)
  BY CheckpointInitInv, CheckpointStepInv, PTL DEF CheckpointSpec

\* enroll defines, extends and publishes, resume_bound_parent and reconcile_pending continue, and a
\* power loss at any instant leaves what reconcile_pending accepts, what is already published for good, or a
\* proposal whose index was never extended and that is never published.
THEOREM EnrollmentIsRecoverableHolds == CheckpointSpec => []EnrollmentIsRecoverable
<1>1. IInv /\ EInv => EnrollmentIsRecoverable
  BY DEF EInv
<1>2. QED
  BY <1>1, CheckpointInvariance, PTL

\* The journal keeps its promise when the directory it lives in is itself being enrolled.
THEOREM EnrolledJournalIsRecoverable == CheckpointSpec => []CommittedIsRecoverable
<1>1. IInv /\ EInv => CommittedIsRecoverable
  BY DEF IInv
<1>2. QED
  BY <1>1, CheckpointInvariance, PTL
=============================================================================
