---------------------------- MODULE AdminJournal ----------------------------
(***************************************************************************)
(* admin_journal.rs and the LocalAnchor of tpm.rs: the Admin audit journal *)
(* on disk, the proposal file next to it, and the NV-extend checkpoint in  *)
(* the TPM that authenticates them.                                        *)
(*                                                                         *)
(* The TPM head is a hash chain over the genesis and the entries in their  *)
(* positions, and is identified with the sequence of entries extended so   *)
(* far.  The anchor lock admits one process at a time, so there is one     *)
(* program counter; a process that dies gives the lock back.  A rename is  *)
(* visible at once and durable only after the directory sync: possible     *)
(* holds every directory state that a power loss could leave behind.       *)
(***************************************************************************)
EXTENDS Naturals, Sequences

CONSTANTS
    RequestId,
    Payload,      \* what an entry says, digest included
    MaxEvents,    \* MAX_EVENTS
    None

Entry == [id : RequestId, payload : Payload]

ASSUME JournalAssumption == MaxEvents \in Nat /\ None \notin Seq(Entry) /\ None \notin Entry

VARIABLES
    visible,      \* journal.json and journal.pending.json as a reader finds them
    possible,     \* the directory states a power loss can leave
    tpm,          \* the entries extended into the NV index after the genesis
    pc,           \* where the process that holds the lock is
    known,        \* Store.journal, the entries the process has verified
    entry,        \* the entry it is appending
    review,       \* the publication an operator has reviewed
    acknowledged  \* entries whose append has returned Ok

vars == <<visible, possible, tpm, pc, known, entry, review, acknowledged>>
disk == <<visible, possible>>

Directory == [journal : Seq(Entry), pending : Seq(Entry) \cup {None}]

TypeOK ==
    /\ visible \in Directory
    /\ possible \subseteq Directory /\ visible \in possible
    /\ tpm \in Seq(Entry)
    /\ pc \in {"down", "open", "sync_proposal", "dispatch", "publish", "sync_journal",
               "sync_recovered"}
    /\ known \in Seq(Entry)
    /\ entry \in Entry \cup {None}
    /\ review \in Directory \cup {None}
    /\ acknowledged \subseteq Entry

Genesis == [journal |-> <<>>, pending |-> None]

\* The enrollment published an empty journal and extended the genesis.
Init ==
    /\ visible = Genesis
    /\ possible = {visible}
    /\ tpm = <<>>
    /\ pc = "down" /\ known = <<>> /\ entry = None
    /\ review = None
    /\ acknowledged = {}
-----------------------------------------------------------------------------
Ids(log) == {log[i].id : i \in DOMAIN log}

Rename(directory) ==
    /\ visible' = directory
    /\ possible' = possible \cup {directory}

SyncDirectory == possible' = {visible} /\ UNCHANGED visible

\* Store::status: the disk, the process and the TPM agree and no proposal is pending.
Current == visible = [journal |-> known, pending |-> None] /\ tpm = known

\* Store::open
Open ==
    /\ pc = "down"
    /\ visible.pending = None /\ tpm = visible.journal
    /\ pc' = "open" /\ known' = visible.journal
    /\ UNCHANGED <<disk, tpm, entry, review, acknowledged>>

\* append, up to the rename inside write_atomic that makes the proposal visible.  It may
\* also be refused by the authorizing service, which changes nothing.
Prepare(e) ==
    /\ pc = "open" /\ Current
    /\ e.id \notin Ids(known)
    /\ Len(known) < MaxEvents
    /\ Rename([journal |-> known, pending |-> Append(known, e)])
    /\ pc' = "sync_proposal" /\ entry' = e
    /\ UNCHANGED <<tpm, known, review, acknowledged>>

\* Mutation of SyncProposal: the rename of the proposal is not made durable.
SyncProposal_Unsynced ==
    /\ pc = "sync_proposal"
    /\ pc' = "dispatch"
    /\ UNCHANGED <<disk, tpm, known, entry, review, acknowledged>>

\* The directory sync that ends write_atomic.
SyncProposal ==
    /\ pc = "sync_proposal"
    /\ SyncDirectory
    /\ pc' = "dispatch"
    /\ UNCHANGED <<tpm, known, entry, review, acknowledged>>

\* The authorizations are renewed, journal, proposal and TPM are read again, and advance
\* extends the TPM.  The reply may be lost, and then append returns an error.
Dispatch ==
    /\ pc = "dispatch"
    /\ visible = [journal |-> known, pending |-> Append(known, entry)] /\ tpm = known
    /\ tpm' = Append(tpm, entry)
    /\ \/ pc' = "publish" /\ UNCHANGED entry
       \/ pc' = "open" /\ entry' = None
    /\ UNCHANGED <<disk, known, review, acknowledged>>

\* The proposal, which is now committed, replaces the journal.
Publish ==
    /\ pc = "publish"
    /\ Rename([journal |-> visible.pending, pending |-> None])
    /\ pc' = "sync_journal"
    /\ UNCHANGED <<tpm, known, entry, review, acknowledged>>

\* The directory is synced, status holds for the new journal and append returns Ok.
Acknowledge ==
    /\ pc = "sync_journal"
    /\ SyncDirectory
    /\ known' = Append(known, entry)
    /\ acknowledged' = acknowledged \cup {entry}
    /\ pc' = "open" /\ entry' = None
    /\ UNCHANGED <<tpm, review>>

\* A refused authorization, an I/O error or a TPM that refuses: append returns an error and
\* keeps whatever it has written.
AppendFails ==
    /\ pc \in {"sync_proposal", "dispatch", "publish", "sync_journal"}
    /\ pc' = "open" /\ entry' = None
    /\ UNCHANGED <<disk, tpm, known, review, acknowledged>>
-----------------------------------------------------------------------------
\* publication: the proposal is an exact one-entry successor.  The TPM is read separately.
Successor(directory) ==
    /\ directory.pending # None
    /\ \E e \in Entry : directory.pending = Append(directory.journal, e)

Committed == Successor(visible) /\ tpm = visible.pending

\* reconcile without a digest prints the publication for review.
Inspect ==
    /\ pc = "down" /\ Committed
    /\ review' = visible
    /\ UNCHANGED <<disk, tpm, pc, known, entry, acknowledged>>

\* reconcile with the reviewed digest, up to the rename.
Recover ==
    /\ pc = "down" /\ Committed /\ review = visible
    /\ Rename([journal |-> visible.pending, pending |-> None])
    /\ pc' = "sync_recovered"
    /\ UNCHANGED <<tpm, known, entry, review, acknowledged>>

\* The directory sync, and Store::open on the result.
Recovered ==
    /\ pc = "sync_recovered"
    /\ SyncDirectory
    /\ tpm = visible.journal /\ visible.pending = None
    /\ pc' = "open" /\ known' = visible.journal
    /\ UNCHANGED <<tpm, entry, review, acknowledged>>
-----------------------------------------------------------------------------
\* The process ends, on purpose, by an error or by a crash, and the lock is free.
Exit ==
    /\ pc # "down"
    /\ pc' = "down" /\ known' = <<>> /\ entry' = None
    /\ UNCHANGED <<disk, tpm, review, acknowledged>>

PowerLoss ==
    /\ \E directory \in possible : visible' = directory
    /\ possible' = {visible'}
    /\ pc' = "down" /\ known' = <<>> /\ entry' = None
    /\ UNCHANGED <<tpm, review, acknowledged>>

Next ==
    \/ Open \/ (\E e \in Entry : Prepare(e)) \/ SyncProposal \/ Dispatch \/ Publish
    \/ Acknowledge \/ AppendFails
    \/ Inspect \/ Recover \/ Recovered
    \/ Exit \/ PowerLoss

Spec == Init /\ [][Next]_vars
-----------------------------------------------------------------------------
(* What the journal and the TPM guarantee together *)

\* Whenever the power fails, the disk holds every entry that the TPM has: as the journal, or
\* as a one-entry successor that reconcile can publish.  So no extension is ever orphaned.
CommittedIsRecoverable ==
    \A directory \in possible :
        \/ directory.journal = tpm /\ (directory.pending # None => Successor(directory))
        \/ Successor(directory) /\ directory.pending = tpm

\* An entry whose append returned Ok is in the journal whatever a power loss leaves.
AcknowledgedSurvives ==
    \A e \in acknowledged, directory \in possible :
        \E i \in DOMAIN directory.journal : directory.journal[i] = e

\* An uncertain write is never dispatched again: no request is extended into the TPM twice.
ExtendedOnce == \A i, j \in DOMAIN tpm : tpm[i].id = tpm[j].id => i = j
=============================================================================
