------------------------- MODULE ResourceEnrollment -------------------------
(***************************************************************************)
(* resource_checkpoint.rs, the ResourceDevice of tpm.rs and the enrollment *)
(* arms of resources/checkpoint.rs: how the resource ledger gets its own   *)
(* TPM authority.  A paired genesis is staged first; then an intent, the   *)
(* Name of a transient parent and a dispatch fence are written before the  *)
(* one persistent allocation, and a sealed secret and a second fence       *)
(* before the one NV allocation; the sealed directory is published by a    *)
(* rename and the genesis confirmed by head.json.  A lost TPM reply is     *)
(* never answered by sending the command again.                            *)
(*                                                                         *)
(* One ceremony runs at a time (ledger.lock and the authority lock), and   *)
(* may be stopped at any of its authorization checks.  A directory change  *)
(* is visible at once and durable, in order, after any later sync.  No     *)
(* ledger is opened before the enrollment, so its closure is constant and  *)
(* there is one genesis; the parent's Name is fixed by the owner seed.     *)
(***************************************************************************)
EXTENDS Naturals, FiniteSets

CONSTANTS
    MaxSecrets,  \* bound: NV secrets generated
    MaxAdvance,  \* bound: heads the anchor is advanced to after the genesis
    Torn         \* a file created and not yet written and synced

VARIABLES
    file,      \* the files of the two directories
    place,     \* .enrollment-prepared: "absent", "prepared", or renamed to "sealed"
    disks,     \* the <<file, place>> a power loss can leave
    parent,    \* whether the persistent parent is allocated
    nv,        \* the NV index: the secret it was defined with (0: undefined) and its extends
    at,        \* the step of the running ceremony
    secret,    \* the secret the ceremony has generated
    anchor     \* an open ResourceAnchor: "closed", "live" or "poisoned"

enrollVars == <<file, place, disks, parent, nv, at, secret, anchor>>

Absent == 0
Written == 1
\* paired/prepared.json and paired/head.json, the parent records, the sealed directory's files.
Name == {"pair", "head", "intent", "name", "dispatched", "reconciled", "config", "cred", "marker"}

EnrollTypeOK ==
    /\ file \in [Name -> 0 .. MaxSecrets \cup {Torn}]
    /\ place \in {"absent", "prepared", "sealed"}
    /\ <<file, place>> \in disks
    /\ parent \in BOOLEAN
    /\ nv \in [secret : 0 .. MaxSecrets, head : 0 .. MaxAdvance + 1]
    /\ secret \in 0 .. MaxSecrets
    /\ anchor \in {"closed", "live", "poisoned"}

EnrollInit ==
    /\ file = [f \in Name |-> Absent] /\ place = "absent"
    /\ disks = {<<file, place>>}
    /\ parent = FALSE /\ nv = [secret |-> 0, head |-> 0]
    /\ at = "idle" /\ secret = 0 /\ anchor = "closed"
-----------------------------------------------------------------------------
\* ResourceLock and ledger.lock: one ceremony or one anchor at a time.
Idle == at = "idle" /\ anchor = "closed"

(* Files *)

Change(f, p) == file' = f /\ place' = p /\ disks' = disks \cup {<<f, p>>}
Synced(f, p) == file' = f /\ place' = p /\ disks' = {<<f, p>>}

\* write_new and create: the file is made with create_new, written, and synced with its directory.
Write(f, value) ==
    \/ file[f] = Absent /\ Change([file EXCEPT ![f] = Torn], place) /\ at' = at
    \/ file[f] = Torn /\ Synced([file EXCEPT ![f] = value], place)

Whole(f) == file[f] \notin {Absent, Torn}

\* A step of the ceremony that writes a file, and the step that follows it.
WriteStep(f, value, next) ==
    /\ at = f
    /\ Write(f, value) /\ (file[f] = Torn => at' = next)
    /\ UNCHANGED <<parent, nv, secret, anchor>>

Goto(step) == at' = step /\ UNCHANGED <<file, place, disks>>
-----------------------------------------------------------------------------
(* resource-checkpoint-prepare *)

\* prepare_genesis makes the paired directory, which must not exist, and stages the closure.
PrepareGenesis ==
    /\ Idle
    /\ file["pair"] = Absent /\ file["head"] = Absent /\ place # "sealed"
    /\ Goto("pair")
    /\ UNCHANGED <<parent, nv, secret, anchor>>

WritePair == WriteStep("pair", Written, "idle")

\* prepared_genesis
PreparedGenesis == file["pair"] = Written

(* resource-checkpoint-enroll *)

\* Provisioner::from_device: nothing of an earlier enrollment, and both handles are free.
Vacant ==
    /\ \A f \in {"intent", "name", "dispatched", "reconciled"} : file[f] = Absent
    /\ place = "absent" /\ ~parent /\ nv.secret = 0

Enroll ==
    /\ Idle
    /\ PreparedGenesis /\ Vacant
    /\ secret < MaxSecrets /\ secret' = secret + 1
    /\ Goto("intent")
    /\ UNCHANGED <<parent, nv, anchor>>

\* prepare: the intent; the Name of the transient primary; the dispatch fence.
WriteIntent == WriteStep("intent", Written, "name")
WriteName == WriteStep("name", Written, "dispatched")
WriteDispatched == WriteStep("dispatched", Written, "persist")

\* Mutation of PersistParent: the parent is persisted as soon as its Name is known.
PersistParent_Undispatched ==
    /\ at \in {"name", "persist"} /\ ~parent
    /\ parent' = TRUE
    /\ at' = IF at = "name" THEN at ELSE "seal"
    /\ UNCHANGED <<file, place, disks, nv, secret, anchor>>

\* persist_parent: EvictControl, refused when the handle is occupied.
PersistParent ==
    /\ at = "persist" /\ Whole("name") /\ Whole("dispatched") /\ ~parent
    /\ parent' = TRUE
    /\ Goto("seal")
    /\ UNCHANGED <<nv, secret, anchor>>

\* prepare_sealed: the secret is sealed under the parent and unsealed again, then the
\* directory is made and its parent synced.
PrepareSealed ==
    /\ at = "seal" /\ parent /\ nv.secret = 0 /\ place = "absent"
    /\ Change(file, "prepared") /\ at' = at
    /\ UNCHANGED <<parent, nv, secret, anchor>>

SyncPrepared ==
    /\ at = "seal" /\ place = "prepared"
    /\ Synced(file, place) /\ at' = "config"
    /\ UNCHANGED <<parent, nv, secret, anchor>>

WriteConfig == WriteStep("config", secret, "cred")
WriteCredential == WriteStep("cred", secret, "marker")
-----------------------------------------------------------------------------
(* PreparedEnrollment::commit *)

\* recheck: the intent and the sealed proposal are still what the ceremony wrote.
Recheck == Whole("intent") /\ file["config"] = secret /\ file["cred"] = secret

\* The one-shot fence of the NV write.
WriteMarker == Recheck /\ WriteStep("marker", Written, "provision")

\* provision: DefineSpace, refused when the index is occupied, and then the genesis extend.
DefineIndex ==
    /\ at = "provision" /\ Recheck /\ nv.secret = 0
    /\ nv' = [nv EXCEPT !.secret = secret]
    /\ Goto("extend")
    /\ UNCHANGED <<parent, secret, anchor>>

ExtendGenesis ==
    /\ at = "extend"
    /\ nv' = [nv EXCEPT !.head = 1]
    /\ Goto("publish")
    /\ UNCHANGED <<parent, secret, anchor>>

\* publish_sealed: the rename that replaces nothing, and the sync of its directory.
PublishSealed ==
    /\ at = "publish" /\ place = "prepared" /\ Whole("config") /\ Whole("cred")
    /\ Change(file, "sealed") /\ at' = "published"
    /\ UNCHANGED <<parent, nv, secret, anchor>>

SyncSealed ==
    /\ at = "published"
    /\ Synced(file, place) /\ at' = "head"
    /\ UNCHANGED <<parent, nv, secret, anchor>>

\* complete_genesis: head.json is created, and prepared.json removed.
ConfirmHead == PreparedGenesis /\ WriteStep("head", Written, "unprepare")

RemovePair ==
    /\ at = "unprepare"
    /\ \/ file["pair"] # Absent /\ Change([file EXCEPT !["pair"] = Absent], place) /\ at' = at
       \/ file["pair"] = Absent /\ Synced(file, place) /\ at' = "idle"
    /\ UNCHANGED <<parent, nv, secret, anchor>>
-----------------------------------------------------------------------------
(* What an interrupted ceremony left is continued against a review of it *)

\* ParentPending: the allocation took place and nothing was sealed after it.
ParentPending ==
    /\ place = "absent" /\ file["reconciled"] = Absent
    /\ Whole("intent") /\ Whole("name") /\ Whole("dispatched")
    /\ parent /\ nv.secret = 0

ContinueParent ==
    /\ Idle /\ PreparedGenesis /\ ParentPending
    /\ secret < MaxSecrets /\ secret' = secret + 1
    /\ Goto("reconciled")
    /\ UNCHANGED <<parent, nv, anchor>>

WriteReconciled == WriteStep("reconciled", Written, "seal")

\* load: the credential is the configured one, and the parent unseals it.
Loaded == Whole("config") /\ file["config"] = file["cred"] /\ parent

\* connect: the unsealed secret reads the index, which holds a value.
Opens == Loaded /\ nv.secret = file["cred"] /\ nv.head > 0

\* PendingPublication: the genesis is in the index and the directory was not renamed.
PendingPublication ==
    /\ place = "prepared" /\ Whole("intent") /\ Whole("marker")
    /\ Opens /\ nv.head = 1

FinalizePending ==
    /\ Idle /\ PreparedGenesis /\ PendingPublication
    /\ Goto("publish")
    /\ UNCHANGED <<parent, nv, secret, anchor>>

\* Authority::recover on the genesis: head.json is replaced and prepared.json removed.
RecoverGenesis ==
    /\ Idle
    /\ place = "sealed" /\ Opens /\ nv.head = 1
    /\ Synced([file EXCEPT !["head"] = Written], place) /\ at' = "unprepare"
    /\ UNCHANGED <<parent, nv, secret, anchor>>
-----------------------------------------------------------------------------
(* The enrolled anchor *)

\* ResourceAnchor::installed, and Authority::open on the pair it protects.
OpenAnchor ==
    /\ Idle
    /\ place = "sealed" /\ Opens
    /\ Whole("head") /\ file["pair"] = Absent
    /\ anchor' = "live"
    /\ UNCHANGED <<file, place, disks, parent, nv, at, secret>>

\* advance fences the writer before the extend.
AdvanceFence ==
    /\ anchor = "live" /\ nv.head <= MaxAdvance
    /\ anchor' = "poisoned"
    /\ UNCHANGED <<file, place, disks, parent, nv, at, secret>>

AdvanceExtend ==
    /\ anchor = "poisoned" /\ nv.head <= MaxAdvance
    /\ nv' = [nv EXCEPT !.head = @ + 1]
    /\ anchor' \in {"live", "poisoned"}
    /\ UNCHANGED <<file, place, disks, parent, at, secret>>

CloseAnchor ==
    /\ anchor # "closed" /\ anchor' = "closed"
    /\ UNCHANGED <<file, place, disks, parent, nv, at, secret>>

\* A withdrawn authorization, a changed boot input, an error, or a lost TPM reply.
Stop ==
    /\ at # "idle" /\ Goto("idle")
    /\ UNCHANGED <<parent, nv, secret, anchor>>

PowerLoss ==
    /\ \E d \in disks : file' = d[1] /\ place' = d[2] /\ disks' = {d}
    /\ at' = "idle" /\ anchor' = "closed"
    /\ UNCHANGED <<parent, nv, secret>>

EnrollNext ==
    \/ PrepareGenesis \/ WritePair
    \/ Enroll \/ WriteIntent \/ WriteName \/ WriteDispatched \/ PersistParent
    \/ PrepareSealed \/ SyncPrepared \/ WriteConfig \/ WriteCredential
    \/ WriteMarker \/ DefineIndex \/ ExtendGenesis \/ PublishSealed \/ SyncSealed
    \/ ConfirmHead \/ RemovePair
    \/ ContinueParent \/ WriteReconciled \/ FinalizePending \/ RecoverGenesis
    \/ OpenAnchor \/ AdvanceFence \/ AdvanceExtend \/ CloseAnchor
    \/ Stop \/ PowerLoss

EnrollSpec == EnrollInit /\ [][EnrollNext]_enrollVars
-----------------------------------------------------------------------------
\* Every write the TPM has executed is accounted for on whatever disk a power loss leaves.
\* An allocated parent has its intent, its Name and its dispatch fence; a defined index has
\* its whole sealed proposal and marker, with the only copy of its secret; an extended one
\* has the genesis it was extended with, as a preparation or as the head; and no head is
\* extended past the genesis unless the sealed directory and head.json can no longer be lost.
TpmIsAccountedFor ==
    \A d \in disks :
        LET has(f) == d[1][f] \notin {Absent, Torn} IN
        /\ parent => has("intent") /\ has("name") /\ has("dispatched")
        /\ nv.secret > 0 =>
              /\ parent /\ d[2] # "absent" /\ has("marker")
              /\ d[1]["config"] = nv.secret /\ d[1]["cred"] = nv.secret
        /\ nv.head > 0 => has("pair") \/ has("head")
        /\ nv.head > 1 => d[2] = "sealed" /\ has("head")
=============================================================================
