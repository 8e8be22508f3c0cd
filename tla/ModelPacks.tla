----------------------------- MODULE ModelPacks -----------------------------
(* How a model's bytes come to their final names: the download of the weights into a partial
   file, its verification and rename (model.rs fetch), the reconciliation of partials that
   earlier runs left, the import of the signed pack through a pending directory
   (model/pack_store.rs import_pack_from), the retention of an interrupted import, and the
   staging of the same bytes by the installer, once the system that it installed can boot
   (model/installer_staging.rs).

   The commands exclude each other by model.lock, which dies with the command.  The worker that
   downloads and imports is a unit of its own, admitted while no other runs (GrantedAcquisition),
   and outlives the command that asked for it; so does the transfer process, which inherits the
   lock on its partial.  There is one governed profile with one pack.

   `disk` is what the file system shows, `disks` what a power loss may leave of it: changes
   to directories become durable in their order, at the latest with the next sync.  A file that
   is complete but not synced ("Written") may then be torn. *)
EXTENDS Naturals, Sequences, FiniteSets

CONSTANTS Member,       \* the files of the pack
          Absent,
          MaxPartials,  \* bound: partial files at a time
          MaxRetained,  \* interrupted imports that may be kept
          MaxFaults     \* bound: deaths, failures and power losses

Partial == 1..MaxPartials
Bytes == {"Torn", "Bad", "Written", "Whole"}

VARIABLES disk, disks,
          locked,   \* the holders of the lock on each partial
          command,  \* the command that holds model.lock
          held,     \* the partials that a reconciliation has locked, by who reconciles
          worker, mine, curl,
          staging,  \* the installer's staging of the model, before the first boot
          reviewed, \* the last review of an interrupted import describes it as it is
          faults

packVars == <<disk, disks, locked, command, held, worker, mine, curl, staging, reviewed, faults>>

Holder == {"worker", "curl", "clean"}
None == 0

PacksTypeOK ==
    /\ \A d \in disks \cup {disk} :
         /\ d.model \in Bytes \cup {Absent} /\ d.partial \in [Partial -> Bytes \cup {Absent}]
         /\ d.pending \in [Member -> Bytes \cup {Absent}] \cup {Absent}
         /\ d.pack \in [Member -> Bytes \cup {Absent}] \cup {Absent}
         /\ d.retained \in 0..MaxRetained
         /\ d.identities \in BOOLEAN /\ d.receipt \in {Absent, "Torn", "pending", "verified"}
         /\ d.result \in {Absent, "Torn", "Whole"}
    /\ locked \in [Partial -> SUBSET Holder] /\ held \in [{"worker", "clean"} -> SUBSET Partial]
    /\ command \in {"none", "prepare", "clean"}
    /\ reviewed \in BOOLEAN
    /\ worker \in {"off", "start", "reconcile", "identities", "look", "created", "transfer", "sync", "verify",
                   "rename", "drop", "import", "copy", "check", "publish", "done",
                   "request", "recheck", "result"}
    /\ staging \in {"none", "planned", "receipt", "running", "dead", "over"}
    /\ mine \in Partial \cup {None} /\ curl \in Partial \cup {None} /\ faults \in 0..MaxFaults

Change(d) == disk' = d /\ disks' = disks \cup {d}
Synced(d) == disk' = d /\ disks' = {d}
Still == UNCHANGED <<disk, disks>>

Fault == faults < MaxFaults /\ faults' = faults + 1

PacksInit ==
    /\ disk = [model |-> Absent, partial |-> [p \in Partial |-> Absent], pending |-> Absent,
               pack |-> Absent, retained |-> 0, identities |-> FALSE, receipt |-> Absent,
               result |-> Absent]
    /\ disks = {disk} /\ locked = [p \in Partial |-> {}] /\ command = "none"
    /\ held = [w \in {"worker", "clean"} |-> {}]
    /\ worker = "off" /\ mine = None /\ curl = None /\ staging = "none" /\ reviewed = FALSE /\ faults = 0

Booted == staging = "over"
Go(pc) == worker' = pc
-----------------------------------------------------------------------------
(* Commands *)

\* pack_import and provision: the lock, drainage, and the unit's worker.
Prepare ==
    /\ Booted /\ command = "none" /\ worker = "off"
    /\ command' = "prepare" /\ Go("start")
    /\ UNCHANGED <<disk, disks, locked, held, mine, curl, staging, faults>>

\* The command ends: with its worker, or before it.
CommandEnds ==
    /\ command = "prepare"
    /\ \/ worker = "off" /\ UNCHANGED faults
       \/ Fault
    /\ command' = "none"
    /\ UNCHANGED <<disk, disks, locked, held, worker, mine, curl, staging>>

Linked == {p \in Partial : disk.partial[p] # Absent}

\* Every partial can be locked: none has a writer.
Reconcilable(w) == \A p \in Linked : locked[p] \subseteq {w}

\* reconcile_downloads, the inventory: every partial is locked, or nothing is done.
LockPartials(w) ==
    /\ held' = [held EXCEPT ![w] = Linked]
    /\ locked' = [p \in Partial |-> IF p \in Linked THEN locked[p] \cup {w} ELSE locked[p]]

\* and then removed.
RemovePartials(w) ==
    /\ held[w] \subseteq Linked
    /\ Synced([disk EXCEPT !.partial = [p \in Partial |-> IF p \in held[w] THEN Absent ELSE @[p]]])
    /\ locked' = [p \in Partial |-> locked[p] \ {w}] /\ held' = [held EXCEPT ![w] = {}]

\* clean
Clean ==
    /\ Booted /\ command = "none" /\ Reconcilable("clean")
    /\ command' = "clean" /\ LockPartials("clean")
    /\ Still /\ UNCHANGED <<worker, mine, curl, staging, faults>>

CleanEnds ==
    /\ command = "clean" /\ command' = "none"
    /\ \/ RemovePartials("clean")
       \/ /\ ~(held["clean"] \subseteq Linked) /\ Still
          /\ locked' = [p \in Partial |-> locked[p] \ {"clean"}]
          /\ held' = [held EXCEPT !["clean"] = {}]
    /\ UNCHANGED <<worker, mine, curl, staging, faults>>

\* The members that an interrupted import left, each with its size and identity.  Nothing may be
\* there that the manifest does not name, or that is longer than the manifest says.
pending_review(d) == IF d.pending = Absent THEN {} ELSE {<<m, d.pending[m]>> : m \in Member}

\* pack_pending_review: a person is shown it, and no worker is left that could change it.
pack_pending_review ==
    /\ Booted /\ command = "none" /\ worker = "off" /\ disk.pending # Absent
    /\ reviewed' = TRUE
    /\ Still /\ UNCHANGED <<locked, command, held, worker, mine, curl, staging, faults>>

\* retain_pending: what was reviewed, and has not changed since, is renamed while there is room.
retain_pending ==
    /\ disk.pending # Absent /\ reviewed /\ disk.retained < MaxRetained
    /\ Synced([disk EXCEPT !.pending = Absent, !.retained = @ + 1])

pack_pending_retain ==
    /\ Booted /\ command = "none" /\ worker = "off" /\ retain_pending
    /\ UNCHANGED <<locked, command, held, worker, mine, curl, staging, faults>>
-----------------------------------------------------------------------------
(* The worker: prepare_model_contents *)

Reconcile ==
    /\ worker = "start"
    /\ IF Reconcilable("worker") THEN LockPartials("worker") /\ Go("reconcile")
       ELSE Go("off") /\ UNCHANGED <<locked, held>>
    /\ Still /\ UNCHANGED <<command, mine, curl, staging, faults>>

Reconciled ==
    /\ worker = "reconcile"
    /\ \/ RemovePartials("worker") /\ Go("identities")
       \/ /\ ~(held["worker"] \subseteq Linked) /\ Still /\ Go("off")
          /\ locked' = [p \in Partial |-> locked[p] \ {"worker"}]
          /\ held' = [held EXCEPT !["worker"] = {}]
    /\ UNCHANGED <<command, mine, curl, staging, faults>>

\* The accounts of the model services are added to an older volume, each row by itself and once;
\* a row that conflicts with them, or another migration, is a refusal.
ensure_model_identities ==
    /\ worker = "identities"
    /\ \/ Go("look") /\ IF disk.identities THEN Still ELSE Synced([disk EXCEPT !.identities = TRUE])
       \/ Go("off") /\ ~disk.identities /\ Still
    /\ UNCHANGED <<locked, command, held, mine, curl, staging, faults>>

\* acquisition_admission: memory, processors or free space are too small for the profile.
acquisition_admission ==
    /\ Booted /\ worker = "look" /\ Go("off")
    /\ Still /\ UNCHANGED <<locked, command, held, mine, curl, staging, faults>>

\* layout::verify, after the digest: the metadata of these bytes is that of the profile's model.
verify(b) == b \in {"Written", "Whole"}

\* The weights are there, and verify; or they have to be fetched into a new partial.
Look ==
    /\ worker = "look"
    /\ IF disk.model = Absent
       THEN \E p \in Partial :
              /\ disk.partial[p] = Absent /\ locked[p] = {} /\ curl # p
              /\ Change([disk EXCEPT !.partial[p] = "Torn"]) /\ mine' = p /\ Go("created")
       ELSE /\ Go(IF verify(disk.model) THEN "import" ELSE "off")
            /\ Still /\ UNCHANGED mine
    /\ UNCHANGED <<locked, command, held, curl, staging, faults>>

\* fetch: the lock on the partial, which the transfer inherits.
LockMine ==
    /\ worker = "created"
    /\ IF locked[mine] = {}
       THEN /\ locked' = [locked EXCEPT ![mine] = {"worker", "curl"}]
            /\ curl' = mine /\ Go("transfer")
       ELSE Go("drop") /\ UNCHANGED <<locked, curl, staging>>
    /\ Still /\ UNCHANGED <<command, held, mine, staging, faults>>

\* The transfer goes on while its process lives; the partial may have lost its name.
Transfer ==
    /\ curl # None /\ disk.partial[curl] = "Torn"
    /\ \E b \in {"Written", "Bad"} : Change([disk EXCEPT !.partial[curl] = b])
    /\ UNCHANGED <<locked, command, held, worker, mine, curl, staging, faults>>

\* It ends by itself, or because the worker that it belongs to has gone.
CurlEnds ==
    /\ curl # None
    /\ \/ disk.partial[curl] # "Torn" \/ worker # "transfer" \/ mine # curl
    /\ locked' = [locked EXCEPT ![curl] = @ \ {"curl"}] /\ curl' = None
    /\ worker' = IF worker = "transfer" /\ mine = curl THEN "sync" ELSE worker
    /\ Still /\ UNCHANGED <<command, held, mine, staging, faults>>

\* The supervised transfer fails, by a fence, its deadline or the network, and is killed.
TransferFails ==
    /\ worker = "transfer" /\ Fault /\ Go("drop") /\ Still
    /\ locked' = [locked EXCEPT ![mine] = @ \ {"curl"}] /\ curl' = None
    /\ UNCHANGED <<command, held, mine, staging>>

\* Mutant: the bytes are not synced before they are given their name.
Sync_None ==
    /\ worker = "sync" /\ Go("verify") /\ Still
    /\ UNCHANGED <<locked, command, held, mine, curl, staging, faults>>

Sync ==
    /\ worker = "sync" /\ Go("verify")
    /\ IF disk.partial[mine] = "Written" THEN Change([disk EXCEPT !.partial[mine] = "Whole"])
       ELSE Still
    /\ UNCHANGED <<locked, command, held, mine, curl, staging, faults>>

\* verified_runtime_file, of the bytes that are now under the partial's name.
verified_runtime_file ==
    /\ worker = "verify"
    /\ Go(IF verify(disk.partial[mine]) THEN "rename" ELSE "drop")
    /\ Still /\ UNCHANGED <<locked, command, held, mine, curl, staging, faults>>

\* The partial gets the model's name.
Rename ==
    /\ worker = "rename"
    /\ IF disk.partial[mine] = Absent THEN Still /\ Go("drop") /\ UNCHANGED <<locked, mine>>
       ELSE /\ Synced([disk EXCEPT !.model = disk.partial[mine], !.partial[mine] = Absent])
            /\ locked' = [locked EXCEPT ![mine] = @ \ {"worker"}]
            /\ Go("import") /\ mine' = None
    /\ UNCHANGED <<command, held, curl, staging, faults>>

\* Temporary::drop: the partial is removed if no other process holds it.
TemporaryDrop ==
    /\ worker = "drop" /\ Go("off") /\ mine' = None
    /\ locked' = [locked EXCEPT ![mine] = @ \ {"worker"}]
    /\ IF disk.partial[mine] # Absent /\ locked[mine] \subseteq {"worker"}
       THEN Synced([disk EXCEPT !.partial[mine] = Absent]) ELSE Still
    /\ UNCHANGED <<command, held, curl, staging, faults>>
-----------------------------------------------------------------------------
(* import_pack_from *)

Complete(d) == \A m \in Member : verify(d[m])

\* A pack that is there is only verified; an interrupted import is preserved.
ImportBegin ==
    /\ worker = "import"
    /\ IF disk.pack = Absent /\ disk.pending = Absent
       THEN Synced([disk EXCEPT !.pending = [m \in Member |-> Absent]]) /\ Go("copy")
       ELSE Still /\ Go(IF disk.pack # Absent /\ Complete(disk.pack) THEN "done" ELSE "off")
    /\ UNCHANGED <<locked, command, held, mine, curl, staging, faults>>

\* copy: the member is created, filled and synced, and read again.
CopyBegin(m) ==
    /\ worker = "copy" /\ disk.pending[m] = Absent /\ \A k \in Member : disk.pending[k] # "Torn"
    /\ Change([disk EXCEPT !.pending[m] = "Torn"])
    /\ UNCHANGED <<locked, command, held, worker, mine, curl, staging, faults>>

CopyEnd(m) ==
    /\ worker = "copy" /\ disk.pending[m] = "Torn"
    /\ Synced([disk EXCEPT !.pending[m] = "Whole"])
    /\ Go(IF \A k \in Member \ {m} : disk.pending[k] # Absent THEN "check" ELSE "copy")
    /\ UNCHANGED <<locked, command, held, mine, curl, staging, faults>>

\* verify_pack, and the witness that is taken before the last check and compared after it.
ImportCheck ==
    /\ worker = "check" /\ Go(IF Complete(disk.pending) THEN "publish" ELSE "off")
    /\ Still /\ UNCHANGED <<locked, command, held, mine, curl, staging, faults>>

Publish ==
    /\ worker = "publish" /\ disk.pack = Absent
    /\ Synced([disk EXCEPT !.pack = disk.pending, !.pending = Absent]) /\ Go("done")
    /\ UNCHANGED <<locked, command, held, mine, curl, staging, faults>>

Done ==
    /\ worker = "done" /\ Go(IF Booted THEN "off" ELSE "recheck")
    /\ Still /\ UNCHANGED <<locked, command, held, mine, curl, staging, faults>>

-----------------------------------------------------------------------------
(* Staging by the installer *)

\* The signatures of the target image authenticate the pack that was asked for, or do not.
provenance == BOOLEAN

\* The compiled catalog, in MiB: what the weights take, and the limit of the worker's memory.
legacy_catalog ==
    [q4 |-> [weights |-> 2382, memory |-> 4608, context |-> 2048, layers |-> 36,
             kv_heads |-> 8, key_width |-> 128, value_width |-> 128],
     q1 |-> [weights |-> 1057, memory |-> 2560, context |-> 2048, layers |-> 28,
             kv_heads |-> 8, key_width |-> 128, value_width |-> 128]]

MiB == 1048576
RESERVE == 2048

round_up(bytes, alignment) == ((bytes + alignment - 1) \div alignment) * alignment

\* Inventory::for_profile: the keys and values of every layer for the whole context, of two bytes
\* each, and what is left for the runtime when they and the weights are in memory.
for_profile(n) ==
    LET cells == round_up(n.context, 256)
        tensor(width) == round_up(n.kv_heads * width * cells * 2, 32)
        kv == round_up((tensor(n.key_width) + tensor(n.value_width)) * n.layers, MiB) \div MiB
    IN  n.memory - (n.weights + kv)

\* What a signed profile may claim of the model with that name; a certified model is one that was
\* verified and tested, and every reservation fits the smallest machine.
ModelProfile ==
    {p \in [id : {"q4", "q1", "other"}, weights : {1057, 2382}, memory : {1024, 2560, 4608},
            ram : {4000, 6000}, context : {2048, 4096}, peak : {2000, 4500},
            certified : BOOLEAN, tested : BOOLEAN] :
        /\ p.memory <= p.ram /\ p.peak >= p.weights
        /\ p.certified => p.tested}

\* PackManifest::validate, of the roles of the blobs in their order, of the shard numbers that the
\* model's blobs carry, of the license files and of the space the installation claims.
PackManifest ==
    {m \in [blobs : {<<"model", "tokenizer", "template", "license">>,
                     <<"model", "model", "tokenizer", "template", "license">>,
                     <<"model", "tokenizer", "tokenizer", "template", "license">>,
                     <<"tokenizer", "template", "license">>},
            shards : {<<>>, <<0>>, <<0, 1>>, <<1, 0>>}, licenses : 0..1,
            size : {1057, 2382}, storage : {2000}] :
        LET Of(role) == {i \in DOMAIN m.blobs : m.blobs[i] = role}
        IN  /\ Of("model") # {} /\ m.shards = [i \in 1..Cardinality(Of("model")) |-> i - 1]
            /\ Cardinality(Of("tokenizer")) = 1 /\ Cardinality(Of("template")) = 1
            /\ Cardinality(Of("license")) = m.licenses /\ m.storage >= m.size}

\* native_profile: the profile is for weights that the build knows, in one file, understates
\* nothing, and what it reserves is enough.
native_profile(p, m) ==
    /\ p.id \in DOMAIN legacy_catalog
    /\ LET native == legacy_catalog[p.id]
       IN  /\ p.weights = native.weights /\ p.context = native.context
           /\ Len(m.shards) = 1 /\ m.size = native.weights
           /\ p.peak >= m.size + native.weights + RESERVE /\ p.memory < p.ram
           /\ p.memory >= native.memory /\ for_profile([native EXCEPT !.memory = p.memory]) > 0

\* A plan is what the image's catalog, trust and manifest say of one model.
capture ==
    {IF authentic /\ native_profile(p, m) THEN "planned" ELSE "over" :
        authentic \in provenance, p \in ModelProfile, m \in PackManifest}

\* The machine has room for the planned model, or nothing is staged.
select ==
    /\ staging = "none" /\ \E plan \in capture \cup {"over"} : staging' = plan
    /\ Still /\ UNCHANGED <<locked, command, held, worker, mine, curl, faults>>

\* run, to its receipt: the target is in manual mode, no other unit or owner, the same plan.
StageBegin ==
    /\ staging = "planned"
    /\ \/ Change([disk EXCEPT !.receipt = "Torn"]) /\ staging' = "receipt"
       \/ Still /\ staging' = "over"
    /\ UNCHANGED <<locked, command, held, worker, mine, curl, faults>>

\* publish_once of the pending receipt; then the unit.
StageLaunch ==
    /\ staging = "receipt" /\ staging' = "running" /\ Go("request")
    /\ Synced([disk EXCEPT !.receipt = "pending"])
    /\ UNCHANGED <<locked, command, held, mine, curl, faults>>

\* The installer lives and holds its claim on the disk and on the mounts of its target.
Claimed == staging = "running"

\* worker: the job that it was given is that of a live installer, and the plan is the same.
StageRequest ==
    /\ worker = "request" /\ \E pc \in {"look", "off"} : Go(pc)
    /\ Still /\ UNCHANGED <<locked, command, held, mine, curl, staging, faults>>

\* Weights and pack are there: the weights are verified once more, and the result published.
StageRecheck ==
    /\ worker = "recheck"
    /\ IF verify(disk.model)
       THEN Change([disk EXCEPT !.result = "Torn"]) /\ Go("result")
       ELSE Still /\ Go("off")
    /\ UNCHANGED <<locked, command, held, mine, curl, staging, faults>>

StageResult ==
    /\ worker = "result" /\ Go("off") /\ Synced([disk EXCEPT !.result = "Whole"])
    /\ UNCHANGED <<locked, command, held, mine, curl, staging, faults>>

\* job_check: the installer no longer lives, or no longer holds its disk; the worker gives up.
job_check ==
    /\ staging = "dead" /\ worker \notin {"off", "drop"}
    /\ Go(IF mine = None THEN "off" ELSE "drop")
    /\ curl' = None /\ locked' = [p \in Partial |-> locked[p] \ {"curl"}]
    /\ Still /\ UNCHANGED <<command, held, mine, staging, faults>>

\* The unit has ended and its group is empty: only an exact result makes the receipt a verified one.
StageReceipt ==
    /\ Claimed /\ worker = "off" /\ curl = None /\ staging' = "over"
    /\ IF disk.result = "Whole" /\ disk.receipt = "pending"
       THEN Synced([disk EXCEPT !.receipt = "verified"]) ELSE Still
    /\ UNCHANGED <<locked, command, held, worker, mine, curl, faults>>

\* A check of the supervising installer fails: the unit is killed and drained.
StageRefused ==
    /\ Claimed /\ Fault /\ staging' = "over"
    /\ Go("off") /\ mine' = None /\ curl' = None /\ locked' = [p \in Partial |-> {}]
    /\ Still /\ UNCHANGED <<command, held>>

InstallerDies ==
    /\ staging \in {"receipt", "running"} /\ Fault /\ staging' = "dead"
    /\ Still /\ UNCHANGED <<locked, command, held, worker, mine, curl>>
-----------------------------------------------------------------------------
(* Deaths and power losses *)

\* The worker is killed: its locks go, and its transfer process lives a little longer.
WorkerKilled ==
    /\ worker # "off" /\ Fault /\ Go("off") /\ mine' = None
    /\ locked' = [p \in Partial |-> locked[p] \ {"worker"}]
    /\ held' = [held EXCEPT !["worker"] = {}]
    /\ Still /\ UNCHANGED <<command, curl, staging>>

\* A power loss: of a file that was not synced, any part may be missing.
PowerLoss ==
    /\ staging \notin {"none", "planned"} /\ Fault
    /\ \E d \in disks :
         LET Lost(b) == IF b = "Written" THEN {"Torn", "Whole"} ELSE {b}
         IN  \E b \in Lost(d.model) : \E f \in [Partial -> Bytes \cup {Absent}] :
               /\ \A p \in Partial : f[p] \in Lost(d.partial[p])
               /\ disk' = [d EXCEPT !.model = b, !.partial = f] /\ disks' = {disk'}
    /\ locked' = [p \in Partial |-> {}] /\ held' = [w \in DOMAIN held |-> {}]
    /\ command' = "none" /\ worker' = "off" /\ mine' = None /\ curl' = None /\ staging' = "over"
-----------------------------------------------------------------------------
Commands == Prepare \/ CommandEnds \/ Clean \/ CleanEnds \/ pack_pending_retain

Worker ==
    \/ Reconcile \/ Reconciled \/ ensure_model_identities \/ acquisition_admission \/ Look
    \/ LockMine \/ Transfer \/ CurlEnds \/ TransferFails
    \/ Sync \/ verified_runtime_file \/ Rename \/ TemporaryDrop
    \/ ImportBegin \/ ImportCheck \/ Publish \/ Done
    \/ \E m \in Member : CopyBegin(m) \/ CopyEnd(m)

Installer ==
    \/ select \/ StageBegin \/ StageLaunch \/ StageRequest \/ StageRecheck \/ StageResult
    \/ job_check \/ StageReceipt \/ StageRefused \/ InstallerDies

PacksNext ==
    \/ pack_pending_review
    \/ /\ Commands \/ Worker \/ Installer \/ WorkerKilled \/ PowerLoss
       /\ reviewed' = (reviewed /\ pending_review(disk') = pending_review(disk))

PacksSpec == PacksInit /\ [][PacksNext]_packVars

\* What has its final name is whole: neither a power loss, a worker that was killed, a transfer
\* that outlived it nor a concurrent clean leaves torn weights or an incomplete pack there, on
\* any disk that a power loss may leave.  And what the installer's result or receipt calls
\* verified is there.
PublishedIsWhole ==
    \A d \in disks \cup {disk} :
        /\ d.model \in {Absent, "Whole"}
        /\ d.pack = Absent \/ \A m \in Member : d.pack[m] = "Whole"
        /\ d.receipt = "verified" \/ d.result = "Whole" => d.model # Absent /\ d.pack # Absent

=============================================================================
