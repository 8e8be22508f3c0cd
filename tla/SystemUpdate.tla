---------------------------- MODULE SystemUpdate ----------------------------
(***************************************************************************)
(* The installation and the native A/B update of luma-platform: `install`  *)
(* erases a disk and fills both slots, an Admin governs releases in        *)
(* the TPM-anchored catalog (release_trust.rs), `update` stages the        *)
(* admitted release on the inactive slot, the boot loader tries it at most *)
(* three times, `boot_health` acknowledges what runs, `boot_failed`        *)
(* reboots a failing trial and `recover repair-a|b` rewrites a slot from   *)
(* live media (platform.rs).                                               *)
(*                                                                         *)
(* A release manifest is its sequence number, 0 the content of a slot that *)
(* is not a complete root.  Every write_atomic is one durable step, so     *)
(* that power may fail, and the Admin may act, between any two of them.    *)
(* The boot loader is external: it prefers the entry loader.conf names,    *)
(* then any entry whose counter is not exhausted, and an operator at the   *)
(* menu may pick any entry.                                                *)
(***************************************************************************)
EXTENDS Integers, FiniteSets

CONSTANTS
    Absent,      \* no value: Option::None, a file that does not exist
    MaxImage,    \* bound: the highest release sequence
    MaxFaults,   \* bound: interruptions, repairs and manual choices of an entry
    Tries        \* boots a trial is given: +3 in publish_efi_guarded_mode

VARIABLES
    env,         \* the environment of the provisioned root: "lab" or "production"
    release,     \* the release state of the Admin catalog (release_trust::State)
    slots,       \* what the root and hash partitions of each slot hold
    entries,     \* the boot entries EFI/Linux/luma-SLOT-SEQUENCE[+COUNT].efi
    loader,      \* loader/loader.conf: the default entry
    files,       \* on the data volume: the identity store, installed.json, pending.json
    run,         \* what is booted
    job,         \* the operation that holds operation.lock
    faults,      \* how many of MaxFaults happened
    disturbed    \* ghost: the installation is not complete; or a slot the loader relies
                 \* on was rewritten, and boot_health has not selected a running slot since

updateVars == <<env, release, slots, entries, loader, files, run, job, faults, disturbed>>

Slot == {"a", "b"}
Image == 1..MaxImage
Good == Tries + 1                                \* an entry without a counter
Count == 0..Good                                 \* 0: the trial is exhausted
Entry == [slot: Slot, image: Image, count: Count]
Other(s) == IF s = "a" THEN "b" ELSE "a"
NoData == [identity |-> FALSE, installed |-> Absent, pending |-> Absent]
MaxOf(m, n) == IF m < n THEN n ELSE m

-----------------------------------------------------------------------------
(* Release governance in the Admin catalog. *)

Installed == run /= Absent /\ run.mode = "installed"

\* check_governance_manifest: m is the image of the verity root that runs
GovernanceManifest(m) == Installed /\ run.image = m

\* SignedTrust::key: the signer of every release is one key of the trust bundle
KeyUnrevoked == ~release.revoked

\* An operation that runs compares the release state with the one it read.
\* (Bound: the release state changes once while an operation runs.)
AuthorityChanged ==
    /\ job /= Absent => job.current
    /\ job' = IF job = Absent THEN job ELSE [job EXCEPT !.current = FALSE]

\* publish: the next version of the same root; a revocation stays.  Of versions only
\* this is kept: whether a pending candidate was admitted under the current one.
PublishReleaseTrust(revoke) ==
    /\ Installed
    /\ IF release = Absent
       THEN /\ ~revoke
            /\ release' = [revoked |-> FALSE, floor |-> 0,
                           acknowledged |-> Absent, pending |-> Absent,
                           retained |-> Absent]
       ELSE /\ release.revoked => revoke
            /\ release' = [release EXCEPT
                             !.revoked = revoke,
                             !.pending = IF @ = Absent THEN @ ELSE [@ EXCEPT !.current = FALSE]]
    /\ AuthorityChanged
    /\ UNCHANGED <<env, slots, entries, loader, files, run, faults, disturbed>>

\* initialize: the staged release of an installation without release history
InitializeRelease ==
    /\ Installed /\ release /= Absent
    /\ release.floor = 0 /\ release.acknowledged = Absent /\ release.pending = Absent
    /\ KeyUnrevoked
    /\ release' = [release EXCEPT !.floor = run.image, !.acknowledged = run.image]
    /\ AuthorityChanged
    /\ UNCHANGED <<env, slots, entries, loader, files, run, faults, disturbed>>

\* prepare, with its live check that the prior release is the one running
PrepareRelease(c) ==
    /\ Installed /\ release /= Absent
    /\ release.pending = Absent
    /\ release.acknowledged = Absent \/ GovernanceManifest(release.acknowledged)
    /\ c > MaxOf(release.floor, run.image)
    /\ KeyUnrevoked
    /\ release' = [release EXCEPT
                     !.floor = c, !.acknowledged = run.image,
                     !.pending = [prior |-> run.image, candidate |-> c,
                                  current |-> TRUE]]
    /\ AuthorityChanged
    /\ UNCHANGED <<env, slots, entries, loader, files, run, faults, disturbed>>

Confirmable == GovernanceManifest(release.pending.candidate) /\ KeyUnrevoked

ResolveRelease(outcome) ==
    /\ Installed /\ release /= Absent
    /\ release.pending /= Absent
    /\ release.floor = release.pending.candidate
    /\ IF outcome = "confirmed"
       THEN /\ Confirmable
            /\ release' = [release EXCEPT !.retained = release.pending.prior,
                                          !.acknowledged = release.pending.candidate,
                                          !.pending = Absent]
       ELSE /\ GovernanceManifest(release.pending.prior)
            /\ release' = [release EXCEPT !.acknowledged = release.pending.prior,
                                          !.pending = Absent]
    /\ AuthorityChanged
    /\ UNCHANGED <<env, slots, entries, loader, files, run, faults, disturbed>>

\* check_effect_time: the admission was made under the current trust
EffectCurrent(r) ==
    /\ r /= Absent /\ r.pending /= Absent
    /\ r.pending.current
    /\ ~r.revoked

\* check_bundle_admission
BundleAdmitted(r, c) ==
    /\ r.pending /= Absent
    /\ r.pending.candidate = c
    /\ r.floor = c
    /\ r.pending.current

\* The identities boot_health accepts and repair_identity admits
Anchored(r) ==
    {r.acknowledged, r.retained} \cup
    (IF r.pending = Absent THEN {} ELSE {r.pending.prior, r.pending.candidate})

-----------------------------------------------------------------------------
(* Staging a release on a slot: shared by update and repair. *)

\* One more interruption, repair or manual choice
Fault == faults < MaxFaults /\ faults' = faults + 1

\* RecoveryMount::recheck: what a repair opened is still the selected disk, mounted as it was
\* by the recovery medium that runs
TargetUnchanged == job.kind = "repair" => run /= Absent /\ run.mode = "live"

\* The guard of an operation: nothing the operation was admitted under changed
Guard == job.current /\ TargetUnchanged

\* An operation ends at any step: its guard denies it, or an I/O error
Refused == ~job.current \/ (job.kind = "health" /\ job.candidate /\ ~EffectCurrent(release))

Denied ==
    /\ job /= Absent
    /\ job' = Absent
    /\ IF Refused THEN UNCHANGED faults ELSE Fault
    /\ UNCHANGED <<env, release, slots, entries, loader, files, run, disturbed>>

\* check_running_manifest: m runs from the verity devices of the booted slot
RunningManifest(m) == Installed /\ run.image = m

\* bundle::verify: a signature by the unrevoked key of the anchored trust, or
\* by the static key of an unenrolled laboratory image
Verified == IF release = Absent THEN env = "lab" ELSE KeyUnrevoked

\* Release authority of update: the admitted candidate over the acknowledged
\* running release; an unenrolled laboratory image takes any newer release
UpdateAdmitted(c) ==
    \/ release = Absent /\ env = "lab"
    \/ /\ release /= Absent
       /\ BundleAdmitted(release, c)
       /\ EffectCurrent(release)
       /\ release.acknowledged = files.installed

\* update, up to the operator's confirmation
Update(c) ==
    /\ Installed /\ job = Absent
    /\ Verified
    /\ RunningManifest(files.installed)
    /\ UpdateAdmitted(c)
    /\ c > files.installed
    /\ files.pending \in {Absent, c}
    /\ job' = [kind |-> "update", pc |-> "confirm", image |-> c,
               slot |-> Other(run.slot), current |-> TRUE]
    /\ UNCHANGED <<env, release, slots, entries, loader, files, run, faults, disturbed>>

\* update records its intent before it touches the slot
RecordPending ==
    /\ job /= Absent /\ job.kind = "update" /\ job.pc = "confirm"
    /\ Guard
    /\ files' = [files EXCEPT !.pending = job.image]
    /\ job' = [job EXCEPT !.pc = "root"]
    /\ UNCHANGED <<env, release, slots, entries, loader, run, faults, disturbed>>

\* what boot_health leaves behind when it completes
RunningIsDefault == loader = [slot |-> run.slot, image |-> run.image, trial |-> FALSE]

\* install writes slot a, then slot b: the next slot's first step, or what follows both
Installing == job.kind = "install"
NextSlot(first, after) ==
    IF job.slot = "a" THEN [job EXCEPT !.pc = first, !.slot = "b"] ELSE [job EXCEPT !.pc = after]

\* write_artifact_guarded: the root partition is overwritten in place
WriteRoot ==
    /\ job /= Absent /\ job.pc = "root"
    /\ Guard
    /\ slots' = [slots EXCEPT ![job.slot] = 0]
    /\ disturbed' = (disturbed \/ job.kind = "repair" \/ ~RunningIsDefault)
    /\ job' = [job EXCEPT !.pc = "hash"]
    /\ UNCHANGED <<env, release, entries, loader, files, run, faults>>

\* install_slots_guarded: the hash tree is written and the pair verified
WriteHash ==
    /\ job /= Absent /\ job.pc = "hash"
    /\ Guard
    /\ slots' = [slots EXCEPT ![job.slot] = job.image]
    /\ job' = IF Installing THEN NextSlot("root", "format") ELSE [job EXCEPT !.pc = "entry"]
    /\ UNCHANGED <<env, release, entries, loader, files, run, faults, disturbed>>

\* The new entry is counted, except the fallback of an installation and all of a production one
NewCount == IF Installing /\ (job.slot = "b" \/ env = "production") THEN Good ELSE Tries

\* publish_efi_guarded_mode: the new UKI is published, as a trial
PublishEntry ==
    /\ job /= Absent /\ job.pc = "entry"
    /\ Guard
    /\ entries' = entries \cup {[slot |-> job.slot, image |-> job.image, count |-> NewCount]}
    /\ job' = [job EXCEPT !.pc = "obsolete"]
    /\ UNCHANGED <<env, release, slots, loader, files, run, faults, disturbed>>

Obsolete == {e \in entries : e.slot = job.slot
                             /\ ~(e.image = job.image /\ e.count = NewCount)}

\* every other entry of the rewritten slot is removed
RemoveObsolete ==
    /\ job /= Absent /\ job.pc = "obsolete"
    /\ Guard
    /\ entries' = entries \ Obsolete
    /\ job' = IF Installing THEN NextSlot("entry", "loader") ELSE [job EXCEPT !.pc = "loader"]
    /\ UNCHANGED <<env, release, slots, loader, files, run, faults, disturbed>>

\* only then does loader.conf select the trial, or the first slot of an installation
SelectTrial ==
    /\ job /= Absent /\ job.kind /= "health" /\ job.pc = "loader"
    /\ Guard
    /\ loader' = [slot |-> IF Installing THEN "a" ELSE job.slot, image |-> job.image,
                  trial |-> Installing => env = "lab"]
    /\ disturbed' = (disturbed /\ ~Installing)
    /\ job' = Absent
    /\ UNCHANGED <<env, release, slots, entries, files, run, faults>>

-----------------------------------------------------------------------------
(* Installation from live media. *)

Live == run /= Absent /\ run.mode = "live"

\* Disk::open: an unmounted whole disk that no other operation has locked
DiskFree == job = Absent

\* install_mode, up to the operator's confirmations.  A disk is installed once.
Install ==
    /\ Live /\ DiskFree /\ loader = Absent
    /\ job' = [kind |-> "install", pc |-> "erase", image |-> 1, slot |-> "a", current |-> TRUE]
    /\ UNCHANGED <<env, release, slots, entries, loader, files, run, faults, disturbed>>

\* The partition table is cleared, whatever an interrupted installation had written
EraseDisk ==
    /\ job /= Absent /\ job.pc = "erase"
    /\ slots' = [s \in Slot |-> 0] /\ entries' = {} /\ files' = NoData
    /\ job' = [job EXCEPT !.pc = "root"]
    /\ UNCHANGED <<env, release, loader, run, faults, disturbed>>

\* The boot partition and the encrypted volume are made, and mounted
FormatData ==
    /\ job /= Absent /\ job.pc = "format"
    /\ entries' = {} /\ files' = NoData
    /\ job' = [job EXCEPT !.pc = "identity"]
    /\ UNCHANGED <<env, release, slots, loader, run, faults, disturbed>>

\* create_identity, on the image's template
CreateIdentity ==
    /\ job /= Absent /\ job.pc = "identity"
    /\ files' = [files EXCEPT !.identity = TRUE]
    /\ job' = [job EXCEPT !.pc = "product"]
    /\ UNCHANGED <<env, release, slots, entries, loader, run, faults, disturbed>>

\* The product's initial state, and installed.json last
InitializeProduct ==
    /\ job /= Absent /\ job.pc = "product"
    /\ files' = [files EXCEPT !.installed = job.image]
    /\ job' = [job EXCEPT !.pc = "entry", !.slot = "a"]
    /\ UNCHANGED <<env, release, slots, entries, loader, run, faults, disturbed>>

-----------------------------------------------------------------------------
(* Offline repair from live media. *)

\* Booting the recovery medium
BootLive ==
    /\ run = Absent
    /\ run' = [mode |-> "live", slot |-> "a", image |-> MaxImage, counted |-> FALSE]
    /\ UNCHANGED <<env, release, slots, entries, loader, files, job, faults, disturbed>>

\* repair_identity: an anchored release; a candidate under unrotated trust
RepairIdentity(c) ==
    /\ c \in Anchored(release)
    /\ c <= release.floor
    /\ release.pending /= Absent /\ release.pending.candidate = c
          => release.pending.current

\* validate_laboratory_repair: never an older release than the installed one
LaboratoryRepair(c) == env = "lab" /\ c >= files.installed

\* RecoveryTarget::open: the authenticated live image, and the data volume read-only beneath it
TargetOpens == Live /\ files.installed /= Absent

\* repair_governed, or the repair of an unenrolled laboratory target
RepairAdmitted(c) ==
    IF release = Absent THEN LaboratoryRepair(c)
    ELSE RepairIdentity(c) /\ KeyUnrevoked

Repair(s, c) ==
    /\ DiskFree /\ TargetOpens
    /\ RepairAdmitted(c)
    /\ Fault
    /\ job' = [kind |-> "repair", pc |-> "root", image |-> c, slot |-> s,
               current |-> TRUE]
    /\ UNCHANGED <<env, release, slots, entries, loader, files, run, disturbed>>

-----------------------------------------------------------------------------
(* Booting (external: systemd-boot) and the health of what booted. *)

\* loader_config: a trial is the default while it is not exhausted, an
\* acknowledged release by its name without counter
DefaultCounts_Glob == IF loader.trial THEN 0..Tries ELSE {Good}
DefaultCounts == IF loader.trial THEN 1..Tries ELSE {Good}

DefaultEntry ==
    {e \in entries : loader /= Absent /\ e.slot = loader.slot /\ e.image = loader.image
                     /\ e.count \in DefaultCounts}

\* What the loader boots when nobody touches the menu: the default, or else
\* the newest release among the entries that are not exhausted
AutoChoice ==
    LET usable == {e \in entries : e.count > 0}
        from == IF usable = {} THEN entries ELSE usable
    IN  IF DefaultEntry /= {} THEN DefaultEntry
        ELSE {e \in from : \A f \in from : f.image <= e.image}

Intact(e) == slots[e.slot] = e.image

\* The loader counts a trial down before it starts it
CountDown(e) == IF e.count \in 1..Tries THEN [e EXCEPT !.count = @ - 1] ELSE e

\* init_data: the volume is unlocked, at the third attempt at the latest, and has identities
InitData == files.identity

BootEntry(e) ==
    /\ run = Absent
    /\ entries' = (entries \ {e}) \cup {CountDown(e)}
    /\ \/ /\ Intact(e) /\ InitData
          /\ run' = [mode |-> "installed", slot |-> e.slot, image |-> e.image,
                     counted |-> e.count /= Good]
       \/ run' = Absent
    /\ UNCHANGED <<env, release, slots, loader, files, job, disturbed>>

\* The loader's own choice, or the operator's at the menu
Boot == \E e \in AutoChoice : BootEntry(e) /\ UNCHANGED faults
BootSelected == \E e \in entries \ AutoChoice : BootEntry(e) /\ Fault

\* Power is lost, or the operator reboots
PowerLoss ==
    /\ run /= Absent
    /\ run' = Absent
    /\ job' = Absent
    /\ IF job = Absent THEN UNCHANGED faults ELSE Fault
    /\ UNCHANGED <<env, release, slots, entries, loader, files, disturbed>>

\* boot_failed: only a counted trial reboots itself
BootFailed ==
    /\ Installed /\ job = Absent /\ run.counted
    /\ run' = Absent
    /\ UNCHANGED <<env, release, slots, entries, loader, files, job, faults, disturbed>>

\* boot_health, up to its choice of the identity it acknowledges: exactly one
\* anchored identity runs, or pending.json or installed.json of an unenrolled
\* image names it; a production image without an acknowledged release is inert.
\* (failed-update.json only reports the candidate that is not running.)
BootHealth ==
    /\ Installed /\ job = Absent
    /\ env = "production" => release /= Absent /\ release.acknowledged /= Absent
    /\ IF release = Absent THEN run.image \in {files.installed, files.pending}
       ELSE run.image \in Anchored(release)
    /\ job' = [kind |-> "health", pc |-> "recheck", image |-> run.image,
               slot |-> run.slot, current |-> TRUE,
               candidate |-> /\ release /= Absent /\ release.pending /= Absent
                             /\ release.pending.candidate = run.image]
    /\ UNCHANGED <<env, release, slots, entries, loader, files, run, faults, disturbed>>

\* a candidate needs the authority unchanged and its admission still current
HealthRecheck ==
    /\ job /= Absent /\ job.kind = "health" /\ job.pc = "recheck"
    /\ job.candidate => job.current /\ EffectCurrent(release)
    /\ job' = [job EXCEPT !.pc = "bless"]
    /\ UNCHANGED <<env, release, slots, entries, loader, files, run, faults, disturbed>>

\* systemd-bless-boot good: the counter is removed from the entry that runs
Bless ==
    /\ job /= Absent /\ job.kind = "health" /\ job.pc = "bless"
    /\ entries' = IF run.counted
                  THEN LET mine == {e \in entries : e.slot = run.slot /\ e.image = run.image}
                       IN  (entries \ mine) \cup {[e EXCEPT !.count = Good] : e \in mine}
                  ELSE entries
    /\ job' = [job EXCEPT !.pc = "installed"]
    /\ UNCHANGED <<env, release, slots, loader, files, run, faults, disturbed>>

RecordInstalled ==
    /\ job /= Absent /\ job.kind = "health" /\ job.pc = "installed"
    /\ files' = [files EXCEPT !.installed = job.image]
    /\ job' = [job EXCEPT !.pc = "loader"]
    /\ UNCHANGED <<env, release, slots, entries, loader, run, faults, disturbed>>

\* loader.conf names the counter-free entry of the running slot
SelectRunning ==
    /\ job /= Absent /\ job.kind = "health" /\ job.pc = "loader"
    /\ loader' = [slot |-> run.slot, image |-> job.image, trial |-> FALSE]
    /\ disturbed' = (disturbed /\ \E e \in entries : e.count = Good /\ ~Intact(e))
    /\ job' = [job EXCEPT !.pc = "pending"]
    /\ UNCHANGED <<env, release, slots, entries, files, run, faults>>

RemovePending ==
    /\ job /= Absent /\ job.kind = "health" /\ job.pc = "pending"
    /\ files' = [files EXCEPT !.pending = Absent]
    /\ job' = Absent
    /\ UNCHANGED <<env, release, slots, entries, loader, run, faults, disturbed>>

-----------------------------------------------------------------------------
\* A blank disk, and the recovery medium of a first release
UpdateInit ==
    /\ env \in {"lab", "production"}
    /\ release = Absent
    /\ slots = [s \in Slot |-> 0] /\ entries = {} /\ loader = Absent /\ files = NoData
    /\ run = Absent
    /\ job = Absent
    /\ faults = 0
    /\ disturbed = TRUE

InstallStep ==
    Install \/ EraseDisk \/ FormatData \/ CreateIdentity \/ InitializeProduct

Govern ==
    \/ \E revoke \in BOOLEAN : PublishReleaseTrust(revoke)
    \/ InitializeRelease
    \/ \E c \in Image : PrepareRelease(c)
    \/ \E outcome \in {"confirmed", "abandoned"} : ResolveRelease(outcome)

Stage ==
    \/ \E c \in Image : Update(c)
    \/ \E s \in Slot, c \in Image : Repair(s, c)
    \/ RecordPending \/ WriteRoot \/ WriteHash
    \/ PublishEntry \/ RemoveObsolete \/ SelectTrial
    \/ Denied

Health ==
    \/ BootHealth \/ HealthRecheck \/ Bless \/ RecordInstalled
    \/ SelectRunning \/ RemovePending \/ BootFailed

UpdateNext == InstallStep \/ Govern \/ Stage \/ Health \/ Boot \/ BootSelected \/ BootLive \/ PowerLoss

UpdateSpec == UpdateInit /\ [][UpdateNext]_updateVars

-----------------------------------------------------------------------------
\* Whatever write of update, boot_health or the boot loader power loss
\* interrupts, the loader's own choice is an intact slot or a counted trial
\* that runs out: update overwrites the inactive slot only, publishes its
\* entry after the slot verifies and selects it last, and boot_health removes
\* the counter before it selects the slot for good.  So it is from the moment
\* an installation is complete.  Excepted, until
\* boot_health selects a running slot again and no stale entry is left, is the
\* time after an operator rewrote a slot from live media and after an update
\* that was started before boot_health had made the running slot the default.
NeverStranded ==
    ~disturbed =>
        /\ \E e \in entries : e.count > 0
        /\ \A e \in AutoChoice : e.count \in 1..Tries \/ (e.count = Good /\ Intact(e))

=============================================================================
