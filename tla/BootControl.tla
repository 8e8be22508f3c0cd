----------------------------- MODULE BootControl -----------------------------
(***************************************************************************)
(* boot_control.py: the durable A/B update state and the commands that     *)
(* transition() applies to it.  One action per CommandKind.                *)
(*                                                                         *)
(* transition() applies a command only when its fence and its expected     *)
(* generation are those of the state, and every applied command advances   *)
(* the generation: an applied command was prepared against this very       *)
(* state, however late it arrives.  Refused and replayed commands return   *)
(* the state unchanged and are not steps.  The generation, the operation   *)
(* ledger, the tamper log and the authentication tag only grow or follow   *)
(* the rest of the state, no guard below reads them, and they are left     *)
(* out.  A fence owner token is never reused and is identified with its    *)
(* epoch; a boot-attempt nonce is identified with its number.              *)
(***************************************************************************)
EXTENDS Naturals, TLAPS

CONSTANTS
    Release,         \* ReleaseIdentity values
    Sequence,        \* release_sequence of each
    Compatibility,   \* data_compatibility_id of each
    Factory,         \* the release installed first
    Reads(_, _),     \* DataCheckpointOracle.is_readable: data one writes, another reads
    Sha,             \* digests of data checkpoints
    MaxData,         \* bounds: data generations, fence epochs, boot attempts
    MaxEpoch,
    MaxAttempts,
    None

\* A release reads what it wrote itself.
ASSUME BootAssumption ==
    /\ Factory \in Release /\ None \notin Release /\ None \notin Sha
    /\ Sequence \in [Release -> Nat \ {0}]
    /\ \A r, s \in Release : Reads(r, s) \in BOOLEAN
    /\ \A r \in Release : Reads(r, r)
    /\ MaxData \in Nat /\ MaxEpoch \in Nat \ {0} /\ MaxAttempts \in Nat

MaxTrialFailures == 3

Slot == {"A", "B"}

Phases == {"idle", "download", "verify", "write", "select", "first-boot"}

VARIABLES
    slots,           \* the release in each root slot, whether it is trusted, its status
    active,
    selected,        \* the slot the next boot uses
    phase,
    candidate,       \* the release being installed, and whether it is trusted and verified
    target,
    floor,           \* minimum_release_sequence
    failures,        \* trial_failures
    attempts,        \* how many attempt nonces are used; the current one is the last
    evidence,        \* first-boot evidence so far: none, an observation, or health as well
    checkpoint,      \* the acknowledged data: generation, digest, writer and fence
    epoch            \* fence_epoch

vars == <<slots, active, selected, phase, candidate, target, floor, failures, attempts,
          evidence, checkpoint, epoch>>

\* What VERIFY_COMPLETE and WRITE_COMPLETE work on; what a trial changes; the rest.
update == <<phase, candidate, target, selected>>
trial == <<failures, attempts, evidence>>
ground == <<active, floor, checkpoint, epoch>>

Artifact == [rel : Release, trusted : BOOLEAN]

NoArtifact == [rel |-> None, trusted |-> FALSE]

TypeOK ==
    /\ slots \in [Slot -> [rel : Release \cup {None}, trusted : BOOLEAN,
                           status : {"empty", "active", "staged", "retained", "rejected"}]]
    /\ active \in Slot /\ selected \in Slot /\ target \in Slot \cup {None}
    /\ phase \in Phases
    /\ candidate \in Artifact \cup {NoArtifact}
    /\ floor \in Nat /\ failures \in Nat /\ attempts \in Nat
    /\ evidence \in {"none", "observed", "healthy"}
    /\ checkpoint \in [gen : 0..MaxData, sha : Sha, writer : Release, epoch : 1..MaxEpoch]
    /\ epoch \in 1..MaxEpoch

\* initial_boot_state
Init ==
    /\ slots = [s \in Slot |-> IF s = "A" THEN [rel |-> Factory, trusted |-> TRUE, status |-> "active"]
                               ELSE [rel |-> None, trusted |-> FALSE, status |-> "empty"]]
    /\ active = "A" /\ selected = "A" /\ target = None
    /\ phase = "idle" /\ candidate = NoArtifact
    /\ floor = Sequence[Factory]
    /\ failures = 0 /\ attempts = 0 /\ evidence = "none"
    /\ checkpoint \in [gen : {0}, sha : Sha, writer : {Factory}, epoch : {1}]
    /\ epoch = 1
-----------------------------------------------------------------------------
Running == slots[active].rel

SetSlot(s, artifact, status) ==
    slots' = [slots EXCEPT ![s] = [rel |-> artifact.rel, trusted |-> artifact.trusted,
                                   status |-> status]]

\* The update is over and the active slot is selected again.
EndUpdate ==
    /\ phase' = "idle" /\ candidate' = NoArtifact /\ target' = None
    /\ selected' = active

\* _abort_before_write
AbortBeforeWrite == EndUpdate /\ evidence' = "none" /\ UNCHANGED <<slots, failures, attempts>>

BeginDownload(s, artifact) ==
    /\ phase = "idle" /\ attempts + MaxTrialFailures <= MaxAttempts
    /\ s # active /\ artifact.rel # Running
    /\ phase' = "download" /\ candidate' = artifact /\ target' = s
    /\ failures' = 0
    /\ UNCHANGED <<slots, selected, attempts, evidence, ground>>

DownloadComplete ==
    /\ phase = "download" /\ phase' = "verify"
    /\ UNCHANGED <<slots, candidate, target, selected, trial, ground>>

\* Mutation of Eligible: the sequence is compared with nothing.
Eligible_AnyOrder(r) ==
    /\ Compatibility[r] = Compatibility[Running]
    /\ Compatibility[r] = Compatibility[checkpoint.writer]

\* What VERIFY_COMPLETE demands of a release it could trust.
Eligible(r) ==
    /\ Compatibility[r] = Compatibility[Running]
    /\ Compatibility[r] = Compatibility[checkpoint.writer]
    /\ Sequence[r] > Sequence[Running] /\ Sequence[r] > floor

VerifyComplete(artifact) ==
    /\ phase = "verify"
    /\ IF artifact.rel = candidate.rel /\ artifact.trusted /\ Eligible(artifact.rel)
       THEN /\ phase' = "write" /\ candidate' = artifact
            /\ UNCHANGED <<slots, target, selected, trial>>
       ELSE AbortBeforeWrite
    /\ UNCHANGED ground

WriteComplete ==
    /\ phase = "write" /\ candidate.trusted
    /\ SetSlot(target, candidate, "staged")
    /\ phase' = "select"
    /\ UNCHANGED <<candidate, target, selected, trial, ground>>

SelectTrial ==
    /\ phase = "select" /\ selected # target
    /\ selected' = target
    /\ UNCHANGED <<slots, phase, candidate, target, trial, ground>>

BeginFirstBoot ==
    /\ phase = "select" /\ selected = target
    /\ phase' = "first-boot" /\ attempts' = attempts + 1
    /\ UNCHANGED <<slots, candidate, target, selected, failures, evidence, ground>>
-----------------------------------------------------------------------------
\* _ensure_fallback_readable
FallbackReadable == Reads(checkpoint.writer, Running)

\* _automatic_fallback: the artifact stays in its slot and the slot is rejected.
AutomaticFallback(count) ==
    /\ FallbackReadable
    /\ SetSlot(target, slots[target], "rejected")
    /\ EndUpdate
    /\ failures' = count /\ evidence' = "none" /\ UNCHANGED attempts

\* A persisted observation, possibly one of an earlier attempt, slot, release or fence.
RecordBootObservation(observation) ==
    /\ phase = "first-boot" /\ evidence = "none"
    /\ IF observation = [nonce |-> attempts, slot |-> target, rel |-> candidate.rel,
                         trusted |-> TRUE, epoch |-> epoch]
       THEN evidence' = "observed" /\ UNCHANGED <<slots, update, failures, attempts>>
       ELSE AutomaticFallback(failures)
    /\ UNCHANGED ground

\* Mutation of RecordTrialFailure: the last failure is refused and nothing falls back.
RecordTrialFailure_NoFallback ==
    /\ failures + 1 < MaxTrialFailures
    /\ phase' = "select" /\ failures' = failures + 1 /\ evidence' = "none"
    /\ UNCHANGED <<slots, candidate, target, selected, attempts>>

\* _record_trial_failure
RecordTrialFailure ==
    IF failures + 1 >= MaxTrialFailures
    THEN AutomaticFallback(failures + 1)
    ELSE /\ phase' = "select" /\ failures' = failures + 1 /\ evidence' = "none"
         /\ UNCHANGED <<slots, candidate, target, selected, attempts>>

TrialFailure == phase = "first-boot" /\ RecordTrialFailure /\ UNCHANGED ground

AckEssentialHealth ==
    /\ phase = "first-boot" /\ evidence # "none"
    /\ evidence' = "healthy"
    /\ UNCHANGED <<slots, update, failures, attempts, ground>>

CommitTrial ==
    /\ phase = "first-boot" /\ evidence = "healthy"
    /\ Reads(checkpoint.writer, slots[target].rel)
    /\ slots' = [slots EXCEPT ![active].status = "retained", ![target].status = "active"]
    /\ active' = target /\ selected' = target
    /\ phase' = "idle" /\ candidate' = NoArtifact /\ target' = None
    /\ floor' = Sequence[slots[target].rel]
    /\ failures' = 0 /\ evidence' = "none"
    /\ UNCHANGED <<attempts, checkpoint, epoch>>

\* Mutation of AckDataCheckpoint: the retained release is not asked.
AckDataCheckpoint_Unasked(proposed) ==
    /\ phase = "first-boot" => evidence # "none"
    /\ proposed.gen > checkpoint.gen
    /\ proposed.epoch = epoch
    /\ proposed.writer = IF phase = "first-boot" THEN candidate.rel ELSE Running
    /\ checkpoint' = proposed
    /\ UNCHANGED <<slots, update, trial, active, floor, epoch>>

\* The release that runs acknowledges data; during a trial the retained release must be
\* able to read it.
AckDataCheckpoint(proposed) ==
    /\ phase = "first-boot" => evidence # "none"
    /\ proposed.gen >= checkpoint.gen
    /\ proposed.gen = checkpoint.gen => proposed.sha = checkpoint.sha
    /\ proposed.epoch = epoch
    /\ proposed.writer = IF phase = "first-boot" THEN candidate.rel ELSE Running
    /\ phase = "first-boot" => Reads(proposed.writer, Running)
    /\ checkpoint' = proposed
    /\ UNCHANGED <<slots, update, trial, active, floor, epoch>>

\* _reconcile_power_loss, by the phase in which the power was lost.
ReconcilePowerLoss ==
    /\ \/ phase \in {"download", "verify"} /\ AbortBeforeWrite
       \/ /\ phase = "write"
          /\ SetSlot(target, candidate, "rejected")
          /\ EndUpdate /\ UNCHANGED trial
       \/ /\ phase = "select" /\ FallbackReadable
          /\ EndUpdate /\ UNCHANGED <<slots, trial>>
       \/ phase = "first-boot" /\ RecordTrialFailure
    /\ UNCHANGED ground

RotateFence ==
    /\ phase = "idle" /\ epoch < MaxEpoch
    /\ epoch' = epoch + 1
    /\ UNCHANGED <<slots, update, trial, active, floor, checkpoint>>

Observation == [nonce : 1..MaxAttempts, slot : Slot, rel : Release, trusted : BOOLEAN,
                epoch : 1..MaxEpoch]

Checkpoint == [gen : 0..MaxData, sha : Sha, writer : Release, epoch : 1..MaxEpoch]

Next ==
    \/ \E s \in Slot, artifact \in Artifact : BeginDownload(s, artifact)
    \/ DownloadComplete
    \/ \E artifact \in Artifact : VerifyComplete(artifact)
    \/ WriteComplete \/ SelectTrial \/ BeginFirstBoot
    \/ \E observation \in Observation : RecordBootObservation(observation)
    \/ TrialFailure \/ AckEssentialHealth \/ CommitTrial
    \/ \E proposed \in Checkpoint : AckDataCheckpoint(proposed)
    \/ ReconcilePowerLoss \/ RotateFence

\* What a controller that drives an update to its end does next.
Drive ==
    \/ DownloadComplete
    \/ \E artifact \in Artifact : VerifyComplete(artifact)
    \/ WriteComplete \/ SelectTrial \/ BeginFirstBoot
    \/ TrialFailure \/ CommitTrial

Spec == Init /\ [][Next]_vars

FairSpec == Spec /\ WF_vars(Drive)
-----------------------------------------------------------------------------
(* What the controller guarantees *)

\* Whatever the trial, power loss or tampering, the release that a fallback would boot can
\* read every byte of data that was acknowledged.
FallbackNeverStranded == FallbackReadable

\* Every state a command produces passes BootState.__post_init__, which transition() runs on
\* the result: no legal command is refused by its own outcome.
StateIsValid ==
    /\ TypeOK
    /\ \A s \in Slot : slots[s].status = "active" <=> s = active
    /\ \A s \in Slot : slots[s].status \in {"active", "staged", "retained"} => slots[s].trusted
    /\ \A s \in Slot : slots[s].status = "empty" <=> slots[s].rel = None
    /\ Sequence[Running] >= floor
    /\ failures <= MaxTrialFailures
    /\ phase = "idle" => candidate = NoArtifact /\ target = None /\ selected = active
    /\ phase # "idle" => candidate # NoArtifact /\ target \in Slot \ {active}
    /\ phase \in {"download", "verify", "write"} => selected = active
    /\ phase \in {"select", "first-boot"} =>
          slots[target] = [rel |-> candidate.rel, trusted |-> TRUE, status |-> "staged"]
    /\ phase = "first-boot" => selected = target /\ attempts > 0
    /\ phase # "first-boot" => evidence = "none"

StepNeverBackwards ==
    /\ floor' >= floor
    /\ slots'[active'].rel # Running =>
          Sequence[slots'[active'].rel] > floor /\ evidence = "healthy" /\ selected = active'
    /\ checkpoint'.gen >= checkpoint.gen
    /\ checkpoint'.gen = checkpoint.gen => checkpoint'.sha = checkpoint.sha

\* A release becomes active only with a higher sequence than every release that was active
\* before it, and only after an observation and health of its last attempt; acknowledged
\* data never goes back to an older generation or another digest.
NeverBackwards == [][StepNeverBackwards]_vars

\* MAX_TRIAL_FAILURES bounds the retries and the fallback is always open: an update that its
\* controller keeps driving ends, with the candidate or with the release it started from.
UpdateEnds == phase # "idle" ~> phase = "idle"

-----------------------------------------------------------------------------
(***************************************************************************)
(* Proofs about BootControl for any releases, readability relation and     *)
(* bounds: every state is valid, the fallback can always read the          *)
(* acknowledged data, and releases and data never go backwards.            *)
(***************************************************************************)

\* A verified candidate outranks the running release and the anti-downgrade floor.
CandidateOutranks ==
    phase \in {"write", "select", "first-boot"} =>
        candidate.trusted /\ Sequence[candidate.rel] > floor

\* An update in progress has at least one attempt left.
AttemptLeft == phase # "idle" => failures < MaxTrialFailures

\* The inductive invariant.
IInv == StateIsValid /\ FallbackReadable /\ CandidateOutranks /\ AttemptLeft

\* What the invariant says of the slots and the candidate, in the form the steps use.
LEMMA Facts ==
    ASSUME IInv
    PROVE  /\ Running \in Release /\ slots[active].trusted /\ Sequence[Running] \in Nat
           /\ phase # "idle" => /\ candidate \in Artifact /\ target \in Slot /\ target # active
                                /\ Sequence[candidate.rel] \in Nat
           /\ phase \in {"select", "first-boot"} =>
                 slots[target] = [rel |-> candidate.rel, trusted |-> TRUE, status |-> "staged"]
    BY BootAssumption
    DEF IInv, StateIsValid, TypeOK, Running, Artifact, NoArtifact, Slot

\* initial_boot_state builds a valid state.
LEMMA InitInv == Init => IInv
    BY BootAssumption
    DEF Init, IInv, StateIsValid, TypeOK, FallbackReadable, CandidateOutranks, AttemptLeft, Running, Slot,
        Artifact, NoArtifact, Phases, MaxTrialFailures

LEMMA AbortInv ==
    ASSUME IInv, AbortBeforeWrite, UNCHANGED ground
    PROVE  IInv'
    BY BootAssumption
    DEF AbortBeforeWrite, EndUpdate, ground, IInv, StateIsValid, TypeOK, FallbackReadable,
        CandidateOutranks, AttemptLeft, Running, Slot, Artifact, NoArtifact, Phases, MaxTrialFailures

LEMMA FallbackInv ==
    ASSUME IInv, phase = "first-boot", NEW n \in Nat, n <= MaxTrialFailures,
           AutomaticFallback(n), UNCHANGED ground
    PROVE  IInv'
    BY BootAssumption, Facts
    DEF AutomaticFallback, SetSlot, EndUpdate, ground, IInv, StateIsValid, TypeOK,
        FallbackReadable, CandidateOutranks, AttemptLeft, Running, Slot, Artifact, NoArtifact, Phases,
        MaxTrialFailures

LEMMA TrialFailureInv ==
    ASSUME IInv, phase = "first-boot", RecordTrialFailure, UNCHANGED ground
    PROVE  IInv'
    <1>1. CASE failures + 1 >= MaxTrialFailures
        <2>1. failures + 1 \in Nat /\ failures + 1 <= MaxTrialFailures
            BY DEF IInv, StateIsValid, TypeOK, AttemptLeft, MaxTrialFailures
        <2> QED BY <1>1, <2>1, FallbackInv DEF RecordTrialFailure
    <1>2. CASE ~(failures + 1 >= MaxTrialFailures)
        BY <1>2, BootAssumption, Facts
        DEF RecordTrialFailure, ground, IInv, StateIsValid, TypeOK, FallbackReadable,
            CandidateOutranks, AttemptLeft, Running, Slot, Artifact, NoArtifact, Phases, MaxTrialFailures
    <1> QED BY <1>1, <1>2

\* Every command, and every power loss, preserves the invariant.
LEMMA NextInv == IInv /\ [Next]_vars => IInv'
    <1> SUFFICES ASSUME IInv, [Next]_vars PROVE IInv'
        OBVIOUS
    <1> USE Facts, BootAssumption
    <1>1. CASE \E s \in Slot, artifact \in Artifact : BeginDownload(s, artifact)
        BY <1>1
        DEF BeginDownload, update, trial, ground, IInv, StateIsValid, TypeOK, FallbackReadable,
            CandidateOutranks, AttemptLeft, Running, Slot, Artifact, NoArtifact, Phases,
            MaxTrialFailures
    <1>2. CASE DownloadComplete
        BY <1>2
        DEF DownloadComplete, update, trial, ground, IInv, StateIsValid, TypeOK, FallbackReadable,
            CandidateOutranks, AttemptLeft, Running, Slot, Artifact, NoArtifact, Phases,
            MaxTrialFailures
    <1>3. CASE WriteComplete
        BY <1>3
        DEF WriteComplete, SetSlot, update, trial, ground, IInv, StateIsValid, TypeOK, FallbackReadable,
            CandidateOutranks, AttemptLeft, Running, Slot, Artifact, NoArtifact, Phases,
            MaxTrialFailures
    <1>4. CASE SelectTrial
        BY <1>4
        DEF SelectTrial, update, trial, ground, IInv, StateIsValid, TypeOK, FallbackReadable,
            CandidateOutranks, AttemptLeft, Running, Slot, Artifact, NoArtifact, Phases,
            MaxTrialFailures
    <1>5. CASE BeginFirstBoot
        BY <1>5
        DEF BeginFirstBoot, update, trial, ground, IInv, StateIsValid, TypeOK, FallbackReadable,
            CandidateOutranks, AttemptLeft, Running, Slot, Artifact, NoArtifact, Phases,
            MaxTrialFailures
    <1>6. CASE AckEssentialHealth
        BY <1>6
        DEF AckEssentialHealth, update, trial, ground, IInv, StateIsValid, TypeOK, FallbackReadable,
            CandidateOutranks, AttemptLeft, Running, Slot, Artifact, NoArtifact, Phases,
            MaxTrialFailures
    <1>7. CASE CommitTrial
        BY <1>7
        DEF CommitTrial, update, trial, ground, IInv, StateIsValid, TypeOK, FallbackReadable,
            CandidateOutranks, AttemptLeft, Running, Slot, Artifact, NoArtifact, Phases,
            MaxTrialFailures
    <1>8. CASE \E proposed \in Checkpoint : AckDataCheckpoint(proposed)
        BY <1>8
        DEF AckDataCheckpoint, Checkpoint, update, trial, ground, IInv, StateIsValid, TypeOK, FallbackReadable,
            CandidateOutranks, AttemptLeft, Running, Slot, Artifact, NoArtifact, Phases,
            MaxTrialFailures
    <1>9. CASE RotateFence
        BY <1>9
        DEF RotateFence, update, trial, ground, IInv, StateIsValid, TypeOK, FallbackReadable,
            CandidateOutranks, AttemptLeft, Running, Slot, Artifact, NoArtifact, Phases,
            MaxTrialFailures
    <1>10. ASSUME NEW artifact \in Artifact, VerifyComplete(artifact)
         PROVE  IInv'
        <2>1. CASE artifact.rel = candidate.rel /\ artifact.trusted /\ Eligible(artifact.rel)
            BY <1>10, <2>1
            DEF VerifyComplete, Eligible, trial, ground, IInv, StateIsValid, TypeOK,
                FallbackReadable, CandidateOutranks, AttemptLeft, Running, Slot, Artifact,
                NoArtifact, Phases, MaxTrialFailures
        <2>2. CASE ~(artifact.rel = candidate.rel /\ artifact.trusted /\ Eligible(artifact.rel))
            BY <1>10, <2>2, AbortInv DEF VerifyComplete
        <2> QED BY <2>1, <2>2
    <1>11. ASSUME NEW observation \in Observation, RecordBootObservation(observation)
         PROVE  IInv'
        <2> DEFINE matches == observation = [nonce |-> attempts, slot |-> target,
                                             rel |-> candidate.rel, trusted |-> TRUE,
                                             epoch |-> epoch]
        <2>1. CASE matches
            BY SMTT(30), <1>11, <2>1
            DEF RecordBootObservation, update, ground, IInv, StateIsValid, TypeOK,
                FallbackReadable, CandidateOutranks, AttemptLeft, Running, Slot, Artifact,
                NoArtifact, Phases, MaxTrialFailures
        <2>2. CASE ~matches
            <3>1. failures \in Nat /\ failures <= MaxTrialFailures
                BY DEF IInv, StateIsValid, TypeOK
            <3> QED BY <1>11, <2>2, <3>1, FallbackInv DEF RecordBootObservation
        <2> QED BY <2>1, <2>2
    <1>12. CASE TrialFailure
        BY <1>12, TrialFailureInv DEF TrialFailure
    <1>13. CASE ReconcilePowerLoss
        <2>1. CASE phase \in {"download", "verify"}
            BY SMTT(30), <1>13, <2>1, AbortInv DEF ReconcilePowerLoss
        <2>2. CASE phase = "write"
            BY SMTT(30), <1>13, <2>2
            DEF ReconcilePowerLoss, SetSlot, EndUpdate, trial, ground, IInv, StateIsValid, TypeOK,
                FallbackReadable, CandidateOutranks, AttemptLeft, Running, Slot, Artifact,
                NoArtifact, Phases, MaxTrialFailures
        <2>3. CASE phase = "select"
            BY <1>13, <2>3
            DEF ReconcilePowerLoss, EndUpdate, trial, ground, IInv, StateIsValid, TypeOK,
                FallbackReadable, CandidateOutranks, AttemptLeft, Running, Slot, Artifact,
                NoArtifact, Phases, MaxTrialFailures
        <2>4. CASE phase = "first-boot"
            BY <1>13, <2>4, TrialFailureInv DEF ReconcilePowerLoss
        <2> QED BY <1>13, <2>1, <2>2, <2>3, <2>4 DEF ReconcilePowerLoss
    <1>14. CASE UNCHANGED vars
        BY <1>14
        DEF vars, IInv, StateIsValid, TypeOK, FallbackReadable, CandidateOutranks, AttemptLeft,
            Running
    <1> QED BY <1>1, <1>2, <1>3, <1>4, <1>5, <1>6, <1>7, <1>8, <1>9, <1>10, <1>11, <1>12, <1>13, <1>14 DEF Next

\* The inductive invariant holds in every reachable state of the boot controller.
THEOREM Invariance == Spec => []IInv
    BY InitInv, NextInv, PTL DEF Spec

\* The boot controller never reaches a state that BootState.__post_init__ refuses.
THEOREM ValidHolds == Spec => []StateIsValid
    BY Invariance, PTL DEF IInv

\* While an update is pending or a fallback is retained, the release to fall back to can read
\* the acknowledged data checkpoint (_ensure_fallback_readable).
THEOREM NeverStrandedHolds == Spec => []FallbackNeverStranded
    BY Invariance, PTL DEF IInv, FallbackNeverStranded

\* Commands only ever raise the floor, activate a higher release with its evidence complete,
\* and acknowledge newer data or the same.
LEMMA StepForward == IInv /\ [Next]_vars => StepNeverBackwards
    <1> SUFFICES ASSUME IInv, [Next]_vars PROVE StepNeverBackwards
        OBVIOUS
    <1> USE Facts, BootAssumption
    <1>1. CASE CommitTrial
        BY SMTT(30), <1>1
        DEF CommitTrial, StepNeverBackwards, IInv, StateIsValid, TypeOK, CandidateOutranks,
            Running, Slot, Artifact
    <1>2. CASE \E proposed \in Checkpoint : AckDataCheckpoint(proposed)
        <2>1. /\ UNCHANGED <<slots, active, floor>> /\ checkpoint'.gen >= checkpoint.gen
              /\ checkpoint'.gen = checkpoint.gen => checkpoint'.sha = checkpoint.sha
            BY ZenonT(30), <1>2 DEF AckDataCheckpoint
        <2>2. floor' >= floor
            BY <2>1 DEF IInv, StateIsValid, TypeOK
        <2> QED BY ZenonT(30), <2>1, <2>2 DEF StepNeverBackwards, Running
    <1>3. ASSUME UNCHANGED <<active, floor, checkpoint>>,
                 UNCHANGED slots \/ (phase # "idle" /\ \E x : slots' = [slots EXCEPT ![target] = x])
          PROVE  StepNeverBackwards
        <2>1. /\ slots = [s \in Slot |-> slots[s]] /\ active \in Slot /\ floor \in Nat
              /\ checkpoint.gen \in Nat
            BY DEF IInv, StateIsValid, TypeOK
        <2>2. slots'[active] = slots[active]
            BY <1>3, <2>1
        <2> QED BY <1>3, <2>1, <2>2 DEF StepNeverBackwards, Running
    <1> HIDE Facts, BootAssumption
    <1> USE DEF ground, SetSlot, AutomaticFallback, RecordTrialFailure, AbortBeforeWrite
    <1>4. CASE WriteComplete
        BY ZenonT(30), <1>3, <1>4 DEF WriteComplete
    <1>5. CASE \E observation \in Observation : RecordBootObservation(observation)
        BY ZenonT(30), <1>3, <1>5 DEF RecordBootObservation
    <1>6. CASE TrialFailure
        BY ZenonT(30), <1>3, <1>6 DEF TrialFailure
    <1>7. CASE ReconcilePowerLoss
        BY ZenonT(30), <1>3, <1>7 DEF ReconcilePowerLoss
    <1>8. CASE \E s \in Slot, artifact \in Artifact : BeginDownload(s, artifact)
        BY ZenonT(30), <1>3, <1>8 DEF BeginDownload
    <1>9. CASE \E artifact \in Artifact : VerifyComplete(artifact)
        BY ZenonT(30), <1>3, <1>9 DEF VerifyComplete
    <1>10. CASE DownloadComplete \/ SelectTrial \/ BeginFirstBoot \/ AckEssentialHealth \/ RotateFence
        BY ZenonT(30), <1>3, <1>10
        DEF DownloadComplete, SelectTrial, BeginFirstBoot, AckEssentialHealth, RotateFence
    <1>11. CASE UNCHANGED vars
        BY ZenonT(30), <1>3, <1>11 DEF vars
    <1> HIDE DEF ground, SetSlot, AutomaticFallback, RecordTrialFailure, AbortBeforeWrite
    <1> QED BY <1>1, <1>2, <1>4, <1>5, <1>6, <1>7, <1>8, <1>9, <1>10, <1>11 DEF Next

\* No command lowers the security floor, activates a release at or below it or without health
\* evidence, or forgets an acknowledged checkpoint.
THEOREM NeverBackwardsHolds == Spec => NeverBackwards
    BY Invariance, StepForward, PTL DEF Spec, NeverBackwards
=============================================================================
