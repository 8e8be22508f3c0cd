------------------------------ MODULE MCModels ------------------------------
(* Small instances for TLC of what a model worker serves from: the         *)
(* activation of a profile, the trusted content, the acquisition of packs, *)
(* the packs, the proofs that they are whole, the isolated trials and the  *)
(* qualification packages.  Each runs by itself: `part' says which.        *)
EXTENDS ModelActivation

CONSTANTS p1, q1, r1, s1, k1, Member, MaxTrust, MaxSequence, MaxRelease, MaxInstant,
          Client, Nobody

VARIABLES part,
          domain, environment, os, model, approvals, signings, assigned, drifted, skill, reader,
          granted, instant,
          disk, disks, locked, command, held, fetcher, mine, curl, staging, reviewed, packFaults,
          place, changes, proofs, attempted, at, witness, pins, answered, proofFaults,
          grant, client, done, controller, broker, authority, wire, starting, unit, result, lease,
          epoch, attached, leaseFaults,
          qaWeights, tuple, admin, run, qaJob, tester, lent, child, answer, output, report, qaFaults,
          files, platters, transfer, review, delivered, losses

\* One release request; three custodians, one of them with two activities, and a signer.
Content == INSTANCE TrustedContent WITH
    Key <- {k1},
    ModelRequest <- {[seq |-> 1, content |-> 1, signer |-> s1, key |-> k1, until |-> 2, release |-> 1]},
    Custody <- {[by |-> p1, activity |-> "license", until |-> 3],
                [by |-> q1, activity |-> "release", until |-> 3],
                [by |-> r1, activity |-> "security", until |-> 1],
                [by |-> p1, activity |-> "lab-release", until |-> 3],
                [by |-> s1, activity |-> "lab-sign", until |-> 3],
                [by |-> s1, activity |-> "sign", until |-> 3]},
    RootUntil <- 2

Packs == INSTANCE ModelPacks WITH
    worker <- fetcher, faults <- packFaults, MaxPartials <- 2, MaxRetained <- 2, MaxFaults <- 4

Proofs == INSTANCE PackProofs WITH faults <- proofFaults, MaxChanges <- 2

Acquisition == INSTANCE GrantedAcquisition WITH
    faults <- leaseFaults, MaxFaults <- 1, MaxLeases <- 2

\* One run of each scenario.
Qa == INSTANCE ModelQa WITH
    weights <- qaWeights, job <- qaJob, Run <- {q1, r1}, Cancelling <- {r1},
    MaxChanges <- 1, MaxReports <- 2, MaxQaFaults <- 1

Qualification == INSTANCE ModelQualification WITH
    Package <- {p1, q1}, MaxPending <- 2, MaxFiles <- 4, MaxLosses <- 2

contentVars == <<domain, environment, os, model, approvals, signings, assigned, drifted, skill,
                 reader, granted, instant>>
packVars == <<disk, disks, locked, command, held, fetcher, mine, curl, staging, reviewed, packFaults>>
proofVars == <<place, changes, proofs, attempted, at, witness, pins, answered, proofFaults>>
leaseVars == <<grant, client, done, controller, broker, authority, wire, starting, unit, result,
               lease, epoch, attached, leaseFaults>>
qaVars == <<qaWeights, tuple, admin, run, qaJob, tester, lent, child, answer, output, report,
            qaFaults>>
qualificationVars == <<files, platters, transfer, review, delivered, losses>>
qualityVars == <<qaVars, qualificationVars>>
mcVars == <<part, activationVars, contentVars, packVars, proofVars, leaseVars, qualityVars>>

MCInit ==
    /\ part \in {"activation", "content", "packs", "proofs", "acquisition", "qa", "qualification"}
    /\ ActivationInit /\ Content!ContentInit /\ Packs!PacksInit /\ Proofs!ProofsInit
    /\ Acquisition!AcquisitionInit /\ Qa!QaInit /\ Qualification!QualificationInit
    /\ part # "activation" => conf = NoConf
    /\ part # "content" => domain = "skill" /\ environment = "lab"

MCNext ==
    \/ /\ part = "activation" /\ ActivationNext
       /\ UNCHANGED <<part, contentVars, packVars, proofVars, leaseVars, qualityVars>>
    \/ /\ part = "content" /\ Content!ContentNext
       /\ UNCHANGED <<part, activationVars, packVars, proofVars, leaseVars, qualityVars>>
    \/ /\ part = "packs" /\ Packs!PacksNext
       /\ UNCHANGED <<part, activationVars, contentVars, proofVars, leaseVars, qualityVars>>
    \/ /\ part = "proofs" /\ Proofs!ProofsNext
       /\ UNCHANGED <<part, activationVars, contentVars, packVars, leaseVars, qualityVars>>
    \/ /\ part = "acquisition" /\ Acquisition!AcquisitionNext
       /\ UNCHANGED <<part, activationVars, contentVars, packVars, proofVars, qualityVars>>
    \/ /\ part = "qa" /\ Qa!QaNext
       /\ UNCHANGED <<part, activationVars, contentVars, packVars, proofVars, leaseVars,
                      qualificationVars>>
    \/ /\ part = "qualification" /\ Qualification!QualificationNext
       /\ UNCHANGED <<part, activationVars, contentVars, packVars, proofVars, leaseVars, qaVars>>

MCSpec == MCInit /\ [][MCNext]_mcVars

\* An authority is given only for what is admitted at that moment (TrustedContent).
AuthorityIsCurrent == [][part = "content" => Content!GivesCurrent]_mcVars

\* What is published of a pack is whole at every crash point (ModelPacks), and so is a qualification
\* package; none that was acknowledged is lost (ModelQualification).
PublishedIsWhole ==
    /\ part = "packs" => Packs!PublishedIsWhole
    /\ part = "qualification" => Qualification!DeliveredIsKept

\* A pack counts as verified only as it is in place (PackProofs), and a trial is reported only of
\* the weights and the scope that were reviewed, after its runtime is gone (ModelQa).
VerifiedIsInPlace ==
    /\ part = "proofs" => Proofs!VerifiedIsInPlace
    /\ part = "qa" => Qa!ReportIsBacked

\* A success that a client is told is that of its own lease (GrantedAcquisition).
SuccessIsBacked == [][part = "acquisition" => Acquisition!StepSuccess]_mcVars
=============================================================================
