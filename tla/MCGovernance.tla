---------------------------- MODULE MCGovernance ----------------------------
(* Small instances for TLC of what governs an operation and what is kept   *)
(* of it: the reference log of Admin authorizations, the governed          *)
(* operations and the archive of their evidence.  Each runs by itself:     *)
(* `part' says which.                                                      *)
EXTENDS AdminEventLog, TLC

CONSTANTS a1, i1,
          Operation, Retaining, Scope, MaxHead, MaxEpoch, MaxEffects, MaxBlocks, MaxRecords, Reserve,
          Command, Member, ArchiveGrace, ArchiveWidth, MaxInstant

Symmetry == Permutations(Process)

OneAssignment == [i \in {i1} |-> a1]

VARIABLES part, gov, epoch, within, policy, op, withdrawn, late,
          store, stores, resolved, cmd, instant, exported, retaken

Governed == INSTANCE GovernedOperation
Archive == INSTANCE PolicyArchive

governedVars == <<gov, epoch, within, policy, op, withdrawn, late>>
archiveVars == <<store, stores, resolved, cmd, instant, exported, retaken>>
mcVars == <<part, logVars, governedVars, archiveVars>>

MCInit ==
    /\ part \in {"log", "operation", "archive"}
    /\ LogInit /\ Governed!GovernedInit /\ Archive!ArchiveInit
    /\ part = "archive" \/ resolved

MCNext ==
    \/ part = "log" /\ LogNext /\ UNCHANGED <<part, governedVars, archiveVars>>
    \/ part = "operation" /\ Governed!GovernedNext /\ UNCHANGED <<part, logVars, archiveVars>>
    \/ part = "archive" /\ Archive!ArchiveNext /\ UNCHANGED <<part, logVars, governedVars>>
    \/ part # "log" /\ UNCHANGED mcVars  \* the others may stop at their bounds

MCSpec == MCInit /\ [][MCNext]_mcVars

\* The archive alone.
ArchiveAlone == MCInit /\ part = "archive" /\ [][MCNext]_mcVars

\* At most one part of one effect follows a withdrawal (GovernedOperation).
WithdrawalStops == part = "operation" => Governed!WithdrawalStops

\* The evidence of an operation outlives every power loss (PolicyArchive).
EvidenceSurvives == part = "archive" => Archive!EvidenceSurvives

\* What a cleanup has removed stays bound in cleanup.json (PolicyArchive).
RemovedBytesAreBound == part = "archive" => Archive!RemovedBytesAreBound
=============================================================================
