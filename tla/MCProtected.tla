---------------------------- MODULE MCProtected ----------------------------
(* Small instances for TLC of what the platform protects: the paired       *)
(* resource authority, its enrollment in the TPM, and time.  Each runs by  *)
(* itself: `part' says which.                                              *)
EXTENDS PairedCheckpoint, Integers, TLC

CONSTANTS l1, l2, r1, r2, MaxSecrets, MaxAdvance, Torn,
          Faulty, MaxBoot, MaxOff, MaxSuspend, MaxStep, MaxGeneration, MaxQueue, LastRound,
          Statement, MaxAge, Heartbeat, ClientAge, MaxWidth, DriftPeriod

MCLedgers == {l1, l2}
MCOneLedger == {l1}
MCRequests == {r1, r2}
MCGenesis == [ledger |-> l1, requests |-> r1]

VARIABLES part, file, place, disks, parent, index, at, secret, anchor,
          clock, producer, queue, keeper, client, floor, review

Enrollment == INSTANCE ResourceEnrollment WITH nv <- index

\* One operator of three may lie by up to three ticks; the honest ones report intervals of
\* different widths about the truth.
Utc == INSTANCE TrustedTime WITH
    Error <- << <<-1, 0>>, <<0, 1>>, <<0, 0>> >>,
    Lie <- {<<-3, -1>>, <<1, 3>>}

enrollVars == <<file, place, disks, parent, index, at, secret, anchor>>
timeVars == <<clock, producer, queue, keeper, client, floor, review>>
mcVars == <<part, vars, enrollVars, timeVars>>

AllInit == Init /\ Enrollment!EnrollInit /\ Utc!TimeInit
MCInit == part \in {"pair", "enroll", "time"} /\ AllInit

MCNext ==
    \/ part = "pair" /\ Next /\ UNCHANGED <<part, enrollVars, timeVars>>
    \/ part = "enroll" /\ Enrollment!EnrollNext /\ UNCHANGED <<part, vars, timeVars>>
    \/ part = "time" /\ Utc!TimeNext /\ UNCHANGED <<part, vars, enrollVars>>
    \/ part # "pair" /\ UNCHANGED mcVars  \* an enrollment ends, and time at its bounds

MCSpec == MCInit /\ [][MCNext]_mcVars
PairSpec == part = "pair" /\ AllInit /\ [][MCNext]_mcVars

\* The TPM's objects are those the files account for (ResourceEnrollment).
TpmIsAccountedFor == part = "enroll" => Enrollment!TpmIsAccountedFor

\* An interval that a client is given contains UTC (TrustedTime).
TruthIsCovered == part = "time" => Utc!TruthIsCovered
=============================================================================
