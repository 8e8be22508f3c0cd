---------------------------- MODULE MCResources ----------------------------
(* Small instances for TLC of the two resource managers, the native one    *)
(* and the reference library's, each by itself: `part' says which.         *)
EXTENDS ResourceManager, TLC

CONSTANTS m1, a1, Owner, IdempotencyKey, MaxGeneration

\* A model worker, and an acquisition worker that starts another process.
MCProcess == {m1, a1}
MCKindOf == (m1 :> "model" @@ a1 :> "acquisition")
MCPeak == [k \in Kind |-> IF k = "model" THEN 2 ELSE 1]
MCCeiling == [k \in Kind |-> IF k = "model" THEN 0 ELSE 1]
MCForking == {a1}
MCMaxOom == [k \in Kind |-> IF k = "model" THEN 0 ELSE 1]

Observation(seq, used, total, error) ==
    [seq |-> seq, used |-> used, total |-> total, device_error |-> error]

VARIABLES part, domains, leases, nextGeneration

\* Two domains of four bytes, one of them held back; reservations of one byte, of two bytes, and
\* of one byte in each domain.
Library == INSTANCE ResourceLedger WITH
    Domain <- 1..2,
    Budget <- [d \in 1..2 |-> 4],
    Reserved <- [d \in 1..2 |-> 1],
    PressureEnter <- [d \in 1..2 |-> 4],
    PressureExit <- [d \in 1..2 |-> 2],
    Reservations <- {[d \in {1} |-> 1], [d \in {2} |-> 2], [d \in {1, 2} |-> 1]},
    Sample <- {Observation(1, 4, 4, FALSE),
               Observation(2, 1, 4, TRUE), Observation(3, 0, 3, FALSE)},
    MaxEpoch <- 2

ASSUME Library!ResourceAssumption

libraryVars == <<domains, leases, nextGeneration>>
mcVars == <<part, vars, libraryVars>>

MCInit == part \in {"manager", "library"} /\ Init /\ Library!Init

MCNext ==
    \/ part = "manager" /\ Next /\ UNCHANGED <<part, libraryVars>>
    \/ part = "library" /\ Library!Next /\ UNCHANGED <<part, vars>>

Runs(A) == part = "manager" /\ A

\* The fairness of ResourceManager.
MCSpec ==
    /\ MCInit /\ [][MCNext]_mcVars
    /\ WF_vars(Runs(Step))
    /\ SF_vars(Runs(pc = "error" /\ Fault))
    /\ WF_vars(Runs(\E p \in doomed : Exit(p)))

\* A domain accounts as allocated what the active leases hold in it (ResourceLedger).
AllocationIsLeased == part = "library" => Library!AllocationIsLeased
=============================================================================
