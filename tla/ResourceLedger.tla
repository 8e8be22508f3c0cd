--------------------------- MODULE ResourceLedger ---------------------------
(***************************************************************************)
(* resources.py: admission of memory reservations against bounded domains, *)
(* with fenced leases, pressure with hysteresis, and quarantine.  Every    *)
(* public operation runs under one re-entrant lock and is one step here;   *)
(* threads interleave between operations.  Operations that only read (hold *)
(* and assert_active, a replayed admit, a stale release) change nothing    *)
(* and are not steps.                                                      *)
(*                                                                         *)
(* A lease is known by its generation.  The idempotency map is the set of  *)
(* (owner, key) pairs of the leases, which are never deleted.              *)
(***************************************************************************)
EXTENDS Integers, FiniteSets, FiniteSetsExt

CONSTANTS
    Domain,          \* memory domains, numbered in the order of their ids
    Budget,          \* budget_bytes, reserved_bytes and the two pressure watermarks
    Reserved,
    PressureEnter,
    PressureExit,
    Owner,
    IdempotencyKey,
    Reservations,    \* canonical reservations: domains to positive byte counts
    Sample,          \* telemetry: sequence, used, total and device_error
    MaxGeneration,   \* MAX_U64
    MaxEpoch         \* bound: quarantines of one domain

\* MemoryDomain.__post_init__, MemoryReservation and TelemetrySample.
ResourceAssumption ==
    /\ Domain \subseteq Nat /\ IsFiniteSet(Domain)
    /\ \A f \in {Budget, Reserved, PressureEnter, PressureExit} : f \in [Domain -> Nat]
    /\ \A d \in Domain :
          /\ Reserved[d] < Budget[d]
          /\ Reserved[d] < PressureEnter[d] /\ PressureEnter[d] <= Budget[d]
          /\ Reserved[d] <= PressureExit[d] /\ PressureExit[d] <= PressureEnter[d]
    /\ \A r \in Reservations :
          DOMAIN r \subseteq Domain /\ DOMAIN r # {} /\ r \in [DOMAIN r -> Nat \ {0}]
    /\ Sample \subseteq [seq : Nat \ {0}, used : Nat, total : Nat \ {0}, device_error : BOOLEAN]
    /\ \A s \in Sample : s.used <= s.total
    /\ MaxGeneration \in Nat \ {0} /\ MaxEpoch \in Nat

VARIABLES
    domains,         \* _domains
    leases,          \* _leases, by generation
    nextGeneration   \* _next_generation, 0 when the space is exhausted

vars == <<domains, leases, nextGeneration>>

Generation == 1..MaxGeneration

\* observed_used_bytes is -1 and the last telemetry sequence 0 before the first sample.
DomainRecord == [alloc : Nat, used : Nat \cup {-1}, seq : Nat, epoch : 0..MaxEpoch,
                 state : {"healthy", "pressure", "quarantined"}]

LeaseRecord == [owner : Owner, key : IdempotencyKey, res : Reservations,
                status : {"active", "released", "revoked"}]

NoLease == [status |-> "none"]

TypeOK ==
    /\ domains \in [Domain -> DomainRecord]
    /\ leases \in [Generation -> LeaseRecord \cup {NoLease}]
    /\ nextGeneration \in Generation \cup {0}

Init ==
    /\ domains = [d \in Domain |-> [alloc |-> 0, used |-> -1, seq |-> 0, epoch |-> 0,
                                    state |-> "healthy"]]
    /\ leases = [g \in Generation |-> NoLease]
    /\ nextGeneration = 1
-----------------------------------------------------------------------------
Allocatable(d) == Budget[d] - Reserved[d]

Load(d, record) ==
    LET accounted == Reserved[d] + record.alloc
    IN IF record.used > accounted THEN record.used ELSE accounted

UnderPressure(d, record) ==
    IF record.state = "pressure" THEN Load(d, record) > PressureExit[d]
                                 ELSE Load(d, record) >= PressureEnter[d]

\* _recompute_state_locked
Recomputed(d, record) ==
    IF record.state = "quarantined" THEN record
    ELSE [record EXCEPT !.state = IF UnderPressure(d, record) THEN "pressure" ELSE "healthy"]

\* The records of table after those of the domains in D are recomputed.
RecomputedIn(table, D) ==
    [d \in Domain |-> IF d \in D THEN Recomputed(d, table[d]) ELSE table[d]]

\* Bytes come from or go back to the domains of a reservation, which are then recomputed.
\* _terminalize_locked on the lease's domains.
Given(table, res) ==
    RecomputedIn([d \in Domain |-> IF d \in DOMAIN res
                                   THEN [table[d] EXCEPT !.alloc = @ - res[d]]
                                   ELSE table[d]], DOMAIN res)

Taken(table, res) ==
    RecomputedIn([d \in Domain |-> IF d \in DOMAIN res
                                   THEN [table[d] EXCEPT !.alloc = @ + res[d]]
                                   ELSE table[d]], DOMAIN res)

Active == {g \in Generation : leases[g].status = "active"}

Touches(g, d) == d \in DOMAIN leases[g].res
-----------------------------------------------------------------------------
(* admit *)

\* _idempotency: the pair is remembered after release and revocation.
Replayed(owner, key) ==
    \E g \in Generation : leases[g] # NoLease /\ leases[g].owner = owner /\ leases[g].key = key

\* The loop body of admit for one reservation, after it has recomputed the record.
Passes(d, res) ==
    LET record == Recomputed(d, domains[d]) IN
        record.state = "healthy" /\ record.alloc + res[d] <= Allocatable(d)

\* _take_generation_locked
TakeGeneration ==
    /\ nextGeneration # 0
    /\ nextGeneration' = IF nextGeneration = MaxGeneration THEN 0 ELSE nextGeneration + 1

Admit(owner, key, res) ==
    /\ ~Replayed(owner, key)
    /\ \A d \in DOMAIN res : Passes(d, res)
    /\ TakeGeneration
    /\ domains' = Taken(RecomputedIn(domains, DOMAIN res), res)
    /\ leases' = [leases EXCEPT ![nextGeneration] =
                    [owner |-> owner, key |-> key, res |-> res, status |-> "active"]]

\* AdmissionDenied at domain d, the first in order that does not pass: by then the loop
\* has recomputed d and the domains before it.
Deny(owner, key, res) ==
    /\ ~Replayed(owner, key)
    /\ \E d \in DOMAIN res :
          /\ ~Passes(d, res)
          /\ \A e \in DOMAIN res : e < d => Passes(e, res)
          /\ domains' = RecomputedIn(domains, {e \in DOMAIN res : e <= d})
    /\ UNCHANGED <<leases, nextGeneration>>

\* All domains pass, but no generation is left, or one is taken and the id factory raises
\* or only repeats old ids.
AdmitFails(owner, key, res) ==
    /\ ~Replayed(owner, key)
    /\ \A d \in DOMAIN res : Passes(d, res)
    /\ domains' = RecomputedIn(domains, DOMAIN res)
    /\ \/ nextGeneration = 0 /\ UNCHANGED nextGeneration
       \/ TakeGeneration
    /\ UNCHANGED leases
-----------------------------------------------------------------------------
\* release, with the token of an active lease.
Release(g) ==
    /\ leases[g].status = "active"
    /\ domains' = Given(domains, leases[g].res)
    /\ leases' = [leases EXCEPT ![g].status = "released"]
    /\ UNCHANGED nextGeneration

\* Mutations of QuarantineIn: the leases are revoked and keep their bytes; they stay active.
QuarantineIn_KeepsBytes(table, d) ==
    LET revoked == {g \in Active : Touches(g, d)} IN
        /\ table[d].state # "quarantined" /\ table[d].epoch < MaxEpoch
        /\ domains' = [table EXCEPT ![d].state = "quarantined", ![d].epoch = @ + 1]
        /\ leases' = [g \in Generation |-> IF g \in revoked
                                           THEN [leases[g] EXCEPT !.status = "revoked"]
                                           ELSE leases[g]]

\* _quarantine_locked: every active lease that touches the domain is revoked in full, one
\* after the other.
QuarantineIn(table, d) ==
    IF table[d].state = "quarantined" THEN domains' = table /\ UNCHANGED leases
    ELSE LET revoked == {g \in Active : Touches(g, d)}
             fenced == [table EXCEPT ![d].state = "quarantined", ![d].epoch = @ + 1]
             Terminalize(g, current) == Given(current, leases[g].res)
         IN /\ table[d].epoch < MaxEpoch
            /\ domains' = FoldSet(Terminalize, fenced, revoked)
            /\ leases' = [g \in Generation |-> IF g \in revoked
                                               THEN [leases[g] EXCEPT !.status = "revoked"]
                                               ELSE leases[g]]

Quarantine(d) ==
    /\ domains[d].state # "quarantined"
    /\ QuarantineIn(domains, d)
    /\ UNCHANGED nextGeneration

\* update_telemetry with a sequence above the last one; any other sample changes nothing.
UpdateTelemetry(d, s) ==
    /\ s.seq > domains[d].seq
    /\ LET observed == [domains EXCEPT ![d].seq = s.seq, ![d].used = s.used] IN
         IF s.total < Budget[d] \/ s.device_error
         THEN QuarantineIn(observed, d)
         ELSE domains' = RecomputedIn(observed, {d}) /\ UNCHANGED leases
    /\ UNCHANGED nextGeneration

\* clear_quarantine with the current epoch; a stale one is refused.
ClearQuarantine(d) ==
    /\ domains[d].state = "quarantined"
    /\ domains' = RecomputedIn([domains EXCEPT ![d].state = "healthy"], {d})
    /\ UNCHANGED <<leases, nextGeneration>>

\* domain_snapshot and snapshots recompute what they show.
Snapshot(D) ==
    /\ domains' = RecomputedIn(domains, D)
    /\ UNCHANGED <<leases, nextGeneration>>

Next ==
    \/ \E owner \in Owner, key \in IdempotencyKey, res \in Reservations :
          Admit(owner, key, res) \/ Deny(owner, key, res) \/ AdmitFails(owner, key, res)
    \/ \E g \in Generation : Release(g)
    \/ \E d \in Domain :
          Quarantine(d) \/ ClearQuarantine(d) \/ Snapshot({d})
          \/ \E s \in Sample : UpdateTelemetry(d, s)
    \/ Snapshot(Domain)

Spec == Init /\ [][Next]_vars
-----------------------------------------------------------------------------
BytesOf(g, d) == IF Touches(g, d) THEN leases[g].res[d] ELSE 0

\* Conservation: what a domain accounts as allocated is what the active leases hold in it.
\* Release, revocation and multi-domain admission are each all or nothing.
AllocationIsLeased ==
    \A d \in Domain : domains[d].alloc = MapThenSumSet(LAMBDA g : BytesOf(g, d), Active)

=============================================================================
