-------------------------- MODULE ResourceManager --------------------------
(* The native resource manager: the lease ledger of resources.rs and the Manager of
   resource_manager.rs that drives it from what it observes of two worker control groups.  The
   Manager is one thread of the broker: each request first runs maintain, which the loop also
   runs every 100 ms.  The workers, the kernel and the operator act between its steps.

   A lease is named by the worker process that it is for: a process has one, because its lease
   is released only when its group is empty.  Publications of the ledger are atomic, which is
   what PairedCheckpoint is about.  Domains with a limit of one execution slot stand beside the
   host's memory; the process quota, pressure and the physical loading check only refuse more,
   and are left to the choice of whether a request is made. *)
EXTENDS Integers, FiniteSets, FiniteSetsExt, TLAPS

CONSTANTS Process,       \* worker processes
          KindOf,        \* their kinds
          Peak,          \* the memory that a lease of a kind reserves
          Ceiling,       \* the memory that a group can come to hold
          Forking,       \* the processes that start others
          Budget,        \* capacity less reserve of the host
          None,
          MaxSessions,   \* bound: manager epochs
          MaxEpochs,     \* bound: epochs of all domains, but for out-of-memory kills
          MaxOom         \* bound: out-of-memory kills in each group

Kind == {"model", "acquisition"}
Host == "host"
Domain == Kind \cup {Host}

ASSUME ManagerAssumption ==
    /\ KindOf \in [Process -> Kind]
    /\ Peak \in [Kind -> Nat] /\ Ceiling \in [Kind -> Nat] /\ Budget \in Nat
    /\ Forking \subseteq Process
    /\ MaxSessions \in Nat /\ MaxEpochs \in Nat /\ MaxOom \in [Kind -> Nat]

VARIABLES lease,         \* ledger.json: the leases,
          manager,       \*   the manager epoch,
          quarantined, epochs, retained,  \* and the domains
          pc, at,        \* the step of the Manager, and the kind it is at
          pins,          \* owners whose process it holds a handle of
          unnoticed,     \* groups whose kill count is not the one that it noted last
          started, live, children,  \* processes, and those that left a descendant
          doomed,        \* processes that were sent a kill
          current,       \* bytes charged to each group
          oom,           \* kill counts of the groups
          void, told     \* acquisitions that may not vouch for an output; the last that did

ledger == <<lease, manager, quarantined, epochs, retained>>
session == <<pc, at, pins, unnoticed>>
world == <<started, live, children, doomed, current, oom>>
vars == <<ledger, session, world, void, told>>

NoLease == [state |-> "none", epoch |-> 0, output |-> None, fenced |-> FALSE,
            lapsed |-> FALSE]

Of(k) == {p \in Process : KindOf[p] = k}
Domains(p) == {Host, KindOf[p]}
Active == {p \in Process : lease[p].state = "active"}
Draining(k) == {p \in Of(k) : lease[p].state = "draining"}
Outstanding == {p \in Process : lease[p].state \in {"active", "draining"}}
Known == Outstanding \cup {p \in Process : lease[p].state = "released"}
Vouching == Known \cap Of("acquisition")
Idle(k) == Outstanding \cap Of(k) = {}
Populated(k) == (live \cup children) \cap Of(k) # {}

\* charged, of a ledger with the given outstanding leases and retained bytes.
Charged(d, outstanding, kept) ==
    IF d = Host THEN kept + MapThenSumSet(LAMBDA p : Peak[KindOf[p]], outstanding)
    ELSE Cardinality(outstanding \cap Of(d))
Limit(d) == IF d = Host THEN Budget ELSE 1

\* validate: nothing is overcommitted that is not quarantined.
Valid(outstanding, kept, held) ==
    \A d \in Domain \ held : Charged(d, outstanding, kept) <= Limit(d)

\* Manager::retained: the bytes of the groups that no lease accounts for.
Retained(idle) == MapThenSumSet(LAMBDA k : current[k], idle)
IdleKinds == {k \in Kind : Idle(k)}

\* revoke, for a reason that is the loss of the owner or another.
Revoked(l, ownerLost) ==
    [l EXCEPT !.state = IF @ = "active" THEN "draining" ELSE @,
              !.lapsed = FALSE,
              !.fenced = @ \/ (~ownerLost /\ l.output # None)]
Fenced(l) == [l EXCEPT !.fenced = @ \/ l.output # None]

\* quarantine: drain what uses the domains, and fence the outputs of released leases too.
Quarantine(leases, domains) ==
    [p \in Process |-> IF Domains(p) \cap domains = {} THEN leases[p]
                       ELSE Revoked(leases[p], FALSE)]
NewEpochs(domains) ==
    [d \in Domain |-> IF d \in domains \ quarantined THEN epochs[d] + 1 ELSE epochs[d]]

\* What MaxEpochs bounds.
EpochsSpent == MapThenSumSet(LAMBDA d : epochs[d], Domain)

\* assert_active.
IsActive(p) ==
    /\ lease[p].state = "active" /\ lease[p].epoch = manager
    /\ ~lease[p].lapsed
    /\ Domains(p) \cap quarantined = {}

\* admit, with the bytes that are retained beside the new lease.
admit(p, kept) ==
    /\ Domains(p) \cap quarantined = {}
    /\ Valid(Outstanding \cup {p}, kept, quarantined)

\* complete_output: the output is bound to the epochs of the domains of its lease.
OutputEpochs(p) == [d \in Domains(p) |-> epochs[d]]

\* finish_draining of some leases.
Finished(drained) ==
    [p \in Process |-> IF p \in drained THEN [lease[p] EXCEPT !.state = "released"] ELSE lease[p]]

Init ==
    /\ lease = [p \in Process |-> NoLease]
    /\ manager = 0 /\ quarantined = {} /\ epochs = [d \in Domain |-> 1] /\ retained = 0
    /\ pc = "down" /\ at = "model" /\ pins = {} /\ unnoticed = {}
    /\ started = {} /\ live = {} /\ children = {} /\ doomed = {}
    /\ current = [k \in Kind |-> 0] /\ oom = [k \in Kind |-> 0]
    /\ void = {} /\ told = None
-----------------------------------------------------------------------------
(* A session of the manager *)

\* open: restart fences every lease and every output.
Open ==
    /\ pc = "down" /\ pc' = "authority"
    /\ manager < MaxSessions /\ manager' = manager + 1
    /\ lease' = [p \in Process |-> Revoked(lease[p], FALSE)]
    /\ unnoticed' = {}
    /\ void' = void \cup Vouching /\ told' = None
    /\ UNCHANGED <<quarantined, epochs, retained, at, pins, world>>

\* fence_on_fault, fence_unavailable: freeze and kill both groups.
KillAll == doomed' = live \cup children

\* A maintain that failed in the loop, or a publication that left the store poisoned.
Fault ==
    /\ pc # "down" /\ pc' = "down"
    /\ KillAll /\ told' = None /\ pins' = {} /\ at' = "model"
    /\ UNCHANGED <<ledger, unnoticed, started, live, children, current, oom, void>>

OpenFails ==
    /\ pc = "down" /\ KillAll
    /\ UNCHANGED <<ledger, session, started, live, children, current, oom, void, told>>

\* A maintain that failed in a request refuses only that.
Refuse ==
    /\ pc = "error" /\ pc' = "authority"
    /\ UNCHANGED <<ledger, at, pins, unnoticed, world, void, told>>

\* The kills that a maintain takes note of void what the leases of the domain vouch for.
Missed == {p \in Vouching : KindOf[p] \in unnoticed}

\* completed_lease.
CompletedLease(p) ==
    /\ lease[p].state = "released" /\ lease[p].epoch = manager
    /\ lease[p].output # None /\ ~lease[p].fenced

\* maintain: the principal of a governed acquisition is gone, or says that it has completed.
Authority ==
    /\ pc = "authority" /\ pc' = "observe"
    /\ \/ UNCHANGED <<lease, void>> /\ told' = None
       \/ \E p \in Vouching :
            /\ lease' = [lease EXCEPT ![p] = Revoked(@, FALSE)]
            /\ void' = void \cup {p} /\ told' = None
       \/ \E p \in Vouching :
            /\ CompletedLease(p)
            /\ told' = p /\ UNCHANGED <<lease, void>>
    /\ UNCHANGED <<manager, quarantined, epochs, retained, at, pins, unnoticed, world>>

\* maintain: fenced inference requests revoke the lease of their worker; then expiry, the kill
\* counts, the state of the host, and the retained bytes.
Observe ==
    /\ pc = "observe"
    /\ \E cancelled \in {{}} \cup {{p} : p \in Active \cap Of("model")}, hostFault \in BOOLEAN :
         LET struck == unnoticed \cup (IF hostFault THEN {Host} ELSE {})
             fenced == [p \in Process |-> IF p \in cancelled \/ lease[p].lapsed
                                          THEN Revoked(lease[p], FALSE) ELSE lease[p]]
             kept == Retained(IdleKinds)
         IN  /\ hostFault => EpochsSpent < MaxEpochs
             /\ IF Valid(Outstanding, kept, quarantined \cup struck)
                THEN /\ lease' = Quarantine(fenced, struck)
                     /\ epochs' = NewEpochs(struck)
                     /\ quarantined' = quarantined \cup struck
                     /\ retained' = kept
                     /\ unnoticed' = {}
                     /\ pc' = "owners"
                     /\ void' = void \cup Missed
                ELSE /\ lease' = [p \in Process |-> IF p \in cancelled
                                    THEN Revoked(lease[p], FALSE) ELSE lease[p]]
                     /\ pc' = "error"
                     /\ UNCHANGED <<epochs, quarantined, retained, unnoticed, void>>
    /\ told' = None
    /\ UNCHANGED <<manager, at, pins, world>>

\* maintain: each active lease loses its owner, its owner's identity or its limits, or goes on.
Owners ==
    /\ pc = "owners" /\ pc' = "drain" /\ at' = "model"
    /\ \E changed \in SUBSET (Active \cap live), unlimited \in SUBSET Kind :
         LET lost == Active \ (live \cap pins)
             struck == {k \in unlimited : (Active \ (lost \cup changed)) \cap Of(k) # {}}
             revoked == [p \in Process |-> IF p \in lost \cup changed
                                           THEN Revoked(lease[p], p \notin changed) ELSE lease[p]]
         IN  /\ unlimited = struck
             /\ struck # {} => EpochsSpent < MaxEpochs
             /\ lease' = Quarantine(revoked, struck)
             /\ epochs' = NewEpochs(struck)
             /\ quarantined' = quarantined \cup struck
    /\ UNCHANGED <<manager, retained, pins, unnoticed, world, void, told>>

NextKind == IF at = "model" THEN at' = "acquisition" /\ pc' = "drain"
            ELSE at' = "model" /\ pc' = "ready"

\* Mutant: the group is only watched.
Drain_NoKill ==
    /\ pc = "drain" /\ pc' = "check"
    /\ UNCHANGED <<ledger, at, pins, unnoticed, world, void, told>>

\* maintain: freeze and kill a populated group that has a draining lease.
Drain ==
    /\ pc = "drain" /\ pc' = "check"
    /\ doomed' = IF Draining(at) # {} THEN doomed \cup ((live \cup children) \cap Of(at))
                 ELSE doomed
    /\ UNCHANGED <<ledger, at, pins, unnoticed, started, live, children, current, oom,
                   void, told>>

\* Mutant: a lease is released when its owner is gone, whatever else the group still runs.
Check_OwnerGone ==
    /\ pc = "check" /\ NextKind
    /\ LET drained == Draining(at) \ live
       IN  /\ lease' = Finished(drained)
           /\ pins' = pins \ drained
    /\ UNCHANGED <<manager, quarantined, epochs, retained, unnoticed, world, void, told>>

\* maintain: finish_draining of what an empty group held, with the bytes that are still charged,
\* and, when nothing of the group is leased, reclaim_idle.
Check ==
    /\ pc = "check"
    /\ IF Populated(at) THEN NextKind /\ UNCHANGED <<lease, retained, pins, current>>
       ELSE LET drained == Draining(at)
                idle == IF Outstanding \cap Of(at) = drained THEN IdleKinds \cup {at} ELSE IdleKinds
                kept == IF drained = {} THEN retained ELSE Retained(IdleKinds \cup {at})
            IN  IF ~Valid(Outstanding \ drained, kept, quarantined)
                THEN pc' = "error" /\ UNCHANGED <<at, lease, retained, pins, current>>
                ELSE /\ lease' = Finished(drained)
                     /\ pins' = pins \ drained
                     /\ \/ retained' = kept /\ NextKind /\ UNCHANGED current
                        \/ /\ at \in idle
                           /\ \E bytes \in 0 .. current[at] :
                                current' = [current EXCEPT ![at] = bytes]
                           /\ LET left == MapThenSumSet(LAMBDA k : current'[k], idle)
                              IN  IF Valid(Outstanding \ drained, left, quarantined)
                                  THEN retained' = left /\ NextKind
                                  ELSE retained' = kept /\ pc' = "error" /\ UNCHANGED at
    /\ UNCHANGED <<manager, quarantined, epochs, unnoticed, started, live, children, doomed, oom,
                   void, told>>
-----------------------------------------------------------------------------
(* handle, after its maintain *)

Handle == pc = "ready" /\ pc' = "authority" /\ UNCHANGED <<at, unnoticed>>

\* The loop's next maintain.
Tick ==
    /\ Handle
    /\ UNCHANGED <<ledger, pins, world, void, told>>

\* resource-acquire, for a worker alone in its group; what the group already holds is moved from
\* the retained bytes to the lease.  A replay finds the lease as it is.
Acquire(p) ==
    /\ Handle
    /\ p \in live
    /\ IF lease[p].state # "none" THEN IsActive(p) /\ UNCHANGED <<lease, retained>>
       ELSE LET k == KindOf[p]
                kept == Retained(IdleKinds) - current[k]
            IN  /\ Idle(k)
                /\ live \cap Of(k) = {p} /\ children \cap Of(k) = {}
                /\ current[k] <= Peak[k]
                /\ admit(p, kept)
                /\ lease' = [lease EXCEPT ![p] =
                               [NoLease EXCEPT !.state = "active", !.epoch = manager]]
                /\ retained' = kept
    /\ pins' = pins \cup {p}
    /\ UNCHANGED <<manager, quarantined, epochs, world, void, told>>

\* resource-renew.
Renew(p) ==
    /\ Handle
    /\ p \in live /\ IsActive(p)
    /\ UNCHANGED <<ledger, pins, world, void, told>>

\* resource-output-complete, for an acquisition whose binding this session holds.
CompleteOutput(p) ==
    /\ Handle
    /\ p \in live \cap pins \cap Of("acquisition") /\ IsActive(p)
    /\ lease[p].output \in {None, OutputEpochs(p)}
    /\ lease' = [lease EXCEPT ![p].output = OutputEpochs(p)]
    /\ UNCHANGED <<manager, quarantined, epochs, retained, pins, world, void, told>>

\* Mutant: the fence on the output is not looked at.
CommittedReceipt_IgnoresFence(p) ==
    /\ p \in Vouching /\ lease[p].output # None
    /\ lease[p].epoch = manager
    /\ Domains(p) \cap quarantined = {}
    /\ \A d \in Domains(p) : lease[p].output[d] = epochs[d]

\* committed_receipt.
CommittedReceipt(p) ==
    /\ p \in Vouching /\ lease[p].output # None
    /\ lease[p].epoch = manager
    /\ Domains(p) \cap quarantined = {}
    /\ \A d \in Domains(p) : lease[p].output[d] = epochs[d]
    /\ ~lease[p].fenced

\* resource-output-receipt.
Receipt(p) ==
    /\ Handle
    /\ CommittedReceipt(p)
    /\ told' = p
    /\ UNCHANGED <<ledger, pins, world, void>>

\* resource-revoke, whose own maintain is the next one.
Revoke(p) ==
    /\ Handle
    /\ p \in Known
    /\ lease' = [lease EXCEPT ![p] = Revoked(@, FALSE)]
    /\ void' = void \cup ({p} \cap Vouching) /\ told' = None
    /\ UNCHANGED <<manager, quarantined, epochs, retained, pins, world>>

\* resource-reconcile: clear_quarantine.
Reconcile ==
    /\ Handle
    /\ \A k \in Kind : ~Populated(k)
    /\ Outstanding = {}
    /\ EpochsSpent <= MaxEpochs
    /\ epochs' = [d \in Domain |-> epochs[d] + 1] /\ quarantined' = {}
    /\ Valid({}, retained, {})
    /\ lease' = [p \in Process |-> Fenced(lease[p])]
    /\ void' = void \cup Vouching /\ told' = None
    /\ UNCHANGED <<manager, retained, pins, world>>

\* resource-archive: the leases leave the ledger, and their owners are retired.
Archive ==
    /\ Handle
    /\ \A k \in Kind : ~Populated(k)
    /\ pins = {} /\ Outstanding = {} /\ Known # {}
    /\ manager < MaxSessions /\ manager' = manager + 1
    /\ lease' = [p \in Process |-> IF p \in Known THEN [NoLease EXCEPT !.state = "archived"]
                                   ELSE lease[p]]
    /\ void' = void \cup Vouching /\ told' = None
    /\ UNCHANGED <<quarantined, epochs, retained, pins, world>>
-----------------------------------------------------------------------------
(* The world *)

Start(p) ==
    /\ p \notin started
    /\ started' = started \cup {p} /\ live' = live \cup {p}
    /\ UNCHANGED <<ledger, session, children, doomed, current, oom, void, told>>

Fork(p) ==
    /\ p \in (live \cap Forking) \ (children \cup doomed)
    /\ children' = children \cup {p}
    /\ UNCHANGED <<ledger, session, started, live, doomed, current, oom, void, told>>

Exit(p) ==
    /\ \/ p \in live /\ live' = live \ {p} /\ UNCHANGED children
       \/ p \in children /\ children' = children \ {p} /\ UNCHANGED live
    /\ doomed' = doomed \cap (live' \cup children')
    /\ UNCHANGED <<ledger, session, started, current, oom, void, told>>

\* Bytes come with processes and may stay behind as cache.
Use(k) ==
    /\ \E bytes \in (0 .. (IF Populated(k) THEN Ceiling[k] ELSE current[k])) \ {current[k]} :
         current' = [current EXCEPT ![k] = bytes]
    /\ UNCHANGED <<ledger, session, started, live, children, doomed, oom, void, told>>

Oom(p) ==
    /\ p \in live
    /\ oom[KindOf[p]] < MaxOom[KindOf[p]] /\ oom' = [oom EXCEPT ![KindOf[p]] = @ + 1]
    /\ unnoticed' = unnoticed \cup {KindOf[p]}
    /\ live' = live \ {p} /\ doomed' = doomed \cap (live' \cup children)
    /\ UNCHANGED <<ledger, pc, at, pins, started, children, current, void, told>>

\* The deadline of a lease passes.
Lapse(p) ==
    /\ p \in Active /\ ~lease[p].lapsed
    /\ lease' = [lease EXCEPT ![p].lapsed = TRUE]
    /\ UNCHANGED <<manager, quarantined, epochs, retained, session, world, void, told>>

\* The broker dies, and its workers go on; or everything stops.
Crash ==
    /\ pc # "down" /\ pc' = "down" /\ told' = None /\ pins' = {} /\ at' = "model"
    /\ UNCHANGED <<ledger, unnoticed, world, void>>

Reboot ==
    /\ pc' = "down" /\ told' = None /\ pins' = {} /\ at' = "model"
    /\ live' = {} /\ children' = {} /\ doomed' = {}
    /\ current' = [k \in Kind |-> 0]
    /\ UNCHANGED <<ledger, unnoticed, started, oom, void>>

Step == Refuse \/ Authority \/ Observe \/ Owners \/ Drain \/ Check \/ Tick
Request ==
    \/ \E p \in Process : Acquire(p) \/ Renew(p) \/ CompleteOutput(p) \/ Receipt(p) \/ Revoke(p)
    \/ Reconcile \/ Archive
World ==
    \/ \E p \in Process : Start(p) \/ Fork(p) \/ Exit(p) \/ Oom(p) \/ Lapse(p)
    \/ \E k \in Kind : Use(k)
    \/ Crash \/ Reboot

Next == Open \/ Fault \/ OpenFails \/ Step \/ Request \/ World

\* The loop goes on taking steps and fences what keeps failing, and a kill takes effect.
Fairness ==
    /\ WF_vars(Step)
    /\ SF_vars(Fault /\ pc = "error")
    /\ WF_vars(\E p \in doomed : Exit(p))

Spec == Init /\ [][Next]_vars /\ Fairness
-----------------------------------------------------------------------------
(* What the manager keeps *)

Remaining == live \cup children

\* A lease is charged for as long as its worker or anything the worker started is alive, over
\* restarts of the broker, expiry, revocation, quarantine and archival.
CapacityHeldUntilDrained ==
    \A p \in Remaining : lease[p].state \in {"none", "active", "draining"}

\* No receipt is given, and no completion acknowledged, for an output whose lease was revoked, was
\* there before a restart, a review or an archival, or shared its group with a kill for memory
\* that a maintain took note of.  A receipt follows a maintain that took note of every kill the
\* counters showed; a completion is acknowledged before the counters are read.
ReceiptIsCurrent == told # None => told \notin void

\* In a session that lasts, a lease that drains is released.
DrainingEnds ==
    \A p \in Process :
        (pc # "down" /\ lease[p].state = "draining")
            ~> (pc = "down" \/ lease[p].state # "draining")
-----------------------------------------------------------------------------
(* CapacityHeldUntilDrained and ReceiptIsCurrent, for any processes, kinds, capacities and number
   of sessions.  A process that runs was started, one with a lease was started, and what a lease
   in `void' vouched for stays fenced: that is what makes them inductive. *)

Lease == [state : {"none", "active", "draining", "released", "archived"}, epoch : Nat,
          output : {None} \cup [{Host, "model"} -> Nat] \cup [{Host, "acquisition"} -> Nat],
          fenced : BOOLEAN, lapsed : BOOLEAN]

\* The retained bytes are a sum, about which nothing is claimed here.
TypeOK ==
    /\ lease \in [Process -> Lease] /\ manager \in Nat
    /\ quarantined \subseteq Domain /\ epochs \in [Domain -> Nat]
    /\ pc \in {"down", "authority", "observe", "owners", "drain", "check", "ready", "error"}
    /\ at \in Kind /\ pins \subseteq Process /\ unnoticed \subseteq Kind
    /\ started \subseteq Process /\ live \subseteq started /\ children \subseteq started
    /\ void \subseteq Process /\ told \in Process \cup {None}

\* Only a process that was started has a lease.
LeasedIsStarted == \A p \in Process : lease[p].state # "none" => p \in started

\* What may not be vouched for: its lease is over, and its output, if it has one, is fenced.
Spoilt(l) == /\ l.state \in {"draining", "released", "archived"}
             /\ l.output # None => l.fenced
VoidIsFenced == \A p \in void : Spoilt(lease[p])

IInv == TypeOK /\ LeasedIsStarted /\ CapacityHeldUntilDrained /\ VoidIsFenced /\ ReceiptIsCurrent

\* What revocation, quarantine and fencing do to one lease.
LEMMA RevokedLease ==
    ASSUME NEW l \in Lease, NEW lost \in BOOLEAN
    PROVE  /\ Revoked(l, lost) \in Lease
           /\ Revoked(l, lost).output = l.output /\ Revoked(l, lost).epoch = l.epoch
           /\ Revoked(l, lost).state = IF l.state = "active" THEN "draining" ELSE l.state
           /\ Spoilt(l) => Spoilt(Revoked(l, lost))
           /\ l.state \in {"active", "draining", "released"} /\ ~lost => Spoilt(Revoked(l, lost))
<1> DEFINE fenced == l.fenced \/ (~lost /\ l.output # None)
<1> DEFINE r == Revoked(l, lost)
<1>1. r = [l EXCEPT !.state = IF l.state = "active" THEN "draining" ELSE l.state,
                    !.lapsed = FALSE, !.fenced = fenced]
  BY DEF Revoked
<1>2. fenced \in BOOLEAN /\ (l.fenced => fenced) /\ (~lost /\ l.output # None => fenced)
  BY DEF Lease
<1> HIDE DEF fenced, r
<1>3. /\ r \in Lease /\ r.output = l.output /\ r.epoch = l.epoch
      /\ r.state = IF l.state = "active" THEN "draining" ELSE l.state
  BY ZenonT(30), <1>1, <1>2 DEF Lease
<1>4. r.fenced = fenced
  BY <1>1 DEF Lease
<1>5. Spoilt(l) => Spoilt(r)
  BY <1>2, <1>3, <1>4 DEF Spoilt
<1>6. l.state \in {"active", "draining", "released"} /\ ~lost => Spoilt(r)
  BY <1>2, <1>3, <1>4 DEF Spoilt
<1>7. QED
  BY <1>3, <1>5, <1>6 DEF r

\* How a lease that is not acquired, completed, released or archived may change.
Onward(l, m) ==
    /\ m \in Lease /\ (Spoilt(l) => Spoilt(m))
    /\ m.state = l.state \/ (l.state = "active" /\ m.state = "draining")

LEMMA OnwardRevoked ==
    ASSUME NEW l \in Lease, NEW lost \in BOOLEAN
    PROVE  /\ Onward(l, l) /\ Onward(l, Revoked(l, lost))
           /\ \A m : Onward(m, l) => Onward(m, Revoked(l, lost))
BY RevokedLease DEF Onward

\* quarantine, of leases that already went onward.
LEMMA OnwardQuarantine ==
    ASSUME NEW leases, NEW struck, \A p \in Process : Onward(lease[p], leases[p])
    PROVE  /\ \A p \in Process : Onward(lease[p], Quarantine(leases, struck)[p])
           /\ \A p \in Process : /\ KindOf[p] \in struck
                                 /\ leases[p].state \in {"active", "draining", "released"}
                                 => Spoilt(Quarantine(leases, struck)[p])
           /\ Quarantine(leases, struck) \in [Process -> Lease]
<1>1. \A p \in Process : leases[p] \in Lease
  BY DEF Onward
<1>2. ASSUME NEW p \in Process PROVE Onward(lease[p], Quarantine(leases, struck)[p])
  <2>1. CASE Domains(p) \cap struck = {}
    BY ZenonT(30), <2>1 DEF Quarantine
  <2>2. CASE Domains(p) \cap struck # {}
    <3>1. Quarantine(leases, struck)[p] = Revoked(leases[p], FALSE)
      BY ZenonT(30), <2>2 DEF Quarantine
    <3>2. QED
      BY ZenonT(30), <1>1, <3>1, OnwardRevoked
  <2>3. QED
    BY <2>1, <2>2
<1>3. ASSUME NEW p \in Process, KindOf[p] \in struck,
             leases[p].state \in {"active", "draining", "released"}
      PROVE  Spoilt(Quarantine(leases, struck)[p])
  <2>1. Quarantine(leases, struck)[p] = Revoked(leases[p], FALSE)
    BY ZenonT(30), <1>3 DEF Quarantine, Domains
  <2>2. QED
    BY ZenonT(30), <1>1, <1>3, <2>1, RevokedLease
<1>4. Quarantine(leases, struck) \in [Process -> Lease]
  BY ZenonT(30), <1>2 DEF Onward, Quarantine
<1>5. QED
  BY <1>2, <1>3, <1>4

\* Steps that take leases onward and leave the processes alone.
LEMMA OnwardStep ==
    ASSUME IInv, lease' \in [Process -> Lease], \A p \in Process : Onward(lease[p], lease'[p]),
           UNCHANGED <<started, live, children>>,
           \A p \in void' : p \in void \/ Spoilt(lease'[p])
    PROVE  LeasedIsStarted' /\ CapacityHeldUntilDrained' /\ VoidIsFenced'
<1>1. LeasedIsStarted'
  BY DEF IInv, LeasedIsStarted, Onward
<1>2. CapacityHeldUntilDrained'
  <2> SUFFICES ASSUME NEW p \in live \cup children
               PROVE  lease'[p].state \in {"none", "active", "draining"}
    BY DEF CapacityHeldUntilDrained, Remaining
  <2>1. p \in Process /\ lease[p].state \in {"none", "active", "draining"}
    BY DEF IInv, TypeOK, CapacityHeldUntilDrained, Remaining
  <2>2. QED
    BY <2>1 DEF Onward
<1>3. VoidIsFenced'
  BY DEF IInv, TypeOK, VoidIsFenced, Onward
<1>4. QED
  BY <1>1, <1>2, <1>3

LEMMA LeaseFacts ==
    ASSUME IInv
    PROVE  /\ \A p \in Process : lease[p] \in Lease /\ Onward(lease[p], lease[p])
           /\ Active \subseteq Process /\ Known \subseteq Process /\ Vouching \subseteq Known
           /\ Outstanding \subseteq Known
           /\ \A p \in Known : lease[p].state \in {"active", "draining", "released"}
           /\ \A k \in Kind : Domain \cap {Host, k} = {Host, k}
BY ZenonT(30), OnwardRevoked DEF IInv, TypeOK, Active, Known, Vouching, Outstanding, Domain

LEMMA NewEpochsType == ASSUME TypeOK, NEW struck PROVE NewEpochs(struck) \in [Domain -> Nat]
BY DEF TypeOK, NewEpochs

\* The steps that write no lease.
LEMMA QuietStep ==
    ASSUME IInv, UNCHANGED <<lease, void>>, UNCHANGED <<manager, quarantined, epochs, started>>,
           pc' \in {"down", "authority", "observe", "owners", "drain", "check", "ready", "error"},
           at' \in Kind, pins' \subseteq Process, unnoticed' \subseteq Kind,
           live' \subseteq live, children' \subseteq live \cup children,
           told' \in {told, None}
    PROVE  IInv'
<1>1. TypeOK'
  BY DEF IInv, TypeOK
<1>2. LeasedIsStarted' /\ VoidIsFenced' /\ ReceiptIsCurrent'
  BY DEF IInv, LeasedIsStarted, VoidIsFenced, ReceiptIsCurrent
<1>3. CapacityHeldUntilDrained'
  BY DEF IInv, CapacityHeldUntilDrained, Remaining
<1>4. QED
  BY <1>1, <1>2, <1>3 DEF IInv

LEMMA QuietSteps ==
    ASSUME IInv,
           \/ Fault \/ OpenFails \/ Refuse \/ Drain \/ Tick \/ Crash \/ Reboot
           \/ (\E k \in Kind : Use(k))
           \/ (\E p \in Process : Renew(p) \/ Fork(p) \/ Exit(p) \/ Oom(p))
           \/ UNCHANGED vars
    PROVE  IInv'
<1> USE QuietStep
<1>0. TypeOK /\ "model" \in Kind
  BY DEF IInv, Kind
<1>1. CASE Fault \/ OpenFails \/ Refuse
  BY <1>0, <1>1 DEF Fault, OpenFails, Refuse, TypeOK, ledger, session, world
<1>2. CASE Drain \/ Tick
  BY <1>0, <1>2 DEF Drain, Tick, Handle, TypeOK, ledger, session, world
<1>3. CASE Crash \/ Reboot
  BY <1>0, <1>3 DEF Crash, Reboot, TypeOK, ledger, session, world
<1>4. ASSUME NEW k \in Kind, Use(k) PROVE IInv'
  BY <1>0, <1>4 DEF Use, TypeOK, ledger, session, world
<1>5. ASSUME NEW p \in Process, Renew(p) PROVE IInv'
  BY <1>0, <1>5 DEF Renew, Handle, TypeOK, ledger, session, world
<1>6. ASSUME NEW p \in Process, Fork(p) PROVE IInv'
  BY <1>0, <1>6 DEF Fork, TypeOK, ledger, session, world
<1>7. ASSUME NEW p \in Process, Exit(p) PROVE IInv'
  BY <1>0, <1>7 DEF Exit, TypeOK, ledger, session, world
<1>8. ASSUME NEW p \in Process, Oom(p) PROVE IInv'
  BY <1>0, <1>8, ManagerAssumption DEF Oom, TypeOK, ledger, session, world
<1>9. CASE UNCHANGED vars
  BY <1>0, <1>9 DEF TypeOK, vars, ledger, session, world
<1>10. QED
  BY <1>1, <1>2, <1>3, <1>4, <1>5, <1>6, <1>7, <1>8, <1>9

\* A new process has no lease: an owner that was retired does not come back.
LEMMA StartStep == ASSUME IInv, NEW p \in Process, Start(p) PROVE IInv'
<1>1. lease[p].state = "none"
  BY DEF IInv, LeasedIsStarted, Start
<1>2. TypeOK'
  BY DEF IInv, TypeOK, Start, ledger, session
<1>3. LeasedIsStarted' /\ VoidIsFenced' /\ ReceiptIsCurrent'
  BY DEF IInv, LeasedIsStarted, VoidIsFenced, ReceiptIsCurrent, Start, ledger, session
<1>4. CapacityHeldUntilDrained'
  BY <1>1 DEF IInv, CapacityHeldUntilDrained, Remaining, Start, ledger, session
<1>5. QED
  BY <1>2, <1>3, <1>4 DEF IInv

\* A receipt is only given for what is not fenced.
LEMMA ReceiptStep == ASSUME IInv, NEW p \in Process, Receipt(p) PROVE IInv'
<1>1. p \notin void
  BY DEF IInv, VoidIsFenced, Spoilt, Receipt, CommittedReceipt
<1>2. TypeOK'
  BY DEF IInv, TypeOK, Receipt, Handle, ledger, world
<1>3. LeasedIsStarted' /\ VoidIsFenced' /\ ReceiptIsCurrent'
  BY <1>1 DEF IInv, LeasedIsStarted, VoidIsFenced, ReceiptIsCurrent, Receipt, ledger, world
<1>4. CapacityHeldUntilDrained'
  BY DEF IInv, CapacityHeldUntilDrained, Remaining, Receipt, ledger, world
<1>5. QED
  BY <1>2, <1>3, <1>4 DEF IInv

LEMMA OpenStep == ASSUME IInv, Open PROVE IInv'
<1>1. \A p \in Process : /\ lease'[p] = Revoked(lease[p], FALSE) /\ Onward(lease[p], lease'[p])
  BY ZenonT(30), LeaseFacts, OnwardRevoked DEF Open
<1>2. lease' \in [Process -> Lease]
  BY ZenonT(30), <1>1 DEF Open, Onward
<1>3. \A p \in Vouching : Spoilt(lease'[p])
  BY ZenonT(30), <1>1, LeaseFacts, RevokedLease
<1>4. LeasedIsStarted' /\ CapacityHeldUntilDrained' /\ VoidIsFenced'
  BY ZenonT(30), <1>1, <1>2, <1>3, OnwardStep DEF Open, world
<1>5. void' \subseteq Process
  BY LeaseFacts DEF IInv, TypeOK, Open
<1>6. /\ UNCHANGED <<quarantined, epochs, at, pins, started, live, children>>
      /\ pc' = "authority" /\ manager' = manager + 1 /\ unnoticed' = {} /\ told' = None
  BY DEF Open, world
<1>7. TypeOK' /\ ReceiptIsCurrent'
  BY <1>2, <1>5, <1>6 DEF IInv, TypeOK, ReceiptIsCurrent
<1>8. QED
  BY <1>4, <1>7 DEF IInv

LEMMA AuthorityStep == ASSUME IInv, Authority PROVE IInv'
<1>1. CASE UNCHANGED <<lease, void>> /\ told' = None
  BY <1>1, QuietStep DEF Authority, IInv, TypeOK, world
<1>2. ASSUME NEW p \in Vouching, lease' = [lease EXCEPT ![p] = Revoked(@, FALSE)],
             void' = void \cup {p}, told' = None
      PROVE  IInv'
  <2>1. p \in Process /\ lease[p] \in Lease /\ lease \in [Process -> Lease]
    BY LeaseFacts DEF IInv, TypeOK
  <2>2. Revoked(lease[p], FALSE) \in Lease /\ Onward(lease[p], Revoked(lease[p], FALSE))
        /\ Spoilt(Revoked(lease[p], FALSE))
    BY ZenonT(30), <2>1, LeaseFacts, RevokedLease, OnwardRevoked
  <2>3. lease' \in [Process -> Lease] /\ lease'[p] = Revoked(lease[p], FALSE)
        /\ \A q \in Process \ {p} : lease'[q] = lease[q]
    BY ZenonT(30), <1>2, <2>1, <2>2
  <2>4. \A q \in Process : Onward(lease[q], lease'[q])
    BY ZenonT(30), <2>2, <2>3, LeaseFacts
  <2>5. LeasedIsStarted' /\ CapacityHeldUntilDrained' /\ VoidIsFenced'
    BY ZenonT(30), <1>2, <2>2, <2>3, <2>4, OnwardStep DEF Authority, world
  <2>6. TypeOK' /\ ReceiptIsCurrent'
    BY ZenonT(30), <1>2, <2>1, <2>3 DEF IInv, TypeOK, ReceiptIsCurrent, Authority, world
  <2>7. QED
    BY <2>5, <2>6 DEF IInv
<1>3. ASSUME NEW p \in Vouching, CompletedLease(p), told' = p, UNCHANGED <<lease, void>>
      PROVE  IInv'
  <2>1. p \notin void /\ p \in Process
    BY <1>3, LeaseFacts DEF IInv, VoidIsFenced, Spoilt, CompletedLease
  <2>2. TypeOK'
    BY <1>3, <2>1 DEF IInv, TypeOK, Authority, world
  <2>3. LeasedIsStarted' /\ VoidIsFenced' /\ ReceiptIsCurrent'
    BY <1>3, <2>1 DEF IInv, LeasedIsStarted, VoidIsFenced, ReceiptIsCurrent, Authority, world
  <2>4. CapacityHeldUntilDrained'
    BY <1>3 DEF IInv, CapacityHeldUntilDrained, Remaining, Authority, world
  <2>5. QED
    BY <2>2, <2>3, <2>4 DEF IInv
<1>4. QED
  BY ZenonT(30), <1>1, <1>2, <1>3 DEF Authority

\* What a maintain revokes, fences for a kill, and voids.
LEMMA ObserveStep == ASSUME IInv, Observe PROVE IInv'
<1>1. PICK cancelled \in {{}} \cup {{p} : p \in Active \cap Of("model")}, hostFault \in BOOLEAN :
         LET struck == unnoticed \cup (IF hostFault THEN {Host} ELSE {})
             fenced == [p \in Process |-> IF p \in cancelled \/ lease[p].lapsed
                                          THEN Revoked(lease[p], FALSE) ELSE lease[p]]
         IN  \/ /\ lease' = Quarantine(fenced, struck)
                /\ epochs' = NewEpochs(struck)
                /\ quarantined' = quarantined \cup struck
                /\ unnoticed' = {}
                /\ pc' = "owners"
                /\ void' = void \cup Missed
             \/ /\ lease' = [p \in Process |-> IF p \in cancelled
                                    THEN Revoked(lease[p], FALSE) ELSE lease[p]]
                /\ pc' = "error"
                /\ UNCHANGED <<epochs, quarantined, unnoticed, void>>
  BY ZenonT(30) DEF Observe
<1> DEFINE struck == unnoticed \cup (IF hostFault THEN {Host} ELSE {})
           fenced == [p \in Process |-> IF p \in cancelled \/ lease[p].lapsed
                                        THEN Revoked(lease[p], FALSE) ELSE lease[p]]
<1>2. struck \subseteq Domain /\ unnoticed \subseteq struck
  BY DEF IInv, TypeOK, Domain
<1>3. \A p \in Process : Onward(lease[p], fenced[p])
  BY ZenonT(30), LeaseFacts, OnwardRevoked
<1>4. \A p \in Vouching : fenced[p].state \in {"active", "draining", "released"}
  BY ZenonT(30), <1>3, LeaseFacts DEF Onward
<1>5. UNCHANGED <<started, live, children, manager, at, pins>> /\ told' = None
  BY DEF Observe, world
<1>6. CASE /\ lease' = Quarantine(fenced, struck) /\ epochs' = NewEpochs(struck)
           /\ quarantined' = quarantined \cup struck /\ unnoticed' = {}
           /\ pc' = "owners" /\ void' = void \cup Missed
  <2> HIDE DEF struck, fenced
  <2>1. /\ lease' \in [Process -> Lease] /\ \A p \in Process : Onward(lease[p], lease'[p])
        /\ \A p \in Missed : Spoilt(lease'[p])
    BY <1>2, <1>3, <1>4, <1>6, OnwardQuarantine, LeaseFacts DEF Missed
  <2>2. Missed \subseteq Process
    BY LeaseFacts DEF Missed
  <2>3. LeasedIsStarted' /\ CapacityHeldUntilDrained' /\ VoidIsFenced'
    BY <1>5, <1>6, <2>1, OnwardStep
  <2>4. TypeOK' /\ ReceiptIsCurrent'
    BY <1>2, <1>5, <1>6, <2>1, <2>2, NewEpochsType DEF IInv, TypeOK, ReceiptIsCurrent
  <2>5. QED
    BY <2>3, <2>4 DEF IInv
<1>7. CASE /\ lease' = [p \in Process |-> IF p \in cancelled
                                          THEN Revoked(lease[p], FALSE) ELSE lease[p]]
           /\ pc' = "error" /\ UNCHANGED <<epochs, quarantined, unnoticed, void>>
  <2>1. \A p \in Process : Onward(lease[p], lease'[p])
    BY ZenonT(30), <1>7, LeaseFacts, OnwardRevoked
  <2>2. lease' \in [Process -> Lease]
    BY ZenonT(30), <1>7, <2>1 DEF Onward
  <2>3. LeasedIsStarted' /\ CapacityHeldUntilDrained' /\ VoidIsFenced'
    BY ZenonT(30), <1>5, <1>7, <2>1, <2>2, OnwardStep
  <2>4. TypeOK' /\ ReceiptIsCurrent'
    BY ZenonT(30), <1>5, <1>7, <2>2 DEF IInv, TypeOK, ReceiptIsCurrent
  <2>5. QED
    BY <2>3, <2>4 DEF IInv
<1>8. QED
  BY ZenonT(30), <1>1, <1>6, <1>7

LEMMA OwnersStep == ASSUME IInv, Owners PROVE IInv'
<1>1. PICK lost \in SUBSET Process, changed \in SUBSET Process, struck \in SUBSET Kind :
         /\ lease' = Quarantine([p \in Process |-> IF p \in lost \cup changed
                                    THEN Revoked(lease[p], p \notin changed) ELSE lease[p]], struck)
         /\ epochs' = NewEpochs(struck) /\ quarantined' = quarantined \cup struck
  <2>1. PICK changed \in SUBSET (Active \cap live), unlimited \in SUBSET Kind :
         LET lost == Active \ (live \cap pins)
             struck == {k \in unlimited : (Active \ (lost \cup changed)) \cap Of(k) # {}}
         IN  /\ unlimited = struck
             /\ lease' = Quarantine([p \in Process |-> IF p \in lost \cup changed
                            THEN Revoked(lease[p], p \notin changed) ELSE lease[p]], struck)
             /\ epochs' = NewEpochs(struck)
             /\ quarantined' = quarantined \cup struck
    BY ZenonT(30) DEF Owners
  <2>2. Active \ (live \cap pins) \in SUBSET Process /\ changed \in SUBSET Process
    BY LeaseFacts
  <2>3. QED
    BY ZenonT(30), <2>1, <2>2
<1> DEFINE revoked == [p \in Process |-> IF p \in lost \cup changed
                         THEN Revoked(lease[p], p \notin changed) ELSE lease[p]]
<1>2. \A p \in Process : Onward(lease[p], revoked[p])
  BY ZenonT(30), LeaseFacts, OnwardRevoked
<1>3. lease' = Quarantine(revoked, struck)
  BY <1>1
<1> HIDE DEF revoked
<1>4. lease' \in [Process -> Lease] /\ \A p \in Process : Onward(lease[p], lease'[p])
  BY <1>2, <1>3, OnwardQuarantine
<1>5. UNCHANGED <<started, live, children, manager, pins, unnoticed, void, told>>
      /\ pc' = "drain" /\ at' = "model"
  BY DEF Owners, world
<1>6. LeasedIsStarted' /\ CapacityHeldUntilDrained' /\ VoidIsFenced'
  BY <1>4, <1>5, OnwardStep
<1>7. TypeOK' /\ ReceiptIsCurrent'
  BY <1>1, <1>4, <1>5, NewEpochsType DEF IInv, TypeOK, ReceiptIsCurrent, Kind, Domain
<1>8. QED
  BY <1>6, <1>7 DEF IInv

LEMMA RevokeStep == ASSUME IInv, NEW p \in Process, Revoke(p) PROVE IInv'
<1>1. p \in Known /\ lease[p] \in Lease /\ lease \in [Process -> Lease]
  BY DEF IInv, TypeOK, Revoke
<1>2. Revoked(lease[p], FALSE) \in Lease /\ Onward(lease[p], Revoked(lease[p], FALSE))
      /\ Spoilt(Revoked(lease[p], FALSE))
  BY ZenonT(30), <1>1, LeaseFacts, RevokedLease, OnwardRevoked
<1>3. lease' \in [Process -> Lease] /\ lease'[p] = Revoked(lease[p], FALSE)
      /\ \A q \in Process \ {p} : lease'[q] = lease[q]
  BY ZenonT(30), <1>1, <1>2 DEF Revoke
<1>4. \A q \in Process : Onward(lease[q], lease'[q])
  BY ZenonT(30), <1>2, <1>3, LeaseFacts
<1>5. LeasedIsStarted' /\ CapacityHeldUntilDrained' /\ VoidIsFenced'
  BY ZenonT(30), <1>2, <1>3, <1>4, OnwardStep DEF Revoke, world
<1>6. TypeOK' /\ ReceiptIsCurrent'
  BY ZenonT(30), <1>3 DEF IInv, TypeOK, ReceiptIsCurrent, Revoke, Handle, world
<1>7. QED
  BY <1>5, <1>6 DEF IInv

LEMMA ReconcileStep == ASSUME IInv, Reconcile PROVE IInv'
<1>1. \A p \in Process : lease'[p] = Fenced(lease[p])
  BY DEF Reconcile
<1>2. ASSUME NEW l \in Lease
      PROVE  /\ Onward(l, Fenced(l))
             /\ l.state \in {"draining", "released"} => Spoilt(Fenced(l))
  <2> DEFINE fenced == l.fenced \/ l.output # None
  <2>1. fenced \in BOOLEAN /\ Fenced(l) = [l EXCEPT !.fenced = fenced]
    BY DEF Lease, Fenced
  <2>2. (l.fenced => fenced) /\ (l.output # None => fenced)
    OBVIOUS
  <2> HIDE DEF fenced
  <2>3. /\ Fenced(l) \in Lease /\ Fenced(l).output = l.output
        /\ Fenced(l).state = l.state /\ Fenced(l).fenced = fenced
    BY <2>1 DEF Lease
  <2>4. QED
    BY <2>2, <2>3 DEF Spoilt, Onward
<1>3. \A p \in Process : Onward(lease[p], lease'[p])
  BY <1>1, <1>2, LeaseFacts
<1>4. lease' \in [Process -> Lease]
  BY <1>3 DEF Reconcile, Onward
<1>5. \A p \in Vouching : lease[p].state \in {"draining", "released"}
  BY LeaseFacts DEF Reconcile, Outstanding
<1>6. \A p \in Vouching : Spoilt(lease'[p])
  BY <1>1, <1>2, <1>5, LeaseFacts
<1>7. LeasedIsStarted' /\ CapacityHeldUntilDrained' /\ VoidIsFenced'
  BY <1>3, <1>4, <1>6, OnwardStep DEF Reconcile, world
<1>8. void' \subseteq Process /\ epochs' \in [Domain -> Nat]
  BY LeaseFacts DEF IInv, TypeOK, Reconcile
<1>9. TypeOK' /\ ReceiptIsCurrent'
  BY <1>4, <1>8 DEF IInv, TypeOK, ReceiptIsCurrent, Reconcile, Handle, world
<1>10. QED
  BY <1>7, <1>9 DEF IInv

LEMMA CompleteOutputStep == ASSUME IInv, NEW p \in Process, CompleteOutput(p) PROVE IInv'
<1> DEFINE snapshot == OutputEpochs(p)
<1>1. /\ lease[p] \in Lease /\ lease \in [Process -> Lease] /\ lease[p].state = "active"
      /\ lease' = [lease EXCEPT ![p].output = snapshot]
  BY DEF IInv, TypeOK, CompleteOutput, IsActive
<1>2. KindOf[p] \in Kind /\ snapshot \in [{Host, KindOf[p]} -> Nat]
  BY ManagerAssumption DEF IInv, TypeOK, Domains, Domain, OutputEpochs
<1> HIDE DEF snapshot
<1>3. [lease[p] EXCEPT !.output = snapshot] \in Lease
  BY ZenonT(30), <1>1, <1>2 DEF Lease, Kind
<1>4. /\ lease' \in [Process -> Lease] /\ lease'[p].state = "active"
      /\ \A q \in Process \ {p} : lease'[q] = lease[q]
  BY ZenonT(30), <1>1, <1>3 DEF Lease
<1>5. \A q \in Process : Onward(lease[q], lease'[q])
  BY <1>1, <1>4, LeaseFacts DEF Onward, Spoilt
<1>6. LeasedIsStarted' /\ CapacityHeldUntilDrained' /\ VoidIsFenced'
  BY <1>4, <1>5, OnwardStep DEF CompleteOutput, world
<1>7. TypeOK' /\ ReceiptIsCurrent'
  BY <1>4 DEF IInv, TypeOK, ReceiptIsCurrent, CompleteOutput, Handle, world
<1>8. QED
  BY <1>6, <1>7 DEF IInv

LEMMA LapseStep == ASSUME IInv, NEW p \in Process, Lapse(p) PROVE IInv'
<1>1. /\ lease[p] \in Lease /\ lease \in [Process -> Lease] /\ lease[p].state = "active"
      /\ lease' = [lease EXCEPT ![p].lapsed = TRUE]
  BY DEF IInv, TypeOK, Lapse, Active
<1>2. /\ lease' \in [Process -> Lease] /\ lease'[p].state = "active"
      /\ \A q \in Process \ {p} : lease'[q] = lease[q]
  BY ZenonT(30), <1>1 DEF Lease
<1>3. \A q \in Process : Onward(lease[q], lease'[q])
  BY <1>1, <1>2, LeaseFacts DEF Onward, Spoilt
<1>4. LeasedIsStarted' /\ CapacityHeldUntilDrained' /\ VoidIsFenced'
  BY ZenonT(30), <1>2, <1>3, OnwardStep DEF Lapse, world
<1>5. TypeOK' /\ ReceiptIsCurrent'
  BY <1>2 DEF IInv, TypeOK, ReceiptIsCurrent, Lapse, session, world
<1>6. QED
  BY <1>4, <1>5 DEF IInv

\* A lease begins with a live owner and with nothing to vouch for.
LEMMA AcquireStep == ASSUME IInv, NEW p \in Process, Acquire(p) PROVE IInv'
<1>1. /\ UNCHANGED <<manager, quarantined, epochs, unnoticed, at, started, live, children, void, told>>
      /\ pins' = pins \cup {p} /\ pc' = "authority" /\ p \in live
  BY DEF Acquire, Handle, world
<1>2. CASE lease' = lease
  BY <1>1, <1>2, QuietStep DEF IInv, TypeOK
<1>3. CASE /\ lease[p].state = "none"
           /\ lease' = [lease EXCEPT ![p] =
                           [NoLease EXCEPT !.state = "active", !.epoch = manager]]
  <2> DEFINE new == [NoLease EXCEPT !.state = "active", !.epoch = manager]
  <2>1. new \in Lease /\ new.state = "active"
    BY ZenonT(30) DEF NoLease, Lease, IInv, TypeOK
  <2> HIDE DEF new
  <2>2. /\ lease' \in [Process -> Lease] /\ lease'[p].state = "active"
        /\ \A q \in Process \ {p} : lease'[q] = lease[q]
    BY <1>3, <2>1 DEF IInv, TypeOK, new
  <2>3. p \notin void /\ p \in started
    BY <1>1, <1>3 DEF IInv, TypeOK, VoidIsFenced, Spoilt
  <2>4. TypeOK' /\ ReceiptIsCurrent'
    BY ZenonT(30), <1>1, <2>2 DEF IInv, TypeOK, ReceiptIsCurrent
  <2>5. LeasedIsStarted'
    BY <1>1, <2>2, <2>3 DEF IInv, LeasedIsStarted
  <2>6. CapacityHeldUntilDrained'
    BY <1>1, <2>2 DEF IInv, TypeOK, CapacityHeldUntilDrained, Remaining
  <2>7. VoidIsFenced'
    BY <1>1, <2>2, <2>3 DEF IInv, TypeOK, VoidIsFenced
  <2>8. QED
    BY <2>4, <2>5, <2>6, <2>7 DEF IInv
<1>4. QED
  BY <1>2, <1>3 DEF Acquire

\* A lease is released only when nothing of its group is left.
LEMMA CheckStep == ASSUME IInv, Check PROVE IInv'
<1>1. /\ UNCHANGED <<manager, quarantined, epochs, unnoticed, started, live, children, void, told>>
      /\ at' \in Kind /\ pc' \in {"drain", "ready", "error"} /\ pins' \subseteq pins
  BY DEF Check, NextKind, IInv, TypeOK, Kind
<1>2. CASE lease' = lease
  BY <1>1, <1>2, QuietStep DEF IInv, TypeOK
<1>3. CASE /\ ~Populated(at)
           /\ lease' = [p \in Process |-> IF p \in Draining(at)
                           THEN [lease[p] EXCEPT !.state = "released"] ELSE lease[p]]
  <2>1. ASSUME NEW p \in Process
        PROVE  /\ lease'[p] \in Lease /\ (Spoilt(lease[p]) => Spoilt(lease'[p]))
               /\ (lease[p].state = "none" => lease'[p].state = "none")
               /\ p \notin Draining(at) => lease'[p] = lease[p]
    <3>1. CASE p \in Draining(at)
      <4>1. /\ lease[p] \in Lease /\ lease[p].state = "draining"
            /\ lease'[p] = [lease[p] EXCEPT !.state = "released"]
        BY <1>3, <3>1 DEF IInv, TypeOK, Draining
      <4>2. QED
        BY <3>1, <4>1 DEF Lease, Spoilt
    <3>2. CASE p \notin Draining(at)
      BY <1>3, <3>2 DEF IInv, TypeOK
    <3>3. QED
      BY <3>1, <3>2
  <2>2. lease' \in [Process -> Lease]
    BY <1>3, <2>1
  <2>3. TypeOK' /\ ReceiptIsCurrent'
    BY <1>1, <2>2 DEF IInv, TypeOK, ReceiptIsCurrent
  <2>4. LeasedIsStarted' /\ VoidIsFenced'
    BY <1>1, <2>1 DEF IInv, TypeOK, LeasedIsStarted, VoidIsFenced
  <2>5. \A p \in live \cup children : p \in Process /\ p \notin Draining(at)
    BY <1>3 DEF IInv, TypeOK, Populated, Draining
  <2>6. CapacityHeldUntilDrained'
    BY <1>1, <2>1, <2>5 DEF IInv, CapacityHeldUntilDrained, Remaining
  <2>7. QED
    BY <2>3, <2>4, <2>6 DEF IInv
<1>4. QED
  BY <1>2, <1>3 DEF Check, Finished

\* Nothing runs when the leases are archived, and what is archived vouches for nothing.
LEMMA ArchiveStep == ASSUME IInv, Archive PROVE IInv'
<1> DEFINE gone == [NoLease EXCEPT !.state = "archived"]
<1>1. gone \in Lease /\ gone.state = "archived" /\ Spoilt(gone)
  BY ZenonT(30) DEF NoLease, Lease, Spoilt
<1>2. \A p \in Process : lease'[p] = IF p \in Known THEN gone ELSE lease[p]
  BY DEF Archive
<1>3. live \cup children = {}
  BY ManagerAssumption DEF IInv, TypeOK, Archive, Populated, Of
<1> HIDE DEF gone
<1>4. lease' \in [Process -> Lease]
  BY <1>1, <1>2, LeaseFacts DEF Archive
<1>5. /\ UNCHANGED <<quarantined, epochs, at, pins, unnoticed, started, live, children>>
      /\ pc' = "authority" /\ manager' = manager + 1 /\ told' = None
      /\ void' = void \cup Vouching
  BY DEF Archive, Handle, world
<1>6. TypeOK' /\ ReceiptIsCurrent'
  <2>1. manager' \in Nat
    BY <1>5 DEF IInv, TypeOK
  <2>2. TypeOK'
    BY ZenonT(30), <1>4, <1>5, <2>1, LeaseFacts DEF IInv, TypeOK
  <2>3. ReceiptIsCurrent'
    BY ZenonT(30), <1>5 DEF ReceiptIsCurrent
  <2>4. QED
    BY <2>2, <2>3
<1>7. LeasedIsStarted' /\ CapacityHeldUntilDrained'
  BY <1>2, <1>3, <1>5, LeaseFacts DEF IInv, LeasedIsStarted, CapacityHeldUntilDrained, Remaining
<1>8. VoidIsFenced'
  BY <1>1, <1>2, <1>5, LeaseFacts DEF IInv, TypeOK, VoidIsFenced
<1>9. QED
  BY <1>6, <1>7, <1>8 DEF IInv

LEMMA InitIInv == ASSUME Init PROVE IInv
<1>1. NoLease \in Lease /\ NoLease.state = "none"
  BY DEF NoLease, Lease
<1>2. lease \in [Process -> Lease] /\ \A p \in Process : lease[p].state = "none"
  BY <1>1 DEF Init
<1>3. TypeOK
  BY <1>2 DEF Init, TypeOK, Kind, Domain
<1>4. LeasedIsStarted /\ CapacityHeldUntilDrained /\ VoidIsFenced /\ ReceiptIsCurrent
  BY <1>2 DEF Init, LeasedIsStarted, CapacityHeldUntilDrained, VoidIsFenced, ReceiptIsCurrent,
              Remaining
<1>5. QED
  BY <1>3, <1>4 DEF IInv

LEMMA NextIInv == ASSUME IInv, [Next]_vars PROVE IInv'
<1>1. CASE Step
  BY <1>1, QuietSteps, AuthorityStep, ObserveStep, OwnersStep, CheckStep DEF Step
<1>2. CASE Request
  BY <1>2, QuietSteps, AcquireStep, CompleteOutputStep, ReceiptStep, RevokeStep, ReconcileStep,
     ArchiveStep DEF Request
<1>3. CASE World
  BY <1>3, QuietSteps, StartStep, LapseStep DEF World
<1>4. CASE Open \/ Fault \/ OpenFails \/ UNCHANGED vars
  BY <1>4, QuietSteps, OpenStep
<1>5. QED
  BY <1>1, <1>2, <1>3, <1>4 DEF Next

\* The inductive invariant of the resource manager, over every interleaving of its maintain with
\* its workers, the kernel, crashes and restarts.
THEOREM ManagerInvariance == Spec => []IInv
<1>1. Init => IInv
  BY InitIInv
<1>2. IInv /\ [Next]_vars => IInv'
  BY NextIInv
<1>3. QED
  BY <1>1, <1>2, PTL DEF Spec

\* finish_draining and archive release no lease while its worker or a descendant of it runs.
THEOREM CapacityHeldUntilDrainedHolds == Spec => []CapacityHeldUntilDrained
<1>1. IInv => CapacityHeldUntilDrained
  BY DEF IInv
<1>2. QED
  BY <1>1, ManagerInvariance, PTL

\* committed_receipt and completed_lease vouch for no output that was fenced.
THEOREM ReceiptIsCurrentHolds == Spec => []ReceiptIsCurrent
<1>1. IInv => ReceiptIsCurrent
  BY DEF IInv
<1>2. QED
  BY <1>1, ManagerInvariance, PTL
=============================================================================
