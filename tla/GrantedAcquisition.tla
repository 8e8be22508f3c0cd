------------------------- MODULE GrantedAcquisition -------------------------
(* A finite acquisition (a model pack import, a generated program or a QA scenario) run for a
   client that holds a grant: the client and its controller thread
   (service/granted_acquisition.rs, acquisition.rs), the unit that systemd starts for it and the
   leased worker inside, and the broker, which keeps the client's original connection as the
   authority of the lease (resource_manager.rs).

   The broker's manager is one thread that waits while it challenges a client, so a challenge is
   one step: the client answers from its grant boundary at that moment, or the admission stays
   fenced.  The leases of the model worker, pressure and quarantine are in ResourceManager; here
   a lease may be revoked or expire at any time.  Every client asks for the same profile on the
   same device, which is the case in which one client's unit could be taken for another's. *)
EXTENDS Naturals

CONSTANTS Client, Nobody,
          MaxLeases,   \* bound: leases admitted
          MaxFaults    \* bound: restarts, deaths, timeouts, revocations

VARIABLES grant,      \* the clients whose grant boundary holds
          client,     \* the step of each client
          done,       \* the clients whose loop has `completed`
          controller, \* the step of each controller thread
          broker,     \* "up" or "fenced"
          authority,  \* Manager.acquisition_authority
          wire,       \* connections: "closed", "open", "ack" (with a completion in flight)
          starting,   \* units that systemd was asked to start and has not
          unit,       \* the one unit of the fixed name
          result,     \* what systemd-run --wait reports to each controller
          lease, epoch, \* the ledger
          attached,   \* history: the leases attached under each client's registration
          faults

acquisitionVars == <<grant, client, done, controller, broker, authority, wire, starting, unit,
                     result, lease, epoch, attached, faults>>

NoAuthority == [of |-> Nobody, token |-> 0]
NoUnit == [by |-> Nobody, at |-> "absent", lease |-> 0]
NoLease == [state |-> "none", output |-> FALSE, fenced |-> FALSE, epoch |-> 0]

AcquisitionTypeOK ==
    /\ grant \subseteq Client /\ done \subseteq Client /\ starting \subseteq Client
    /\ client \in [Client -> {"idle", "registering", "running", "succeeding", "failing",
                              "succeeded", "failed", "dead"}]
    /\ controller \in [Client -> {"off", "admit", "supervise", "drain", "ok", "err"}]
    /\ broker \in {"up", "fenced"} /\ wire \in [Client -> {"closed", "open", "ack"}]
    /\ authority \in [of : Client \cup {Nobody}, token : 0..MaxLeases]
    /\ unit \in [by : Client \cup {Nobody}, at : {"absent", "started", "working", "recorded"},
                 lease : 0..MaxLeases]
    /\ result \in [Client -> {"none", "ok", "bad"}]
    /\ lease \in [1..MaxLeases -> [state : {"none", "active", "draining", "released"},
                                   output : BOOLEAN, fenced : BOOLEAN, epoch : Nat]]
    /\ epoch \in Nat /\ attached \in [Client -> SUBSET (1..MaxLeases)] /\ faults \in 0..MaxFaults

Fault == faults < MaxFaults /\ faults' = faults + 1

populated == unit.at # "absent"
outstanding == \E l \in DOMAIN lease : lease[l].state \in {"active", "draining"}
live(c) == c # Nobody /\ client[c] \in {"registering", "running"}

AcquisitionInit ==
    /\ grant = Client /\ client = [c \in Client |-> "idle"] /\ done = {}
    /\ controller = [c \in Client |-> "off"] /\ broker = "up" /\ authority = NoAuthority
    /\ wire = [c \in Client |-> "closed"] /\ starting = {} /\ unit = NoUnit
    /\ result = [c \in Client |-> "none"] /\ lease = [l \in 1..MaxLeases |-> NoLease]
    /\ epoch = 1 /\ attached = [c \in Client |-> {}] /\ faults = 0
-----------------------------------------------------------------------------
(* The broker *)

\* Admission::check: the original peer answers the challenge while its boundary holds.  A slow
\* answer fences the admission as a missing one does.
Answers(c) == live(c) /\ wire[c] = "open" /\ c \in grant
acquisition_liveness(c) == live(c) /\ wire[c] = "open"

\* The capture of an authority ends with its first challenges.
Captured(c) == wire[c] = "open" /\ Answers(c)

\* The previous generation has drained, and no client is registered.
Registrable(c) == authority = NoAuthority /\ ~populated /\ ~outstanding /\ Captured(c)

register_acquisition(c) ==
    /\ broker = "up" /\ client[c] = "registering" /\ wire[c] = "open"
    /\ \/ /\ Registrable(c)
          /\ authority' = [of |-> c, token |-> 0]
          /\ client' = [client EXCEPT ![c] = "running"]
          /\ controller' = [controller EXCEPT ![c] = "admit"]
          /\ UNCHANGED <<wire, faults>>
       \/ /\ \/ ~Registrable(c) /\ UNCHANGED faults
             \/ Fault
          /\ wire' = [wire EXCEPT ![c] = "closed"]
          /\ UNCHANGED <<authority, client, controller>>
    /\ UNCHANGED <<grant, done, broker, starting, unit, result, lease, epoch, attached>>

\* Ledger::revoke; an output that is already recorded is fenced unless its owner has just gone.
Revoked(ls, l) ==
    [ls EXCEPT ![l] = 
                  [@ EXCEPT !.state = IF @ = "active" THEN "draining" ELSE @,
                            !.fenced = @ \/ ls[l].output]]

\* Mutant: a completion is accepted although the output was fenced.
completed_result_Fenced(ls) ==
    /\ authority.token # 0 /\ ls[authority.token].epoch = epoch
    /\ ls[authority.token].state = "released" /\ ls[authority.token].output

\* Authority::completed_result and completed_lease
completed_result(ls) ==
    /\ authority.token # 0 /\ ls[authority.token].epoch = epoch
    /\ ls[authority.token].state = "released"
    /\ ls[authority.token].output /\ ~ls[authority.token].fenced

\* The rest of maintain: an owner that is gone drains, and the group of a draining lease is
\* killed, which may take effect at once or later; an empty group releases its lease.
Drained(ls) ==
    LET kept(l) == ls[l].state = "active" /\ populated /\ unit.lease = l
        state(l) == IF ls[l].state = "active" /\ ~kept(l) THEN "draining" ELSE ls[l].state
        killed == populated /\ \E l \in DOMAIN ls : state(l) = "draining"
        Leases(empty) == [l \in DOMAIN ls |-> [ls[l] EXCEPT !.state =
                            IF state(l) = "draining" /\ empty THEN "released" ELSE state(l)]]
    IN  \/ /\ killed /\ unit' = NoUnit /\ result' = [result EXCEPT ![unit.by] = "bad"]
           /\ lease' = Leases(TRUE)
        \/ UNCHANGED <<unit, result>> /\ lease' = Leases(~populated)

\* What becomes of the lease whose authority is taken away.
Fenced(ls) == IF authority.token = 0 THEN ls ELSE Revoked(ls, authority.token)

\* fence_on_fault, and the end of the unit with the broker that it is bound to.
Killed ==
    /\ unit' = NoUnit
    /\ result' = IF populated THEN [result EXCEPT ![unit.by] = "bad"] ELSE result

Drop == [wire EXCEPT ![authority.of] = "closed"]

\* maintain while no client is registered, or one that is not challenged at this turn.
Maintain ==
    /\ broker = "up"
    /\ authority = NoAuthority \/ acquisition_liveness(authority.of)
    /\ Drained(lease)
    /\ UNCHANGED <<grant, client, done, controller, broker, authority, wire, starting, epoch,
                   attached, faults>>

\* maintain when the challenge of every 500 ms is due.
Challenge ==
    /\ broker = "up" /\ authority # NoAuthority /\ acquisition_liveness(authority.of)
    /\ Answers(authority.of)
    /\ IF authority.of \notin done
       THEN Drained(lease) /\ UNCHANGED <<authority, wire, broker, faults>>
       ELSE /\ authority' = NoAuthority
            /\ IF completed_result(lease)
               THEN \/ /\ wire' = [wire EXCEPT ![authority.of] = "ack"]
                       /\ Drained(lease) /\ UNCHANGED <<broker, faults>>
                    \/ \* finish_ack fails: so does maintain, and the manager with it
                       /\ Fault /\ broker' = "fenced" /\ wire' = Drop
                       /\ Killed /\ UNCHANGED lease
               ELSE Drained(Fenced(lease)) /\ wire' = Drop /\ UNCHANGED <<broker, faults>>
    /\ UNCHANGED <<grant, client, done, controller, starting, epoch, attached>>

\* maintain finds the original client gone, its grant withdrawn, or no answer in time.
Fence ==
    /\ broker = "up" /\ authority # NoAuthority
    /\ \/ ~Answers(authority.of) /\ UNCHANGED faults
       \/ Fault
    /\ authority' = NoAuthority /\ wire' = Drop /\ Drained(Fenced(lease))
    /\ UNCHANGED <<grant, client, done, controller, broker, starting, epoch, attached>>

\* The broker stops, which ends the unit, and opens its ledger again: every lease drains and
\* every recorded output is fenced.
Restart ==
    /\ Fault /\ broker' = "up" /\ epoch' = epoch + 1 /\ authority' = NoAuthority
    /\ wire' = [c \in Client |-> "closed"] /\ Killed
    /\ lease' = [l \in DOMAIN lease |->
                   [lease[l] EXCEPT !.state = IF @ = "active" THEN "draining" ELSE @,
                                    !.fenced = @ \/ lease[l].output]]
    /\ UNCHANGED <<grant, client, done, controller, starting, attached>>

\* An operator revokes the lease, or it expires, before a maintain.
Revoke(l) ==
    /\ broker = "up" /\ lease[l].state = "active" /\ Fault
    /\ Drained(Revoked(lease, l))
    /\ UNCHANGED <<grant, client, done, controller, broker, authority, wire, starting, epoch,
                   attached>>
-----------------------------------------------------------------------------
(* The unit and its worker *)

\* systemd takes up the start of a unit of the fixed name.
StartUnit(c) ==
    /\ c \in starting /\ starting' = starting \ {c}
    /\ IF populated \/ broker # "up"
       THEN result' = [result EXCEPT ![c] = "bad"] /\ UNCHANGED unit
       ELSE /\ unit' = [by |-> c, at |-> "started", lease |-> 0]
            /\ result' = [result EXCEPT ![c] = "none"]
    /\ UNCHANGED <<grant, client, done, controller, broker, authority, wire, lease, epoch,
                   attached, faults>>

\* Authority::attach; when it refuses, the lease is admitted already, and the worker gives up.
Attach(l) ==
    IF authority.token \in {0, l}
    THEN /\ authority' = [authority EXCEPT !.token = l]
         /\ attached' = [attached EXCEPT ![authority.of] = @ \cup {l}]
         /\ unit' = [unit EXCEPT !.at = "working", !.lease = l] /\ UNCHANGED result
    ELSE /\ unit' = NoUnit /\ result' = [result EXCEPT ![unit.by] = "bad"]
         /\ UNCHANGED <<authority, attached>>

\* The worker acquires its lease, and the broker binds it to the registered authority.
acquire_acquisition ==
    /\ unit.at = "started" /\ broker = "up"
    /\ authority # NoAuthority /\ Answers(authority.of) /\ ~outstanding
    /\ \E l \in DOMAIN lease :
         /\ lease[l] = NoLease /\ \A k \in 1..l - 1 : lease[k] # NoLease
         /\ lease' = [lease EXCEPT ![l] = [NoLease EXCEPT !.state = "active", !.epoch = epoch]]
         /\ Attach(l)
    /\ UNCHANGED <<grant, client, done, controller, broker, wire, starting, epoch, faults>>

\* An acquisition that is refused ends the worker.
AcquireRefused ==
    /\ unit.at = "started"
    /\ broker # "up" \/ authority = NoAuthority \/ ~Answers(authority.of) \/ outstanding
    /\ unit' = NoUnit /\ result' = [result EXCEPT ![unit.by] = "bad"]
    /\ UNCHANGED <<grant, client, done, controller, broker, authority, wire, starting, lease,
                   epoch, attached, faults>>

\* The work is over and the lease still active: its output is recorded.
complete_output ==
    /\ unit.at = "working" /\ broker = "up" /\ lease[unit.lease].state = "active"
    /\ lease' = [lease EXCEPT ![unit.lease].output = TRUE]
    /\ unit' = [unit EXCEPT !.at = "recorded"]
    /\ UNCHANGED <<grant, client, done, controller, broker, authority, wire, starting, result,
                   epoch, attached, faults>>

\* The worker ends well once its output is recorded.
WorkerExits ==
    /\ unit.at = "recorded" /\ broker = "up" /\ lease[unit.lease].state = "active"
    /\ unit' = NoUnit /\ result' = [result EXCEPT ![unit.by] = "ok"]
    /\ UNCHANGED <<grant, client, done, controller, broker, authority, wire, starting, lease,
                   epoch, attached, faults>>

\* The transfer or its verification fails, the worker dies, or its lifetime is over.
WorkerFails ==
    /\ unit.at \in {"working", "recorded"} /\ Fault
    /\ unit' = NoUnit /\ result' = [result EXCEPT ![unit.by] = "bad"]
    /\ UNCHANGED <<grant, client, done, controller, broker, authority, wire, starting, lease,
                   epoch, attached>>

\* The heartbeat has noticed that the lease is no longer active, or the kill takes effect.
HeartbeatFails ==
    /\ unit.at \in {"working", "recorded"}
    /\ broker # "up" \/ lease[unit.lease].state # "active"
    /\ unit' = NoUnit /\ result' = [result EXCEPT ![unit.by] = "bad"]
    /\ UNCHANGED <<grant, client, done, controller, broker, authority, wire, starting, lease,
                   epoch, attached, faults>>
-----------------------------------------------------------------------------
(* The client *)

\* run_controller: its boundary is checked, and the request written.
Connect(c) ==
    /\ client[c] = "idle" /\ c \in grant /\ broker = "up"
    /\ client' = [client EXCEPT ![c] = "registering"] /\ wire' = [wire EXCEPT ![c] = "open"]
    /\ UNCHANGED <<grant, done, controller, broker, authority, starting, unit, result, lease,
                   epoch, attached, faults>>

\* Registration was refused, or its 4 seconds passed.
Unregistered(c) ==
    /\ client[c] = "registering" /\ (wire[c] = "closed" \/ broker # "up")
    /\ client' = [client EXCEPT ![c] = "failed"] /\ wire' = [wire EXCEPT ![c] = "closed"]
    /\ UNCHANGED <<grant, done, controller, broker, authority, starting, unit, result, lease,
                   epoch, attached, faults>>

\* available, the status that a controller waits for.
available == broker = "up" /\ ~populated /\ ~outstanding

Cancelled(c) == client[c] \notin {"registering", "running"}

Ctl(c, pc) == controller' = [controller EXCEPT ![c] = pc]

\* run_checked: the previous generation has drained, and the unit is asked for.
LaunchUnit(c) ==
    /\ controller[c] = "admit" /\ ~Cancelled(c) /\ available
    /\ Ctl(c, "supervise") /\ starting' = starting \cup {c}
    /\ UNCHANGED <<grant, client, done, broker, authority, wire, unit, result, lease, epoch,
                   attached, faults>>

\* supervise_owned_controller: systemd-run has ended.
Supervised(c) ==
    /\ controller[c] = "supervise" /\ ~Cancelled(c) /\ result[c] # "none"
    /\ Ctl(c, IF result[c] = "ok" THEN "drain" ELSE "err")
    /\ UNCHANGED <<grant, client, done, broker, authority, wire, starting, unit, result, lease,
                   epoch, attached, faults>>

\* await_drainage_checked after it, twice.
AwaitDrainage(c) ==
    /\ controller[c] = "drain" /\ ~Cancelled(c) /\ available /\ Ctl(c, "ok")
    /\ UNCHANGED <<grant, client, done, broker, authority, wire, starting, unit, result, lease,
                   epoch, attached, faults>>

\* Cancelled, or drainage not confirmed in 30 seconds.  The unit that systemd-run asked for may
\* start all the same.
ControllerFails(c) ==
    /\ controller[c] \in {"admit", "supervise", "drain"}
    /\ \/ Cancelled(c) /\ UNCHANGED faults
       \/ controller[c] # "supervise" /\ broker # "up" /\ UNCHANGED faults
       \/ Fault
    /\ Ctl(c, "err") /\ starting' \in {starting, starting \ {c}}
    /\ UNCHANGED <<grant, client, done, broker, authority, wire, unit, result, lease, epoch,
                   attached>>

\* The loop of run_controller ends: the flag is set and the connection shut down.
End(c, how) ==
    /\ client' = [client EXCEPT ![c] = how] /\ wire' = [wire EXCEPT ![c] = "closed"]

\* The boundary no longer holds, the connection is lost, or the controller failed.
LoopFails(c) ==
    /\ client[c] = "running"
    /\ \/ c \notin grant \/ wire[c] = "closed" \/ broker # "up"
       \/ c \notin done /\ controller[c] = "err"
       \/ c \notin done /\ wire[c] = "ack"
    /\ End(c, "failing")
    /\ UNCHANGED <<grant, done, controller, broker, authority, starting, unit, result, lease,
                   epoch, attached, faults>>

\* The controller's result, taken while the boundary holds.
TakeResult(c) ==
    /\ client[c] = "running" /\ c \notin done /\ controller[c] = "ok" /\ c \in grant
    /\ done' = done \cup {c}
    /\ UNCHANGED <<grant, client, controller, broker, authority, wire, starting, unit, result,
                   lease, epoch, attached, faults>>

Completed(c) == wire[c] = "ack" /\ c \in done

\* The broker's completion, received while the boundary holds: terminal_ack.
TerminalAck(c) ==
    /\ client[c] = "running" /\ Completed(c) /\ c \in grant
    /\ End(c, "succeeding")
    /\ UNCHANGED <<grant, done, controller, broker, authority, starting, unit, result, lease,
                   epoch, attached, faults>>

\* The controller thread is joined, and the outcome returned.
Join(c) ==
    /\ client[c] \in {"succeeding", "failing"} /\ controller[c] \in {"off", "ok", "err"}
    /\ client' = [client EXCEPT ![c] = IF @ = "succeeding" THEN "succeeded" ELSE "failed"]
    /\ UNCHANGED <<grant, done, controller, broker, authority, wire, starting, unit, result,
                   lease, epoch, attached, faults>>

\* The client's process is killed, with its controller and the systemd-run that it owns.
Die(c) ==
    /\ client[c] \in {"registering", "running", "failing"} /\ Fault
    /\ client' = [client EXCEPT ![c] = "dead"] /\ wire' = [wire EXCEPT ![c] = "closed"]
    /\ Ctl(c, "off") /\ starting' \in {starting, starting \ {c}}
    /\ UNCHANGED <<grant, done, broker, authority, unit, result, lease, epoch, attached>>

\* The grant is revoked, its session ends or its time is over.
Withdraw(c) ==
    /\ c \in grant /\ client[c] \notin {"succeeded", "failed", "dead"}
    /\ grant' = grant \ {c}
    /\ UNCHANGED <<client, done, controller, broker, authority, wire, starting, unit, result,
                   lease, epoch, attached, faults>>
-----------------------------------------------------------------------------
ClientStep(c) ==
    \/ register_acquisition(c) \/ Unregistered(c) \/ StartUnit(c)
    \/ LaunchUnit(c) \/ Supervised(c) \/ AwaitDrainage(c) \/ ControllerFails(c)
    \/ LoopFails(c) \/ TakeResult(c) \/ TerminalAck(c) \/ Join(c)

AcquisitionNext ==
    \/ Maintain \/ Challenge \/ Fence \/ Restart
    \/ acquire_acquisition \/ AcquireRefused \/ complete_output
    \/ WorkerExits \/ WorkerFails \/ HeartbeatFails
    \/ \E l \in 1..MaxLeases : Revoke(l)
    \/ \E c \in Client : Connect(c) \/ ClientStep(c) \/ Die(c) \/ Withdraw(c)

\* The service loop maintains the manager every second; a worker that has no lease left gives
\* up at its next check.  How long a transfer takes is not assumed.
AcquisitionFairness ==
    /\ WF_acquisitionVars(Maintain) /\ WF_acquisitionVars(Challenge) /\ WF_acquisitionVars(Fence)
    /\ WF_acquisitionVars(AcquireRefused) /\ WF_acquisitionVars(HeartbeatFails)

AcquisitionSpec ==
    AcquisitionInit /\ [][AcquisitionNext]_acquisitionVars /\ AcquisitionFairness

\* A client that is told that its acquisition succeeded had a lease of its own registration
\* whose worker recorded its output, ended by itself and was drained, and whose output was not
\* fenced before the broker was last restarted; and it still held its grant when its loop ended.
StepSuccess ==
    \A c \in Client :
        client[c] = "running" /\ client'[c] = "succeeding" =>
           /\ c \in grant /\ result[c] = "ok"
           /\ \E l \in attached[c] :
                /\ lease[l].state = "released" /\ lease[l].output /\ unit.lease # l
                /\ lease[l].fenced => lease[l].epoch < epoch

\* Every success that a client is told is backed, as StepSuccess says of a step.
SuccessIsBacked == [][StepSuccess]_acquisitionVars

=============================================================================
