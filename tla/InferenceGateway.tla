-------------------------- MODULE InferenceGateway --------------------------
(* One inference from a granted client to its output: the request gate and the gateway of the
   broker (requests.rs, requests/gateway.rs), the client that holds the grant
   (service/granted_gateway.rs) and the driver in the leased worker (model/gateway.rs).

   The broker's manager is one thread, and every request to it first runs maintain; a request
   that is refused is therefore no more than a Maintain.  While it challenges a client it
   waits, so a challenge is one step of it: the client answers from its own grant boundary at
   that moment or the admission stays fenced.  A client runs one job, and its name stands for
   the nonce, the prompt and the answer to it.  The lease is the worker's, and ResourceManager
   has what makes it drain; here it may be lost at any time, and is released when the worker's
   group is empty.

   An installation is in its laboratory era, in which service 990 polls for results, or is
   bootstrapped, and then only a granted client may submit. *)
EXTENDS Integers

CONSTANTS Granted,      \* granted clients
          Laboratory,   \* clients of service 990, and the root maintenance client
          Nobody,
          MaxGeneration,  \* bound: worker generations
          MaxFaults       \* bound: crashes, failed publications, deaths and lost leases

Client == Granted \cup Laboratory

VARIABLES era,
          broker,      \* "up", "down" or "fenced"
          records,     \* Gate.records, in memory
          journal,     \* requests.json
          job, ready,  \* Manager.gateway and Manager.gateway_ready
          lease,       \* the worker's generation and the state of its lease
          busy,        \* a handler that waits between two challenges
          worker,      \* the driver
          client, target,  \* the clients, and the generation that each inspected
          grant,       \* the grants that stand
          expired,     \* requests past their deadline
          ack,         \* acknowledgements that a reader thread has yet to write, or wrote
          frame,       \* a result written to a client
          effect,      \* the client's record of its inference
          out,         \* what a client gave out
          early,       \* history: grants withdrawn before the request completed
          faults

manager == <<broker, records, journal, job, ready, lease, busy>>
clients == <<client, target, ack, frame, effect, out>>
gatewayVars == <<era, manager, worker, clients, grant, expired, early, faults>>

NoRecord == [phase |-> "none", generation |-> 0, pinned |-> FALSE, result |-> Nobody]
NoJob == [of |-> Nobody, generation |-> 0, result |-> Nobody, fenced |-> FALSE]
Free == [op |-> "free", of |-> Nobody]
Off == [pc |-> "off", of |-> Nobody]

Terminal(r) == r.phase \in {"none", "completed", "released"}

\* occupied
occupied(r) == \E c \in Client : ~Terminal(r[c])

\* What of the records is written: the handle of the caller is not.
Durable(r) == [c \in Client |-> [r[c] EXCEPT !.pinned = FALSE]]

\* Caller::live, of the process that holds the pinned handle.
live(c) == client[c] \notin {"idle", "dead"}

Fault == faults < MaxFaults /\ faults' = faults + 1
-----------------------------------------------------------------------------
(* Manager::maintain: the requests, the leases that they cancel, the physical drain, and then
   the gateway *)

GenerationState(g) == IF g < lease.generation THEN "released" ELSE lease.state

\* maintain_checked, of one record.
Maintained(c) ==
    LET r == records[c] IN
    CASE Terminal(r) -> r
      [] ~Terminal(r) /\ GenerationState(r.generation) = "released" ->
            [r EXCEPT !.phase = "released", !.pinned = FALSE]
      [] OTHER ->
            IF \/ c \in expired \/ GenerationState(r.generation) # "active"
               \/ ~r.pinned \/ ~live(c)
            THEN [r EXCEPT !.phase = "draining"] ELSE r

MaintainedRecords == [c \in Client |-> Maintained(c)]

\* Whether a draining request takes the lease that it runs under with it.
cancellations(r) ==
    \E c \in Client : r[c].phase = "draining" /\ r[c].generation = lease.generation

\* An owner that is gone drains too, and an empty group is released.
MaintainedLease(r) ==
    LET revoked == lease.state = "active" /\ (cancellations(r) \/ worker.pc = "off")
        state == IF revoked THEN "draining" ELSE lease.state
    IN  [lease EXCEPT !.state = IF state = "draining" /\ worker.pc = "off" THEN "released"
                                ELSE state]

\* maintain_gateway
KeepReady(l) == IF ready = l.generation /\ l.state = "active" THEN ready ELSE 0
KeepJob(r, l) ==
    IF /\ job.of # Nobody /\ live(job.of) /\ job.of \notin expired
       /\ r[job.of].phase \in {"preparing", "admitted", "completed"}
       /\ job.generation = l.generation /\ l.state = "active"
    THEN job ELSE NoJob

\* persist: a publication that fails leaves the store poisoned, and the next maintain fences
\* the manager for this session, and kills the workers.
Persist(r) ==
    \/ journal' = Durable(r) /\ broker' = broker /\ records' = r /\ UNCHANGED faults
    \/ /\ Fault /\ journal' \in {journal, Durable(r)}
       /\ broker' = "fenced" /\ records' = r

\* The manager with records r, job j and readiness g after a handler that is not cut short.
Leave(r, j, g) ==
    /\ Persist(r)
    /\ job' = IF broker' = "up" THEN j ELSE NoJob
    /\ ready' = IF broker' = "up" THEN g ELSE 0
    /\ busy' = Free

Maintain ==
    LET r == MaintainedRecords
        l == MaintainedLease(r)
    IN  /\ broker = "up" /\ busy = Free
        /\ Leave(r, KeepJob(r, l), KeepReady(l))
        /\ lease' = l
        /\ UNCHANGED <<era, worker, clients, grant, expired, early>>

\* A handler acts on a manager that has just been maintained.
Fresh ==
    /\ broker = "up" /\ busy = Free
    /\ records = MaintainedRecords
    /\ lease = MaintainedLease(records)
    /\ job = KeepJob(records, lease) /\ ready = KeepReady(lease)

\* The one active generation, as it is asked for.
inference_worker(g) == lease.state = "active" /\ lease.generation = g

\* gateway_serving: its owner is alive, and its runtime said that it is ready.
gateway_serving(g) == inference_worker(g) /\ ready = g /\ worker.pc # "off"

\* Inspect
Inspect == Fresh /\ gateway_serving(ready)

\* gateway_worker: the peer is the owner of the lease, and its domain is not drained.
gateway_worker == lease.state = "active" /\ worker.pc # "off"
-----------------------------------------------------------------------------
(* The live admission *)

\* Mutant: the boundary holds once it was opened.
Boundary_Cached(c) == TRUE

\* GrantBoundary::check: the grant stands when it is asked for.
Boundary(c) == c \in grant

\* A challenge that can be answered: the client reads from its connection.
Answers(c) ==
    /\ client[c] \in {"begun", "submitted", "accepted"}
    /\ Boundary(c)

\* Admission::check, of the admission of the job at hand.  A laboratory job has none.
Checked(c) == c \in Granted => ~job.fenced /\ Answers(c)

\* The admission is fenced before the challenge, and a failure leaves it so.  The worker's
\* request is refused.
CheckFails ==
    /\ Fresh /\ job.of # Nobody /\ job.of \in Granted /\ worker.pc \in {"idle", "claimed", "admitted"}
    /\ gateway_worker
    /\ job' = [job EXCEPT !.fenced = TRUE]
    /\ worker' = [worker EXCEPT !.pc = "failing"]
    /\ UNCHANGED <<era, broker, records, journal, ready, lease, busy, clients, grant, expired,
                   early, faults>>
-----------------------------------------------------------------------------
(* The granted client *)

SetClient(c, pc) == client' = [client EXCEPT ![c] = pc]

\* infer, to the submission: it inspects the serving worker, opens its grant and records that
\* the effect begins.
Infer(c) ==
    /\ era = "product" /\ c \in Granted /\ client[c] = "idle"
    /\ Inspect /\ Boundary(c)
    /\ SetClient(c, "begun") /\ target' = [target EXCEPT ![c] = ready]
    /\ effect' = [effect EXCEPT ![c] = "begun"]
    /\ UNCHANGED <<era, manager, worker, ack, frame, out, grant, expired, early, faults>>

\* for_request: the broker pins the client and challenges it for the first time.
Capture(c) ==
    /\ broker = "up" /\ busy = Free
    /\ client[c] = "begun" /\ c \in Granted /\ Answers(c)
    /\ busy' = [op |-> "submit", of |-> c]
    /\ SetClient(c, "submitted")
    /\ UNCHANGED <<era, broker, records, journal, job, ready, lease, worker, target, ack, frame,
                   effect, out, grant, expired, early, faults>>

\* Gate::begin, of a nonce that no record has.
begin(r, c, g) ==
    [r EXCEPT ![c] = [phase |-> "preparing", generation |-> g, pinned |-> TRUE,
                      result |-> Nobody]]

MayBegin(r, c) == r[c].phase = "none" /\ ~occupied(r)

Accept(c) ==
    /\ job.of = Nobody /\ MayBegin(records, c) /\ c \notin expired
    /\ gateway_serving(target[c])
    /\ Leave(begin(records, c, target[c]),
             [of |-> c, generation |-> target[c], result |-> Nobody, fenced |-> FALSE], ready)

\* The coordinator was held by the challenge: maintain runs again before the message.
FreshAfter ==
    /\ records = MaintainedRecords /\ lease = MaintainedLease(records)
    /\ job = KeepJob(records, lease) /\ ready = KeepReady(lease)

Submit(c) ==
    /\ broker = "up" /\ busy = [op |-> "submit", of |-> c] /\ FreshAfter
    /\ Answers(c) /\ Accept(c)
    /\ ack' = [ack EXCEPT ![c] = IF broker' = "up" THEN "owed" ELSE @]
    /\ UNCHANGED <<era, lease, worker, client, target, frame, effect, out, grant, expired,
                   early>>

\* Any refusal of it, with the maintain that came first.
Denied(c) ==
    LET r == MaintainedRecords
        l == MaintainedLease(r)
    IN  /\ broker = "up" /\ busy = [op |-> "submit", of |-> c]
        /\ Leave(r, KeepJob(r, l), KeepReady(l))
        /\ lease' = l /\ SetClient(c, "dead")
        /\ UNCHANGED <<era, worker, target, ack, frame, effect, out, grant, expired, early>>

\* A reader thread writes the reply, beside the challenges of the coordinator.
WriteAck(c) ==
    /\ ack[c] = "owed" /\ ack' = [ack EXCEPT ![c] = "written"]
    /\ UNCHANGED <<era, manager, worker, client, target, frame, effect, out, grant, expired,
                   early, faults>>

\* The receipt must be that of its job, preparing, under its own grant.
ReadAck(c) ==
    /\ client[c] = "submitted" /\ ack[c] = "written"
    /\ SetClient(c, "accepted")
    /\ UNCHANGED <<era, manager, worker, target, ack, frame, effect, out, grant, expired, early,
                   faults>>

\* A result is for a client that was accepted, of its own job; it is recorded first, even when
\* the grant is gone.
ReadResult(c) ==
    /\ client[c] = "accepted" /\ c \in Granted /\ frame[c] # Nobody
    /\ IF frame[c] = c
       THEN SetClient(c, "recorded") /\ effect' = [effect EXCEPT ![c] = "complete"]
       ELSE SetClient(c, "dead") /\ UNCHANGED effect
    /\ UNCHANGED <<era, manager, worker, target, ack, frame, out, grant, expired, early, faults>>

\* The delivery is an effect of its own, that begins under the grant.
BeginDelivery(c) ==
    /\ client[c] = "recorded" /\ Boundary(c)
    /\ SetClient(c, "delivering")
    /\ UNCHANGED <<era, manager, worker, target, ack, frame, effect, out, grant, expired, early,
                   faults>>

\* boundary.check and the output, which is flushed.
Deliver(c) ==
    /\ client[c] = "delivering" /\ Boundary(c)
    /\ SetClient(c, "dead") /\ out' = [out EXCEPT ![c] = frame[c]]
    /\ UNCHANGED <<era, manager, worker, target, ack, frame, effect, grant, expired, early,
                   faults>>

\* It gives up, at its own deadline, at a refusal of its grant, or because it is killed.
ClientDies(c) ==
    /\ live(c) /\ SetClient(c, "dead")
    /\ UNCHANGED <<era, manager, worker, target, ack, frame, effect, out, grant, expired, early,
                   faults>>

\* An administrator withdraws a grant.
Withdraw(c) ==
    /\ c \in grant /\ grant' = grant \ {c}
    /\ early' = IF records[c].phase # "completed" THEN early \cup {c} ELSE early
    /\ UNCHANGED <<era, manager, worker, clients, expired, faults>>

Expire(c) ==
    /\ c \notin expired /\ ~Terminal(records[c]) /\ expired' = expired \cup {c}
    /\ UNCHANGED <<era, manager, worker, clients, grant, early, faults>>
-----------------------------------------------------------------------------
(* The laboratory's service, and the root maintenance client *)

LabSubmit(c) ==
    /\ era = "laboratory" /\ c \in Laboratory /\ client[c] = "idle"
    /\ Fresh /\ job.of = Nobody /\ MayBegin(records, c) /\ gateway_serving(ready)
    /\ Leave(begin(records, c, ready),
             [of |-> c, generation |-> ready, result |-> Nobody, fenced |-> FALSE], ready)
    /\ SetClient(c, "accepted") /\ target' = [target EXCEPT ![c] = ready]
    /\ UNCHANGED <<era, lease, worker, ack, frame, effect, out, grant, expired, early>>

\* Fetch: the result of the job at hand, to the process that submitted it.
Fetch(c) ==
    /\ c \in Laboratory /\ client[c] = "accepted" /\ frame[c] = Nobody
    /\ Fresh /\ gateway_serving(target[c]) /\ job.of = c /\ job.result # Nobody
    /\ frame' = [frame EXCEPT ![c] = job.result]
    /\ UNCHANGED <<era, manager, worker, client, target, ack, effect, out, grant, expired, early,
                   faults>>

\* Ack, with the digest of what was fetched: the job is forgotten, and the receipt kept.
AckResult(c) ==
    /\ c \in Laboratory /\ client[c] = "accepted" /\ frame[c] # Nobody
    /\ Fresh /\ gateway_serving(target[c])
    /\ records[c].phase = "completed" /\ records[c].result = frame[c] /\ c \notin expired
    /\ job' = IF job.of = c THEN NoJob ELSE job
    /\ out' = [out EXCEPT ![c] = frame[c]] /\ SetClient(c, "dead")
    /\ UNCHANGED <<era, broker, records, journal, ready, lease, busy, worker, target, ack, frame,
                   effect, grant, expired, early, faults>>

\* cancel: a request that has not completed drains, is written so, and is forgotten.
cancel(r, c) ==
    [r EXCEPT ![c].phase = IF @ \in {"preparing", "admitted"} THEN "draining" ELSE @]

CancelOwn(c) ==
    /\ c \in Laboratory /\ client[c] = "accepted" /\ Fresh /\ records[c].phase # "none"
    /\ Leave(cancel(records, c), IF job.of = c THEN NoJob ELSE job, ready)
    /\ UNCHANGED <<era, lease, worker, clients, grant, expired, early>>

\* handle_inference: the maintenance client is its own driver, and the gateway has no job.
Begin(c) ==
    /\ era = "laboratory" /\ c \in Laboratory /\ client[c] = "idle"
    /\ Fresh /\ inference_worker(lease.generation) /\ MayBegin(records, c)
    /\ Leave(begin(records, c, lease.generation), job, ready)
    /\ SetClient(c, "direct") /\ target' = [target EXCEPT ![c] = lease.generation]
    /\ UNCHANGED <<era, lease, worker, ack, frame, effect, out, grant, expired, early>>

\* Gate::admit and Gate::finish.
admit(r, c) == [r EXCEPT ![c].phase = "admitted"]
finish(r, c, answer) == [r EXCEPT ![c].phase = "completed", ![c].result = answer, ![c].pinned = FALSE]

Advance(c) ==
    /\ client[c] = "direct" /\ Fresh /\ c \notin expired
    /\ inference_worker(target[c])
    /\ \/ records[c].phase = "preparing" /\ Leave(admit(records, c), job, ready)
       \/ records[c].phase = "admitted" /\ Leave(finish(records, c, c), job, ready)
       \/ records[c].phase # "none" /\ Leave(cancel(records, c), job, ready)
    /\ UNCHANGED <<era, lease, worker, clients, grant, expired, early>>
-----------------------------------------------------------------------------
(* The driver in the leased worker.  A reply that it does not get, in time or as it must be,
   fails the tick: it cancels the job that it had, and the supervisor ends the worker. *)

WorkerStarts ==
    /\ worker = Off /\ broker = "up" /\ busy = Free
    /\ lease.state \in {"none", "released"} /\ lease.generation < MaxGeneration
    /\ lease' = [generation |-> lease.generation + 1, state |-> "active"]
    /\ worker' = [pc |-> "starting", of |-> Nobody]
    /\ UNCHANGED <<era, broker, records, journal, job, ready, busy, clients, grant, expired,
                   early, faults>>

\* The runtime answers under its profile's name, before the startup deadline.
RuntimeAnswers == worker.pc = "starting"

\* Then the broker is told.
Ready ==
    /\ Fresh /\ RuntimeAnswers /\ gateway_worker
    /\ ready' = lease.generation /\ worker' = [worker EXCEPT !.pc = "idle"]
    /\ UNCHANGED <<era, broker, records, journal, job, lease, busy, clients, grant, expired,
                   early, faults>>

\* run_with, in three parts: the receipt of a job is checked, its prompt is rendered and
\* counted, and the completion is validated.
Prepared(c) == worker.pc = "idle" /\ records[c].phase = "preparing"
Rendered == worker.pc = "claimed"
Answered == worker.pc = "admitted"

Claim ==
    /\ Fresh /\ gateway_worker /\ gateway_serving(lease.generation)
    /\ job.of # Nobody /\ Checked(job.of) /\ Prepared(job.of)
    /\ worker' = [pc |-> "claimed", of |-> job.of]
    /\ UNCHANGED <<era, manager, clients, grant, expired, early, faults>>

\* gateway_job
MyJob == job.of = worker.of /\ job.of # Nobody /\ job.generation = lease.generation

Admit ==
    /\ Fresh /\ Rendered /\ gateway_worker /\ MyJob /\ Checked(job.of)
    /\ records[job.of].phase = "preparing" /\ job.of \notin expired
    /\ Leave(admit(records, job.of), job, ready)
    /\ worker' = [worker EXCEPT !.pc = IF broker' = "up" THEN "admitted" ELSE "failing"]
    /\ UNCHANGED <<era, lease, clients, grant, expired, early>>

\* Finish: the completion is published; a granted job is then delivered under one more
\* challenge, for which the manager waits.
Completes ==
    /\ Fresh /\ Answered /\ gateway_worker /\ MyJob /\ Checked(job.of)
    /\ records[job.of].phase = "admitted" /\ job.of \notin expired

Finish ==
    /\ Completes
    /\ Persist(finish(records, job.of, worker.of))
    /\ job' = IF broker' = "up" THEN [job EXCEPT !.result = worker.of] ELSE NoJob
    /\ ready' = IF broker' = "up" THEN ready ELSE 0
    /\ busy' = IF broker' = "up" /\ job.of \in Granted THEN [op |-> "deliver", of |-> job.of]
               ELSE Free
    /\ worker' = IF broker' = "up" THEN [pc |-> "idle", of |-> Nobody]
                 ELSE [worker EXCEPT !.pc = "failing"]
    /\ UNCHANGED <<era, lease, clients, grant, expired, early>>

\* Admission::deliver: one more challenge, and the result.
deliver(c) == Answers(c) /\ frame' = [frame EXCEPT ![c] = job.result]

\* The serving generation and the peer were observed again.
DeliverResult ==
    /\ broker = "up" /\ busy.op = "deliver" /\ busy' = Free
    /\ LET c == busy.of IN
       \/ gateway_serving(job.generation) /\ deliver(c) /\ job' = NoJob
       \/ /\ job' = [job EXCEPT !.fenced = TRUE] /\ UNCHANGED frame
    /\ UNCHANGED <<era, broker, records, journal, ready, lease, worker, client, target, ack,
                   effect, out, grant, expired, early, faults>>

\* A tick that failed, for a reason of the runtime's too.
TickFails ==
    /\ worker.pc \in {"starting", "claimed", "admitted"}
    /\ worker' = [worker EXCEPT !.pc = "failing"]
    /\ UNCHANGED <<era, manager, clients, grant, expired, early, faults>>

\* Cancel, of the job that it had; the job may be gone, or the reply lost.
CancelJob ==
    /\ Fresh /\ worker.pc = "failing" /\ gateway_worker
    /\ worker.of # Nobody /\ records[worker.of].generation = lease.generation
    /\ Leave(cancel(records, worker.of), IF job.of = worker.of THEN NoJob ELSE job, ready)
    /\ worker' = Off
    /\ UNCHANGED <<era, lease, clients, grant, expired, early>>

\* The process ends: it failed, its group was killed, or it crashed.
WorkerEnds ==
    /\ worker' = Off
    /\ \/ worker.pc = "failing"
       \/ worker.pc # "off" /\ (lease.state = "draining" \/ broker = "fenced")
    /\ UNCHANGED <<era, manager, clients, grant, expired, early, faults>>

WorkerCrashes ==
    /\ worker.pc # "off" /\ Fault /\ worker' = Off
    /\ UNCHANGED <<era, manager, clients, grant, expired, early>>

\* Pressure, a lapse or an operator takes the lease.
LeaseLost ==
    /\ broker = "up" /\ busy = Free /\ lease.state = "active" /\ Fault
    /\ lease' = [lease EXCEPT !.state = "draining"]
    /\ UNCHANGED <<era, broker, records, journal, job, ready, busy, worker, clients, grant,
                   expired, early>>

Crash ==
    /\ broker # "down" /\ Fault /\ broker' = "down"
    /\ job' = NoJob /\ ready' = 0 /\ busy' = Free
    /\ ack' = [c \in Client |-> IF ack[c] = "owed" THEN "none" ELSE ack[c]]
    /\ UNCHANGED <<era, records, journal, lease, worker, client, target, frame, effect, out,
                   grant, expired, early>>

\* Gate::open: the records of the journal, without a handle of any caller; every lease drains.
Open ==
    /\ broker = "down" /\ broker' = "up"
    /\ records' = journal
    /\ lease' = [lease EXCEPT !.state = IF @ = "active" THEN "draining" ELSE @]
    /\ UNCHANGED <<era, journal, job, ready, busy, worker, clients, grant, expired, early, faults>>
-----------------------------------------------------------------------------
GatewayInit ==
    /\ era \in {"laboratory", "product"}
    /\ broker = "up" /\ records = [c \in Client |-> NoRecord] /\ journal = records
    /\ job = NoJob /\ ready = 0 /\ busy = Free
    /\ lease = [generation |-> 0, state |-> "none"] /\ worker = Off
    /\ client = [c \in Client |-> "idle"] /\ target = [c \in Client |-> 0]
    /\ grant = Granted /\ expired = {} /\ early = {}
    /\ ack = [c \in Client |-> "none"] /\ frame = [c \in Client |-> Nobody]
    /\ effect = [c \in Client |-> "none"] /\ out = [c \in Client |-> Nobody]
    /\ faults = 0

ClientStep(c) ==
    \/ Infer(c) \/ Capture(c) \/ Submit(c) \/ Denied(c) \/ WriteAck(c) \/ ReadAck(c)
    \/ ReadResult(c) \/ BeginDelivery(c) \/ Deliver(c) \/ ClientDies(c) \/ Withdraw(c) \/ Expire(c)
    \/ LabSubmit(c) \/ Fetch(c) \/ AckResult(c) \/ CancelOwn(c) \/ Begin(c) \/ Advance(c)

GatewayNext ==
    \/ Maintain \/ CheckFails \/ \E c \in Client : ClientStep(c)
    \/ WorkerStarts \/ Ready \/ Claim \/ Admit \/ Finish \/ DeliverResult
    \/ TickFails \/ CancelJob \/ WorkerEnds \/ WorkerCrashes \/ LeaseLost \/ Crash \/ Open

\* The loop of the broker maintains every 100 ms and a handler returns; a deadline passes; a
\* kill takes effect; the service manager starts the broker again.
GatewayFairness ==
    /\ WF_gatewayVars(Maintain) /\ WF_gatewayVars(DeliverResult) /\ WF_gatewayVars(WorkerEnds)
    /\ WF_gatewayVars(Open)
    /\ \A c \in Client : WF_gatewayVars(Expire(c)) /\ WF_gatewayVars(Denied(c))

GatewaySpec == GatewayInit /\ [][GatewayNext]_gatewayVars /\ GatewayFairness
-----------------------------------------------------------------------------
\* What a client gave out is the answer to its own job, of a request that is durably completed,
\* and its grant had not been withdrawn before the request completed; what it recorded as a
\* completed effect is such a request too, whatever crashed since.
DeliveryIsBacked ==
    \A c \in Client :
        /\ out[c] # Nobody => out[c] = c /\ c \notin early
        /\ (out[c] # Nobody \/ effect[c] = "complete") =>
               journal[c].phase = "completed" /\ journal[c].result = c

=============================================================================
