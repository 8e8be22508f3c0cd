---------------------------- MODULE BrokerEffects ----------------------------
(***************************************************************************)
(* broker_effects.rs and the effect thread of service.rs: the journal that *)
(* keeps the root broker from starting or stopping the reference worker    *)
(* twice for one request, or at all while an outcome is uncertain.         *)
(*                                                                         *)
(* The journal is replaced by a rename, visible at once and durable after  *)
(* the directory sync: possible holds what a power loss could leave.  The  *)
(* effect is a systemd job, which runs on after the broker stops waiting.  *)
(***************************************************************************)
EXTENDS Naturals, Sequences, FiniteSets

CONSTANTS
    RequestId,
    MaxRecords,   \* MAX_RECORDS
    None

Action == {"start-worker", "stop-worker"}
State == {"Applying", "Completed", "NotApplied"}
Record == [id : RequestId, action : Action, state : State]
Request == [id : RequestId, action : Action]

ASSUME BrokerAssumption == MaxRecords \in Nat /\ None \notin Request

VARIABLES
    visible,      \* effects.json as a reader finds it
    possible,     \* the journals a power loss can leave
    pc,           \* where the one effect thread is
    request,      \* the request it is handling
    jobs,         \* systemd jobs started and not finished
    dispatched,   \* how often a job was started for each request id
    succeeded,    \* request ids whose job finished with success
    acknowledged  \* requests answered ok

vars == <<visible, possible, pc, request, jobs, dispatched, succeeded, acknowledged>>
disk == <<visible, possible>>
world == <<jobs, dispatched, succeeded>>

TypeOK ==
    /\ visible \in possible /\ possible \subseteq Seq(Record)
    /\ pc \in {"idle", "sync_applying", "authorize", "sync_refused", "wait", "sync_completed",
               "replay"}
    /\ request \in Request \cup {None}
    /\ request = None <=> pc = "idle"
    /\ jobs \subseteq Request /\ succeeded \subseteq RequestId
    /\ dispatched \in [RequestId -> Nat]
    /\ acknowledged \subseteq Request

\* initialize has written the empty journal.
Init ==
    /\ visible = <<>> /\ possible = {<<>>}
    /\ pc = "idle" /\ request = None
    /\ jobs = {} /\ dispatched = [r \in RequestId |-> 0] /\ succeeded = {}
    /\ acknowledged = {}
-----------------------------------------------------------------------------
\* validate: no id twice, and only the last record may be Applying.
Valid(journal) ==
    /\ Len(journal) <= MaxRecords
    /\ \A i, j \in DOMAIN journal : journal[i].id = journal[j].id => i = j
    /\ \A i \in DOMAIN journal : journal[i].state = "Applying" => i = Len(journal)

Publish(journal) ==
    /\ Valid(journal)
    /\ visible' = journal /\ possible' = possible \cup {journal}

Sync == visible' = visible /\ possible' = {visible}

Uncertain == \E i \in DOMAIN visible : visible[i].state = "Applying"
Find(id) == {i \in DOMAIN visible : visible[i].id = id}

SetLast(state) ==
    LET last == [visible[Len(visible)] EXCEPT !.state = state]
    IN  Publish([visible EXCEPT ![Len(visible)] = last])

RecordOf(r, state) == [id |-> r.id, action |-> r.action, state |-> state]

Reply(r) == acknowledged' = acknowledged \cup {r}
Return == pc' = "idle" /\ request' = None

\* execute for an id without a record, up to the rename that makes Applying visible.  serve
\* starts the thread only when no other is running; a full journal is refused by validate.
Begin(r) ==
    /\ pc = "idle"
    /\ ~Uncertain /\ Find(r.id) = {}
    /\ Publish(Append(visible, RecordOf(r, "Applying")))
    /\ pc' = "sync_applying" /\ request' = r
    /\ UNCHANGED <<world, acknowledged>>

\* execute for a request that is recorded as Completed.
Replay(r) ==
    /\ pc = "idle"
    /\ ~Uncertain
    /\ \E i \in Find(r.id) : visible[i].action = r.action /\ visible[i].state = "Completed"
    /\ pc' = "replay" /\ request' = r
    /\ UNCHANGED <<disk, world, acknowledged>>

\* The file and the directory are synced again before the replay is answered.
ReplayReply ==
    /\ pc = "replay"
    /\ Sync /\ Reply(request) /\ Return
    /\ UNCHANGED world

\* The sync inside write_atomic for the first publish.
SyncApplying ==
    /\ pc = "sync_applying"
    /\ Sync /\ pc' = "authorize"
    /\ UNCHANGED <<request, world, acknowledged>>

\* The second authorization is denied: the record is taken back.
Refuse ==
    /\ pc = "authorize"
    /\ SetLast("NotApplied")
    /\ pc' = "sync_refused"
    /\ UNCHANGED <<request, world, acknowledged>>

\* Mutation of SyncRefused: the refusal is forgotten, and the thread goes on to dispatch.
SyncRefused_GoesOn ==
    /\ pc = "sync_refused"
    /\ Sync /\ pc' = "authorize"
    /\ UNCHANGED <<request, world, acknowledged>>

SyncRefused ==
    /\ pc = "sync_refused"
    /\ Sync /\ Return
    /\ UNCHANGED <<world, acknowledged>>

\* worker_command
Dispatch ==
    /\ pc = "authorize"
    /\ jobs' = jobs \cup {request}
    /\ dispatched' = [dispatched EXCEPT ![request.id] = @ + 1]
    /\ pc' = "wait"
    /\ UNCHANGED <<disk, request, succeeded, acknowledged>>

\* The job finishes: with success, or with a failure that systemctl reports.
JobSucceeds(r) ==
    /\ r \in jobs
    /\ jobs' = jobs \ {r} /\ succeeded' = succeeded \cup {r.id}
    /\ UNCHANGED <<disk, pc, request, dispatched, acknowledged>>

JobFails(r) ==
    /\ r \in jobs
    /\ jobs' = jobs \ {r}
    /\ UNCHANGED <<disk, pc, request, dispatched, succeeded, acknowledged>>

\* wait_worker_command sees the exit status in time.
Complete ==
    /\ pc = "wait" /\ request.id \in succeeded
    /\ SetLast("Completed")
    /\ pc' = "sync_completed"
    /\ UNCHANGED <<request, world, acknowledged>>

CompleteReply ==
    /\ pc = "sync_completed"
    /\ Sync /\ Reply(request) /\ Return
    /\ UNCHANGED world

\* A deadline, a failed job, a panic, a failed write or sync: the thread answers with an error
\* and the journal stays as it is.
Fail ==
    /\ pc # "idle"
    /\ Return
    /\ UNCHANGED <<disk, world, acknowledged>>

PowerLoss ==
    /\ visible' \in possible /\ possible' = {visible'}
    /\ Return
    /\ jobs' = {}
    /\ UNCHANGED <<dispatched, succeeded, acknowledged>>

Next ==
    \/ \E r \in Request : Begin(r) \/ Replay(r) \/ JobSucceeds(r) \/ JobFails(r)
    \/ ReplayReply \/ SyncApplying \/ Refuse \/ SyncRefused \/ Dispatch \/ Complete
    \/ CompleteReply \/ Fail \/ PowerLoss

Spec == Init /\ [][Next]_vars
-----------------------------------------------------------------------------
(* What the journal promises about the worker *)

\* A request starts at most one job, and one recorded as NotApplied has started none, in every
\* journal that a power loss could leave.
DispatchedOnce ==
    /\ \A r \in RequestId : dispatched[r] <= 1
    /\ \A j \in possible : \A i \in DOMAIN j : j[i].state = "NotApplied" => dispatched[j[i].id] = 0

\* A job that started has a record that is not lost, and Completed is only said of a success.
RecordedTruthfully ==
    \A j \in possible :
        /\ \A r \in RequestId : dispatched[r] > 0 => \E i \in DOMAIN j : j[i].id = r
        /\ \A i \in DOMAIN j : j[i].state = "Completed" => j[i].id \in succeeded

\* An answer ok is durable.
AcknowledgedSurvives ==
    \A r \in acknowledged, j \in possible :
        \E i \in DOMAIN j : j[i] = RecordOf(r, "Completed")
=============================================================================
