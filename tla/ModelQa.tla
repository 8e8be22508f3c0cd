------------------------------ MODULE ModelQa -------------------------------
(* The isolated trial of a model (model/qa.rs): an Admin's command pins the verified weights,
   hands a unit its immutable input, and retains the report that the unit's worker made of one
   fixed scenario; the worker holds a lease of the resource manager and runs the model in a
   child process of its own, which it must have reaped before it reports.

   The weights, the reviewed tuple (installation, profile, runtime, machine), the Admin's
   standing and the lease can change before any step.  How the command is registered and its
   unit supervised and drained is in GrantedAcquisition.  Jobs live in /run and are gone after a
   restart; retained reports are on /var. *)
EXTENDS Naturals, FiniteSets

CONSTANTS Run, Cancelling,   \* the runs, and those of the cancellation scenario
          Absent, Torn,
          MaxChanges,        \* bound: changes of the weights, of the tuple and of the runtime
          MaxReports,        \* reports that may be retained
          MaxQaFaults        \* bound: deaths, lost leases and restarts

VARIABLES weights,  \* the identity of the model's file: device, inode and times
          tuple,    \* what a review covers, and the digest of the runtime in it
          admin,    \* the original Admin's session holds
          run,      \* the command of each run
          job,      \* its directory under /run
          tester,   \* its worker
          lent,     \* the worker's lease
          child,    \* the worker's runtime process
          answer,   \* what the worker has learnt of the scenario
          output,   \* what the manager has recorded as the lease's output
          report,   \* what is retained under /var
          qaFaults

qaVars == <<weights, tuple, admin, run, job, tester, lent, child, answer, output, report,
            qaFaults>>

Version == 0..MaxChanges
Tuple == [review : Version, runtime : Version, cpus : {{1}, {1, 2}}]
Input == [model : Version, scope : Tuple]
Status == {"ok", "bad", "cancelled"}
Report == [model : Version, scope : Tuple, status : Status]
NoJob == [input |-> Absent, report |-> Absent]
Running == {"start", "leased", "spawned", "ready", "stopped", "written"}

QaTypeOK ==
    /\ weights \in Version /\ tuple \in Tuple /\ admin \in BOOLEAN /\ qaFaults \in 0..MaxQaFaults
    /\ \A r \in Run :
         /\ run[r].pc \in {"idle", "captured", "granted", "created", "launched", "ended",
                           "validated", "writing", "done", "failed"}
         /\ run[r].pin \in Version /\ run[r].scope \in Tuple
         /\ job[r].input \in Input \cup {Absent} /\ job[r].report \in Report \cup {Absent}
         /\ tester[r] \in Running \cup {"off", "ended", "dead"}
         /\ lent[r] \in {"none", "active", "lost"}
         /\ child[r] \in {"none", "loading", "serving", "token", "finished", "refused", "gone"}
         /\ answer[r] \in Status \cup {Absent}
         /\ output[r] \in Report \cup {Absent}
         /\ report[r] \in Report \cup {Absent, Torn}

QaInit ==
    /\ weights = 0 /\ tuple = [review |-> 0, runtime |-> 0, cpus |-> {1}] /\ admin = TRUE
    /\ run = [r \in Run |-> [pc |-> "idle", pin |-> 0, scope |-> tuple]]
    /\ job = [r \in Run |-> NoJob] /\ tester = [r \in Run |-> "off"]
    /\ lent = [r \in Run |-> "none"] /\ child = [r \in Run |-> "none"]
    /\ answer = [r \in Run |-> Absent] /\ output = [r \in Run |-> Absent]
    /\ report = [r \in Run |-> Absent] /\ qaFaults = 0

world == <<weights, tuple, admin, qaFaults>>
unitVars == <<tester, lent, child, answer, output>>

Fault == qaFaults < MaxQaFaults /\ qaFaults' = qaFaults + 1
Go(r, pc) == run' = [run EXCEPT ![r].pc = pc]
-----------------------------------------------------------------------------
(* The command *)

\* FileIdentity and Cached::check: the name and the held descriptor are those that were hashed.
Pinned(r) == weights = run[r].pin

\* MachineTuple::observe: the processors are all of one kind, or the machine is not supported.
observe(cpus) == Cardinality(cpus) = 1

\* usage and machine_digest: what the review covers is what is there.
Reviewed(r) == observe(tuple.cpus) /\ tuple = run[r].scope

\* Cached::capture, and the scope of the review
Capture(r) ==
    /\ run[r].pc = "idle" /\ observe(tuple.cpus)
    /\ run' = [run EXCEPT ![r] = [pc |-> "captured", pin |-> weights, scope |-> tuple]]
    /\ UNCHANGED <<world, job, unitVars, report>>

\* with_model_qa_grant: the Admin authenticates, and everything is compared again.
Granted(r) ==
    /\ run[r].pc = "captured"
    /\ Go(r, IF admin /\ Pinned(r) /\ Reviewed(r) THEN "granted" ELSE "failed")
    /\ UNCHANGED <<world, job, unitVars, report>>

\* The job's directory and its immutable input.json
CreateJob(r) ==
    /\ run[r].pc = "granted"
    /\ job' = [job EXCEPT ![r].input = [model |-> run[r].pin, scope |-> run[r].scope]]
    /\ Go(r, "created")
    /\ UNCHANGED <<world, unitVars, report>>

\* launch_arguments: one unit of a fixed name, whose input is the command's own descriptor.
Launch(r) ==
    /\ run[r].pc = "created"
    /\ IF admin /\ Pinned(r) /\ \A s \in Run : tester[s] \notin Running
       THEN tester' = [tester EXCEPT ![r] = "start"] /\ Go(r, "launched")
       ELSE Go(r, "failed") /\ UNCHANGED tester
    /\ UNCHANGED <<world, job, lent, child, answer, output, report>>

\* run_qa and supervise_owned_controller: the checks between, and the unit's exit.
Supervise(r) ==
    /\ run[r].pc = "launched"
    /\ \/ (~admin \/ ~Pinned(r) \/ tester[r] = "dead") /\ Go(r, "failed")
       \/ tester[r] = "ended" /\ admin /\ Pinned(r) /\ Go(r, "ended")
    /\ UNCHANGED <<world, job, unitVars, report>>

\* validate_report
Valid(r, rep, scope) ==
    /\ rep.scope = scope
    /\ rep.status = IF r \in Cancelling THEN "cancelled" ELSE "ok"

\* The report is validated again, against what the command reviewed.
Validate(r) ==
    /\ run[r].pc = "ended"
    /\ Go(r, IF admin /\ Pinned(r) /\ Reviewed(r) /\ Valid(r, job[r].report, run[r].scope)
             THEN "validated" ELSE "failed")
    /\ UNCHANGED <<world, job, unitVars, report>>

\* resource-output-receipt: the manager recorded exactly these bytes; then they are retained.
Retain(r) ==
    /\ run[r].pc = "validated"
    /\ IF output[r] = job[r].report /\ admin
          /\ Cardinality({s \in Run : report[s] # Absent}) < MaxReports
       THEN report' = [report EXCEPT ![r] = Torn] /\ Go(r, "writing")
       ELSE Go(r, "failed") /\ UNCHANGED report
    /\ UNCHANGED <<world, job, unitVars>>

\* write_new, and the end of the effect
Retained(r) ==
    /\ run[r].pc = "writing"
    /\ report' = [report EXCEPT ![r] = job[r].report] /\ Go(r, "done")
    /\ UNCHANGED <<world, job, unitVars>>
-----------------------------------------------------------------------------
(* The worker *)

At(r, pc) == tester' = [tester EXCEPT ![r] = pc]

\* The worker fails: Runtime::drop reaps the child, and the lease ends with the unit.
Fails(r) ==
    /\ At(r, "dead") /\ lent' = [lent EXCEPT ![r] = "lost"]
    /\ child' = [child EXCEPT ![r] = IF @ = "none" THEN @ ELSE "gone"]
Held(r) == lent[r] = "active"
Same(r) == weights = job[r].input.model

\* worker, to its lease: the descriptor is the pinned one, and check_worker finds the same input.
Acquire(r) ==
    /\ tester[r] = "start"
    /\ IF Same(r) /\ tuple.runtime = job[r].input.scope.runtime
       THEN At(r, "leased") /\ lent' = [lent EXCEPT ![r] = "active"] /\ UNCHANGED child
       ELSE Fails(r)
    /\ UNCHANGED <<world, run, job, answer, output, report>>

\* The layout is verified, and the runtime started with the descriptor and a private key.
Spawn(r) ==
    /\ tester[r] = "leased"
    /\ IF Held(r)
       THEN At(r, "spawned") /\ child' = [child EXCEPT ![r] = "loading"] /\ UNCHANGED lent
       ELSE Fails(r)
    /\ UNCHANGED <<world, run, job, answer, output, report>>

\* endpoint: the runtime lives, confined, and holds its private listener.
Endpoint(r) == child[r] \in {"serving", "token", "finished", "refused"}

\* The loop to readiness; its deadline, or another alias, ends the trial.
Ready(r) ==
    /\ tester[r] = "spawned"
    /\ IF Held(r) /\ Endpoint(r) THEN At(r, "ready") /\ UNCHANGED <<lent, child>> ELSE Fails(r)
    /\ UNCHANGED <<world, run, job, answer, output, report>>

\* Runtime::stop: the child is killed if it still runs, and reaped.
Stop(r, status) ==
    /\ child' = [child EXCEPT ![r] = "gone"] /\ answer' = [answer EXCEPT ![r] = status]
    /\ At(r, "stopped") /\ UNCHANGED lent

\* http: the whole answer, of whatever status, before the deadline and under the lease
http(r, end) == Held(r) /\ child[r] = end

Ask(r) ==
    /\ tester[r] = "ready" /\ r \notin Cancelling
    /\ \/ http(r, "finished") /\ Stop(r, "ok")
       \/ http(r, "refused") /\ Stop(r, "bad")
       \/ (~Held(r) \/ ~Endpoint(r)) /\ Fails(r) /\ UNCHANGED answer
    /\ UNCHANGED <<world, run, job, output, report>>

\* A token that was not the last one has been read, which says nothing of what the runtime has
\* sent since.
observed_nonterminal_token(r) == child[r] \in {"token", "finished"}

\* cancel_after_token: reading the end of the stream is a failure.
CancelAfterToken(r) ==
    /\ tester[r] = "ready" /\ r \in Cancelling
    /\ \/ Held(r) /\ observed_nonterminal_token(r) /\ Stop(r, "cancelled")
       \/ (~Held(r) \/ child[r] \in {"finished", "refused", "gone"}) /\ Fails(r) /\ UNCHANGED answer
    /\ UNCHANGED <<world, run, job, output, report>>

\* report.json, of the descriptor that is still the pinned one
WriteReport(r) ==
    /\ tester[r] = "stopped"
    /\ IF Held(r) /\ Same(r)
       THEN /\ job' = [job EXCEPT ![r].report = [model |-> job[r].input.model,
                                                 scope |-> job[r].input.scope, status |-> answer[r]]]
            /\ At(r, "written") /\ UNCHANGED <<lent, child>>
       ELSE Fails(r) /\ UNCHANGED job
    /\ UNCHANGED <<world, run, output, report, answer>>

\* complete_output: the manager reads the report itself before it records its digest.
check_output(r) == Valid(r, job[r].report, job[r].input.scope)
CompleteOutput(r) ==
    /\ tester[r] = "written"
    /\ IF Held(r) /\ check_output(r)
       THEN output' = [output EXCEPT ![r] = job[r].report] /\ At(r, "ended") /\ UNCHANGED <<lent, child>>
       ELSE Fails(r) /\ UNCHANGED output
    /\ UNCHANGED <<world, run, job, report, answer>>
-----------------------------------------------------------------------------
(* What happens beside them *)

\* The runtime loads, answers in tokens, finishes or refuses, or exits by itself.
Runtime(r) ==
    /\ \E step \in {<<"loading", "serving">>, <<"serving", "token">>, <<"token", "finished">>,
                    <<"serving", "refused">>, <<"loading", "gone">>, <<"token", "gone">>} :
         child[r] = step[1] /\ child' = [child EXCEPT ![r] = step[2]]
    /\ UNCHANGED <<world, run, job, tester, lent, output, report, answer>>

LoseLease(r) ==
    /\ Held(r) /\ Fault /\ lent' = [lent EXCEPT ![r] = "lost"]
    /\ UNCHANGED <<weights, tuple, admin, run, job, tester, child, output, report, answer>>

\* The unit is killed, by its manager once its command has failed or at its time limit: the
\* runtime is in the same group.
UnitKilled(r) ==
    /\ tester[r] \in Running /\ Fails(r)
    /\ \/ run[r].pc = "failed" /\ UNCHANGED qaFaults
       \/ Fault
    /\ UNCHANGED <<weights, tuple, admin, run, job, output, report, answer>>

CommandDies(r) ==
    /\ run[r].pc \notin {"idle", "done", "failed"} /\ Fault /\ Go(r, "failed")
    /\ UNCHANGED <<weights, tuple, admin, job, unitVars, report>>

WeightsChange ==
    /\ weights < MaxChanges /\ weights' = weights + 1
    /\ UNCHANGED <<tuple, admin, run, job, unitVars, report, qaFaults>>

\* Another machine state or policy; or another runtime, which the review covers as well.
TupleChanges ==
    /\ tuple.review < MaxChanges
    /\ \E new \in {<<0, {1}>>, <<1, {1}>>, <<0, {1, 2}>>} :
         tuple' = [review |-> tuple.review + 1, runtime |-> tuple.runtime + new[1],
                   cpus |-> new[2]]
    /\ UNCHANGED <<weights, admin, run, job, unitVars, report, qaFaults>>

AdminWithdrawn ==
    /\ admin /\ admin' = FALSE
    /\ UNCHANGED <<weights, tuple, run, job, unitVars, report, qaFaults>>

\* Processes and /run are gone; a report that was being written stays torn.
Restart ==
    /\ Fault
    /\ run' = [r \in Run |-> [run[r] EXCEPT !.pc = IF @ \in {"idle", "done"} THEN @ ELSE "failed"]]
    /\ job' = [r \in Run |-> NoJob]
    /\ tester' = [r \in Run |-> IF tester[r] \in Running THEN "dead" ELSE tester[r]]
    /\ lent' = [r \in Run |-> IF Held(r) THEN "lost" ELSE lent[r]]
    /\ child' = [r \in Run |-> IF child[r] = "none" THEN "none" ELSE "gone"]
    /\ UNCHANGED <<weights, tuple, admin, output, report, answer>>

QaNext ==
    \/ \E r \in Run :
         \/ Capture(r) \/ Granted(r) \/ CreateJob(r) \/ Launch(r) \/ Supervise(r) \/ Validate(r)
         \/ Retain(r) \/ Retained(r)
         \/ Acquire(r) \/ Spawn(r) \/ Ready(r) \/ Ask(r) \/ CancelAfterToken(r) \/ WriteReport(r)
         \/ CompleteOutput(r) \/ Runtime(r) \/ LoseLease(r) \/ UnitKilled(r) \/ CommandDies(r)
    \/ WeightsChange \/ TupleChanges \/ AdminWithdrawn \/ Restart

QaSpec == QaInit /\ [][QaNext]_qaVars

\* A report, in the job or retained, was made after the runtime it is about had been reaped; and
\* one that is retained is the output that the manager recorded for its lease, of the weights and
\* the tuple that its command reviewed and of the scenario that was asked for.
ReportIsBacked ==
    \A r \in Run :
        /\ job[r].report # Absent => child[r] = "gone"
        /\ report[r] \in Report =>
             /\ child[r] = "gone" /\ output[r] = report[r]
             /\ report[r].model = run[r].pin /\ report[r].scope = run[r].scope
             /\ report[r].status = IF r \in Cancelling THEN "cancelled" ELSE "ok"

=============================================================================
