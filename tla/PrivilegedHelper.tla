-------------------------- MODULE PrivilegedHelper --------------------------
(***************************************************************************)
(* PrivilegedHelper.handle over the durable request journal and the        *)
(* durable effect executor, both on one database.  Several processes or    *)
(* threads handle requests at the same time; each call of handle is an     *)
(* attempt, and the journal owner token and the effect owner token it      *)
(* draws are both identified with it.  Between any two transactions other  *)
(* attempts run, the clock changes, evidence is withdrawn, or the process  *)
(* dies.                                                                   *)
(*                                                                         *)
(* The executor's own steps are those of EffectLedger: handle starts a     *)
(* call, the call runs step by step, and handle goes on when it returns.   *)
(***************************************************************************)
EXTENDS EffectLedger

(***************************************************************************)
(* SQLiteRequestJournal: one row per request id, leased to an owner while  *)
(* PENDING and terminal once COMPLETED.  Each operation is one transaction *)
(* on the shared store.  The operators below hold exactly when the         *)
(* transaction commits; a caller whose operation does not commit (a stale  *)
(* generation or owner, a full journal, a busy store, a clock behind the   *)
(* mark) gets an exception and changes nothing.                            *)
(***************************************************************************)
CONSTANTS
    RequestId,
    Digest,           \* request_sha256 values
    Owner,            \* owner tokens (uuid4, never drawn twice)
    Receipt,
    JournalCapacity,
    ReservationLease  \* how long a reservation is leased

ASSUME JournalAssumption ==
    /\ JournalCapacity \in Nat /\ ReservationLease \in Nat \ {0}
    /\ None \notin Owner /\ None \notin Receipt /\ None \notin Digest

VARIABLE
    journal           \* request_journal

JournalStates == {"absent", "pending", "completed", "failed_unknown"}

\* NULL columns are None; lease_until is 0 where it is NULL.
Request == [state : JournalStates, sha : Digest \cup {None}, owner : Owner \cup {None},
            gen : Nat, lease : Nat, receipt : Receipt \cup {None}]

NoRequest == [state |-> "absent", sha |-> None, owner |-> None, gen |-> 0, lease |-> 0,
              receipt |-> None]

\* The table's CHECK constraints and _verify_request_row.
RequestOK(row) ==
    /\ row.owner = None <=> row.state # "pending"
    /\ row.lease = 0 <=> row.state # "pending"
    /\ row.receipt = None <=> row.state # "completed"
    /\ row.gen = 0 <=> row.state = "absent"
    /\ row.sha = None <=> row.state = "absent"

JournalTypeOK ==
    /\ journal \in [RequestId -> Request]
    /\ \A id \in RequestId : RequestOK(journal[id])

JournalInit == journal = [id \in RequestId |-> NoRequest]

SetRequest(id, row) == journal' = [journal EXCEPT ![id] = row]
-----------------------------------------------------------------------------
(* reserve *)

RequestCount == Cardinality({id \in RequestId : journal[id].state # "absent"})

ReserveNew(id, sha, owner, t) ==
    /\ Observe(t)
    /\ journal[id].state = "absent" /\ RequestCount < JournalCapacity
    /\ SetRequest(id, [state |-> "pending", sha |-> sha, owner |-> owner, gen |-> 1,
                       lease |-> t + ReservationLease, receipt |-> None])

ReserveTakeover_AnyDigest(id, sha, owner, t) ==
    /\ Observe(t)
    /\ journal[id].state = "pending" /\ journal[id].lease <= t
    /\ SetRequest(id, [journal[id] EXCEPT !.owner = owner, !.gen = @ + 1,
                                          !.lease = t + ReservationLease])

\* An expired reservation passes to the caller under the next generation.
ReserveTakeover(id, sha, owner, t) ==
    /\ Observe(t)
    /\ journal[id].state = "pending" /\ journal[id].sha = sha /\ journal[id].lease <= t
    /\ SetRequest(id, [journal[id] EXCEPT !.owner = owner, !.gen = @ + 1,
                                          !.lease = t + ReservationLease])

\* The caller learns the record and acquires nothing.
ReserveRead(id, sha, t) ==
    /\ Observe(t)
    /\ journal[id].sha = sha
    /\ \/ journal[id].state \in {"completed", "failed_unknown"}
       \/ journal[id].state = "pending" /\ journal[id].lease > t
    /\ UNCHANGED journal

\* HelperReplayConflict: the id is bound to another digest for good.
ReplayConflict(id, sha) == journal[id].state # "absent" /\ journal[id].sha # sha
-----------------------------------------------------------------------------
\* complete: owner None is a reconciled completion, allowed from PENDING and FAILED_UNKNOWN.
CompleteRequest(id, sha, owner, generation, receipt) ==
    /\ Observe(clock)
    /\ journal[id].sha = sha /\ journal[id].gen = generation
    /\ \/ /\ journal[id].state = "completed" /\ journal[id].receipt = receipt
          /\ UNCHANGED journal
       \/ /\ journal[id].state \in {"pending", "failed_unknown"}
          /\ owner # None => journal[id].state = "pending" /\ journal[id].owner = owner
          /\ SetRequest(id, [journal[id] EXCEPT !.state = "completed", !.owner = None,
                                                !.lease = 0, !.receipt = receipt])

\* mark_failed_unknown: only the owner of the current generation fences.
MarkFailedUnknown(id, sha, owner, generation) ==
    /\ Observe(clock)
    /\ journal[id].sha = sha /\ journal[id].gen = generation
    /\ \/ journal[id].state = "failed_unknown" /\ UNCHANGED journal
       \/ /\ journal[id].state = "pending" /\ journal[id].owner = owner
          /\ SetRequest(id, [journal[id] EXCEPT !.state = "failed_unknown", !.owner = None,
                                                !.lease = 0])
-----------------------------------------------------------------------------
(* The helper. *)

\* idempotency_key is a function of the request id and its digest, and only of them.
ASSUME HelperAssumption ==
    /\ Key = RequestId \X Digest
    /\ Owner = Attempt /\ Receipt = Completion
    /\ None \notin RequestId

VARIABLES
    hpc,          \* where each attempt is inside handle
    req           \* handle's locals, and what it answered

helperVars == <<journal, hpc, req>>
allVars == <<vars, helperVars>>

\* "acquired", "fenced" and "dispatch" are the points at which the executor is called;
\* at "first", "again", "execute" and "post" handle waits for it.
HandlePcs == {"reserve", "acquired", "first", "fenced", "again", "dispatch", "execute", "post",
              "commit_any", "commit", "fence_request"}

\* What a caller of handle gets: a receipt or the kind of exception.
Answers == {"none", "receipt", "denied", "conflict", "in_progress", "failed_unknown",
            "not_applied", "error"}

Locals == [id : RequestId \cup {None}, sha : Digest \cup {None}, at : Time, gen : Nat,
           ev : Evidence \cup {None}, receipt : Completion \cup {None}, answer : Answers]

NoLocals == [id |-> None, sha |-> None, at |-> 0, gen |-> 0, ev |-> None,
             receipt |-> None, answer |-> "none"]

HelperTypeOK ==
    /\ TypeOK /\ JournalTypeOK
    /\ hpc \in [Attempt -> HandlePcs \cup {"idle", "done", "down"}]
    /\ req \in [Attempt -> Locals]

HelperInit ==
    /\ Init /\ JournalInit
    /\ hpc = [h \in Attempt |-> "idle"]
    /\ req = [h \in Attempt |-> NoLocals]
-----------------------------------------------------------------------------
KeyOf(h) == <<req[h].id, req[h].sha>>

Continue(h, where) == hpc' = [hpc EXCEPT ![h] = where] /\ UNCHANGED req

ContinueWith(h, where, receipt) ==
    /\ hpc' = [hpc EXCEPT ![h] = where]
    /\ req' = [req EXCEPT ![h] = [@ EXCEPT !.receipt = receipt]]

\* handle ends; only the answer, and the receipt it may carry, outlive it.
Finish(h, answer, receipt) ==
    /\ hpc' = [hpc EXCEPT ![h] = "done"]
    /\ req' = [req EXCEPT ![h] = [NoLocals EXCEPT !.id = req[h].id, !.sha = req[h].sha,
                                                  !.answer = answer, !.receipt = receipt]]

\* The executor's answer is in: the call that handle waits for has returned.
Returned(h, result) == pc[h] = "returned" /\ frame[h].ret = result

\* A request arrives: it parses, its peer is the transport's and is authenticated, and the
\* clock is sampled.  A request refused here leaves no trace.
Arrive(h, id, sha) ==
    /\ hpc[h] = "idle"
    /\ hpc' = [hpc EXCEPT ![h] = "reserve"]
    /\ req' = [req EXCEPT ![h] = [NoLocals EXCEPT !.id = id, !.sha = sha, !.at = clock]]
    /\ UNCHANGED <<vars, journal>>

\* _reserve, with the instant sampled on arrival.
Acquire(h) ==
    /\ hpc[h] = "reserve"
    /\ \/ ReserveNew(req[h].id, req[h].sha, h, req[h].at)
       \/ ReserveTakeover(req[h].id, req[h].sha, h, req[h].at)
    /\ hpc' = [hpc EXCEPT ![h] = "acquired"]
    /\ req' = [req EXCEPT ![h] = [@ EXCEPT !.gen = journal'[req[h].id].gen]]
    /\ UNCHANGED <<clock, ledgerVars>>

ReadReservation(h) ==
    /\ hpc[h] = "reserve"
    /\ ReserveRead(req[h].id, req[h].sha, req[h].at)
    /\ LET record == journal[req[h].id] IN
         \/ record.state = "completed" /\ Finish(h, "receipt", record.receipt)
         \/ record.state = "pending" /\ Finish(h, "in_progress", None)
         \/ /\ record.state = "failed_unknown"
            /\ hpc' = [hpc EXCEPT ![h] = "fenced"]
            /\ req' = [req EXCEPT ![h] = [@ EXCEPT !.gen = record.gen]]
    /\ UNCHANGED <<clock, ledgerVars>>

RefuseReservation(h) ==
    /\ hpc[h] = "reserve"
    /\ \/ ReplayConflict(req[h].id, req[h].sha) /\ Finish(h, "conflict", None)
       \/ Finish(h, "denied", None)            \* JOURNAL_UNAVAILABLE
    /\ UNCHANGED <<vars, journal>>
-----------------------------------------------------------------------------
\* "A newly reserved or safely taken-over request first consults the effect ledger", and
\* so does one that an earlier attempt fenced.
Consult(h) ==
    /\ \/ hpc[h] = "acquired" /\ Continue(h, "first")
       \/ hpc[h] = "fenced" /\ Continue(h, "again")
    /\ CallReconcile(h, KeyOf(h))
    /\ UNCHANGED journal

\* _reconcile returns.  NOT_FOUND lets a fresh reservation go on and leaves a fenced request
\* fenced; UNKNOWN or an exception fences the request.
Consulted(h) ==
    /\ \/ /\ hpc[h] \in {"first", "again"} /\ Returned(h, "completion")
          /\ ContinueWith(h, "commit_any", frame[h].done)
       \/ hpc[h] = "first" /\ Returned(h, "not_found") /\ Continue(h, "dispatch")
       \/ /\ hpc[h] = "first" /\ (Returned(h, "unknown") \/ Returned(h, "error"))
          /\ Continue(h, "fence_request")
       \/ /\ hpc[h] = "again" /\ pc[h] = "returned" /\ frame[h].ret # "completion"
          /\ Finish(h, "failed_unknown", None)
    /\ UNCHANGED <<vars, journal>>

\* The freshness check, two trust snapshots, the peer authentication and the final temporal
\* check come before the dispatch.  Any of them may deny; the request then stays PENDING.
DenyDispatch(h) ==
    /\ hpc[h] = "dispatch"
    /\ Finish(h, "denied", None)
    /\ UNCHANGED <<vars, journal>>

Dispatch(h, e) ==
    /\ hpc[h] = "dispatch" /\ e \notin revoked
    /\ CallExecute(h, KeyOf(h), e)
    /\ hpc' = [hpc EXCEPT ![h] = "execute"]
    /\ req' = [req EXCEPT ![h] = [@ EXCEPT !.ev = e]]
    /\ UNCHANGED journal

\* execute returns.  HelperEffectNotApplied leaves the request PENDING; after any other
\* exception handle consults the ledger again.
Executed(h) ==
    /\ hpc[h] = "execute"
    /\ \/ /\ Returned(h, "completion") /\ frame[h].done.ev = req[h].ev
          /\ ContinueWith(h, "commit", frame[h].done)
          /\ UNCHANGED vars
       \/ /\ Returned(h, "not_applied")
          /\ Finish(h, "not_applied", None)
          /\ UNCHANGED vars
       \/ /\ \/ Returned(h, "error")
             \/ Returned(h, "completion") /\ frame[h].done.ev # req[h].ev
          /\ Continue(h, "post")
          /\ CallReconcile(h, KeyOf(h))
    /\ UNCHANGED journal

\* "a completion carrying different authorization metadata cannot be substituted."
PostReconciled(h) ==
    /\ hpc[h] = "post" /\ pc[h] = "returned"
    /\ IF Returned(h, "completion") /\ frame[h].done.ev = req[h].ev
       THEN ContinueWith(h, "commit", frame[h].done)
       ELSE Continue(h, "fence_request")
    /\ UNCHANGED <<vars, journal>>
-----------------------------------------------------------------------------
(* The journal transactions that end handle *)

\* complete as a reconciler (no owner token) or as the owner of the reservation.
Commit(h) ==
    /\ \/ /\ hpc[h] = "commit_any"
          /\ CompleteRequest(req[h].id, req[h].sha, None, req[h].gen, req[h].receipt)
       \/ /\ hpc[h] = "commit"
          /\ CompleteRequest(req[h].id, req[h].sha, h, req[h].gen, req[h].receipt)
    /\ Finish(h, "receipt", req[h].receipt)
    /\ UNCHANGED <<clock, ledgerVars>>

\* mark_failed_unknown; the caller gets FAILED_UNKNOWN or "outcome is unknown and fenced".
FenceRequest(h) ==
    /\ hpc[h] = "fence_request"
    /\ MarkFailedUnknown(req[h].id, req[h].sha, h, req[h].gen)
    /\ Finish(h, "failed_unknown", None)
    /\ UNCHANGED <<clock, ledgerVars>>

\* The transaction does not commit: the journal is as it was, the caller gets an exception.
JournalFails(h) ==
    /\ hpc[h] \in {"commit_any", "commit", "fence_request"}
    /\ Finish(h, IF hpc[h] = "commit_any" THEN "denied" ELSE "error", None)
    /\ UNCHANGED <<vars, journal>>

\* The process dies with everything handle holds in memory.
HelperCrash(h) ==
    /\ hpc[h] \notin {"idle", "done", "down"}
    /\ Crash(h)
    /\ hpc' = [hpc EXCEPT ![h] = "down"]
    /\ req' = [req EXCEPT ![h] = NoLocals]
    /\ UNCHANGED journal

HandleStep(h) ==
    \/ Acquire(h) \/ ReadReservation(h) \/ RefuseReservation(h)
    \/ Consult(h) \/ Consulted(h)
    \/ DenyDispatch(h) \/ (\E e \in Evidence : Dispatch(h, e))
    \/ Executed(h) \/ PostReconciled(h)
    \/ Commit(h) \/ FenceRequest(h) \/ JournalFails(h)

HelperEnvironment == Environment /\ UNCHANGED helperVars

HelperNext ==
    \/ \E h \in Attempt :
          \/ \E id \in RequestId, sha \in Digest : Arrive(h, id, sha)
          \/ HandleStep(h)
          \/ CallStep(h) /\ UNCHANGED helperVars
          \/ HelperCrash(h)
    \/ HelperEnvironment

HelperSpec == HelperInit /\ [][HelperNext]_allVars
-----------------------------------------------------------------------------
(* What the journal and the ledger guarantee together *)

\* No receipt is invented: a completed request carries exactly the completion that the
\* effect ledger holds for its key, whichever path wrote it.
ReceiptIsTheLedgers ==
    \A id \in RequestId : journal[id].state = "completed" =>
        LET row == ledger[<<id, journal[id].sha>>] IN
            row.state = "completed" /\ row.done = journal[id].receipt

\* An effect is entered only for a journalled request and under the digest the id is bound
\* to, so two requests that share an id never both reach an adapter.
EffectIsJournalled ==
    \A id \in RequestId, sha \in Digest :
        entered[<<id, sha>>] > 0 => journal[id].state # "absent" /\ journal[id].sha = sha

\* "PREPARED is safely reclaimable by generation-fenced CAS": a request whose effect is
\* PREPARED is not fenced, so that a later handle can claim the row and dispatch it.
PreparedIsReclaimable ==
    \A id \in RequestId : journal[id].state = "failed_unknown" =>
        ledger[<<id, journal[id].sha>>].state # "prepared"
=============================================================================
