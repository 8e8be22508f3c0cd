---------------------------- MODULE EffectLedger ----------------------------
(***************************************************************************)
(* SQLiteIdempotentEffectExecutor: the durable effect ledger and the       *)
(* execute / reconcile calls that run against it, each cut into the steps  *)
(* that other callers, the clock and a crash can fall between.  Every      *)
(* ledger transaction is one step; dispatch validation and the adapter run *)
(* outside any transaction and are steps of their own.                     *)
(*                                                                         *)
(* An attempt is one caller with one owner token (uuid4): the token is the *)
(* attempt itself.  An attempt executes at most once and reconciles as     *)
(* often as it likes.  A crashed attempt never comes back; its retry is    *)
(* another attempt.                                                        *)
(***************************************************************************)
EXTENDS Naturals, FiniteSets

(***************************************************************************)
(* The store.  What the request journal and the effect ledger share when   *)
(* both are opened on one database file (_SQLiteDurableBase): the wall     *)
(* clock every operation samples, and durable_meta.max_observed_at, the    *)
(* highest instant any committed transaction has seen.                     *)
(*                                                                         *)
(* A transaction is one atomic step (BEGIN IMMEDIATE ... COMMIT) that      *)
(* observes an instant.  An instant behind the high-water mark aborts it   *)
(* with DurableClockRollback, so Observe is a conjunct of every step that  *)
(* commits.                                                                *)
(***************************************************************************)
CONSTANTS
    Time,         \* the instants the wall clock can show
    None          \* SQL NULL

ASSUME TimeAssumption == Time \subseteq Nat /\ 0 \in Time

VARIABLES
    clock,        \* the host's UTC clock, as datetime.now(UTC) returns it
    high          \* durable_meta.max_observed_at

storeVars == <<clock, high>>

StoreTypeOK == clock \in Time /\ high \in Time

\* _initialize stores the epoch, which no later instant precedes.
StoreInit == clock \in Time /\ high = 0

\* _observe_clock succeeds: the mark moves up to the observed instant.
Observe(t) == t >= high /\ high' = t

\* _observe_clock raises DurableClockRollback.
RolledBack(t) == t < high

\* The host clock is outside the program: it advances, stands still or is set back.
SetClock(t) == t \in Time /\ clock' = t /\ UNCHANGED high

\* Another transaction on the same database moves the mark.
StoreUsed(t) == t \in Time /\ Observe(t) /\ UNCHANGED clock
-----------------------------------------------------------------------------
(* The ledger. *)

CONSTANTS
    Attempt,      \* callers, each with its own owner token
    Key,          \* idempotency keys, one per (request_id, request_sha256)
    Evidence,     \* authorization evidence: the bytes of effect_json
    Identity(_),  \* _prepared_request_identity of the evidence
    Outcome,      \* (result, executed_at) pairs an adapter can report
    Capacity      \* rows the ledger may hold

ASSUME LedgerAssumption ==
    /\ Capacity \in Nat
    /\ None \notin Attempt /\ None \notin Evidence /\ None \notin Outcome
    /\ None \notin [ev : Evidence, out : Outcome]

VARIABLES
    ledger,       \* effect_ledger: a row, or NoRow, for each idempotency key
    pc,           \* where each attempt is inside its executor call
    frame,        \* the call's local variables and what it returned
    drawn,        \* attempts that have drawn their owner token
    revoked,      \* evidence the dispatch validator now refuses
    entered,      \* how often the action adapter has been entered, per key
    appliedBy,    \* the evidence of the last adapter entry
    happened      \* whether the host effect has taken place

world == <<entered, appliedBy, happened>>
ledgerVars == <<ledger, pc, frame, drawn, revoked, entered, appliedBy, happened>>
vars == <<storeVars, ledgerVars>>
-----------------------------------------------------------------------------
\* ExecutorCompletion: the authorization metadata it carries, and the result.
Completion == [ev : Evidence, out : Outcome]

NoRow == [state |-> "absent", owner |-> None, gen |-> 0, ev |-> None, done |-> None]

States == {"absent", "prepared", "applying", "completed", "failed_unknown"}

\* The CHECK constraints of the effect_ledger table and _verify_effect_row: which
\* columns are NULL in which state.
Row == [state : States, owner : Attempt \cup {None}, gen : Nat,
        ev : Evidence \cup {None}, done : Completion \cup {None}]

RowOK(row) ==
    /\ row.owner = None <=> row.state \notin {"prepared", "applying"}
    /\ row.done = None <=> row.state # "completed"
    /\ row.ev = None <=> row.state = "absent"
    /\ row.gen = 0 <=> row.state = "absent"
    /\ row.done # None => row.done.ev = row.ev

CallPcs == {"replay", "validate1", "prepare", "validate2", "begin_apply", "validate3",
            "restore", "apply", "adapter", "fence", "complete",
            "rec_read", "rec_adapter", "rec_complete"}

\* Steps of a call that are one ledger transaction.
TransactionPcs == {"replay", "prepare", "begin_apply", "restore", "fence", "complete",
                   "rec_read", "rec_complete"}

\* How a call ends: with a completion, with HelperEffectNotApplied, with any other
\* exception, or with reconciliation NOT_FOUND or UNKNOWN.
Results == {"none", "completion", "not_applied", "error", "not_found", "unknown"}

Frame == [key : Key \cup {None}, ev : Evidence \cup {None}, gen : Nat, at : Time,
          out : Outcome \cup {None}, ret : Results, done : Completion \cup {None}]

EmptyFrame == [key |-> None, ev |-> None, gen |-> 0, at |-> 0, out |-> None,
               ret |-> "none", done |-> None]

LedgerTypeOK ==
    /\ ledger \in [Key -> Row]
    /\ \A k \in Key : RowOK(ledger[k])
    /\ pc \in [Attempt -> CallPcs \cup {"idle", "returned", "down"}]
    /\ frame \in [Attempt -> Frame]
    /\ drawn \subseteq Attempt
    /\ revoked \subseteq Evidence
    /\ entered \in [Key -> Nat]
    /\ appliedBy \in [Key -> Evidence \cup {None}]
    /\ happened \in [Key -> BOOLEAN]

LedgerInit ==
    /\ ledger = [k \in Key |-> NoRow]
    /\ pc = [a \in Attempt |-> "idle"]
    /\ frame = [a \in Attempt |-> EmptyFrame]
    /\ drawn = {}
    /\ revoked = {}
    /\ entered = [k \in Key |-> 0]
    /\ appliedBy = [k \in Key |-> None]
    /\ happened = [k \in Key |-> FALSE]
-----------------------------------------------------------------------------
RowOf(a) == ledger[frame[a].key]

\* The next step of a call, leaving its locals alone.
Goto(a, where) == pc' = [pc EXCEPT ![a] = where] /\ UNCHANGED frame

\* The call ends without a completion; its locals are gone.
Return(a, result) ==
    /\ pc' = [pc EXCEPT ![a] = "returned"]
    /\ frame' = [frame EXCEPT ![a] = [EmptyFrame EXCEPT !.ret = result]]

\* The call ends with a completion.
ReturnCompletion(a, completion) ==
    /\ pc' = [pc EXCEPT ![a] = "returned"]
    /\ frame' = [frame EXCEPT ![a] = [EmptyFrame EXCEPT !.ret = "completion", !.done = completion]]

\* What an UPDATE ... WHERE state=? AND owner_token=? AND generation=? requires.
Owns(a, state) ==
    /\ RowOf(a).state = state
    /\ RowOf(a).owner = a
    /\ RowOf(a).gen = frame[a].gen

SetRow(a, row) == ledger' = [ledger EXCEPT ![frame[a].key] = row]
-----------------------------------------------------------------------------
(* execute *)

CallExecute(a, k, e) ==
    /\ pc[a] \in {"idle", "returned"} /\ a \notin drawn
    /\ drawn' = drawn \cup {a}
    /\ pc' = [pc EXCEPT ![a] = "replay"]
    /\ frame' = [frame EXCEPT ![a] = [EmptyFrame EXCEPT !.key = k, !.ev = e]]
    /\ UNCHANGED <<storeVars, ledger, revoked, world>>

\* _completed_replay: a completed row answers only for the very same effect bytes.
CompletedReplay(a) ==
    /\ pc[a] = "replay"
    /\ \/ /\ Observe(clock) /\ RowOf(a).state # "completed"
          /\ Goto(a, "validate1")
       \/ /\ Observe(clock) /\ RowOf(a).state = "completed" /\ RowOf(a).ev = frame[a].ev
          /\ ReturnCompletion(a, RowOf(a).done)
       \/ /\ RowOf(a).state = "completed" /\ RowOf(a).ev # frame[a].ev
          /\ Return(a, "error") /\ UNCHANGED high          \* DurableEffectConflict
    /\ UNCHANGED <<clock, ledger, drawn, revoked, world>>

\* validate_authorized_effect and the dispatch validator accept the evidence now.
Validates(a) == frame[a].ev \notin revoked

\* The call samples the clock and goes on.
SampleAndGoto(a, where) ==
    /\ pc' = [pc EXCEPT ![a] = where]
    /\ frame' = [frame EXCEPT ![a] = [@ EXCEPT !.at = clock]]

\* Validation before preparation and again before the APPLYING transition.  Either
\* can also refuse evidence that is still good: a validator or the clock raised, or
\* (the first time) no adapter is registered for the action.
ValidateBeforePrepare(a) ==
    /\ pc[a] = "validate1"
    /\ \/ Validates(a) /\ SampleAndGoto(a, "prepare")
       \/ Return(a, "not_applied")
    /\ UNCHANGED <<storeVars, ledger, drawn, revoked, world>>

ValidateBeforeApply(a) ==
    /\ pc[a] = "validate2"
    /\ \/ Validates(a) /\ SampleAndGoto(a, "begin_apply")
       \/ Return(a, "not_applied")
    /\ UNCHANGED <<storeVars, ledger, drawn, revoked, world>>

RowCount == Cardinality({k \in Key : ledger[k].state # "absent"})

PreparedRow(a, generation) ==
    [state |-> "prepared", owner |-> a, gen |-> generation, ev |-> frame[a].ev, done |-> None]

Prepared(a, generation) ==
    /\ SetRow(a, PreparedRow(a, generation))
    /\ pc' = [pc EXCEPT ![a] = "validate2"]
    /\ frame' = [frame EXCEPT ![a] = [@ EXCEPT !.gen = generation]]

\* Mutation of Prepare: FAILED_UNKNOWN is claimed like PREPARED.
Prepare_ClaimsFenced(a) ==
    /\ pc[a] = "prepare" /\ Observe(frame[a].at)
    /\ RowOf(a).state \in {"absent", "prepared", "failed_unknown"}
    /\ Prepared(a, RowOf(a).gen + 1)
    /\ UNCHANGED <<clock, drawn, revoked, world>>

\* _prepare: insert the row, or steal a PREPARED one at once under the next generation.
Prepare(a) ==
    /\ pc[a] = "prepare"
    /\ \/ /\ Observe(frame[a].at)
          /\ RowOf(a).state = "absent" /\ RowCount < Capacity
          /\ Prepared(a, 1)
       \/ /\ Observe(frame[a].at)
          /\ RowOf(a).state = "prepared" /\ Identity(RowOf(a).ev) = Identity(frame[a].ev)
          /\ Prepared(a, RowOf(a).gen + 1)
       \/ /\ Observe(frame[a].at)
          /\ RowOf(a).state = "completed" /\ RowOf(a).ev = frame[a].ev
          /\ ReturnCompletion(a, RowOf(a).done) /\ UNCHANGED ledger
       \/ /\ \/ RolledBack(frame[a].at)
             \/ RowOf(a).state = "absent" /\ RowCount >= Capacity
          /\ Return(a, "not_applied") /\ UNCHANGED <<high, ledger>>
       \/ /\ ~RolledBack(frame[a].at)                  \* Conflict or Unknown
          /\ \/ RowOf(a).state \in {"applying", "failed_unknown"}
             \/ RowOf(a).state = "completed" /\ RowOf(a).ev # frame[a].ev
             \/ RowOf(a).state = "prepared" /\ Identity(RowOf(a).ev) # Identity(frame[a].ev)
          /\ Return(a, "error") /\ UNCHANGED <<high, ledger>>
    /\ UNCHANGED <<clock, drawn, revoked, world>>

\* _begin_apply: the compare-and-swap that must commit before the adapter is entered.
BeginApply(a) ==
    /\ pc[a] = "begin_apply"
    /\ \/ /\ Observe(frame[a].at) /\ Owns(a, "prepared")
          /\ SetRow(a, [RowOf(a) EXCEPT !.state = "applying"])
          /\ Goto(a, "validate3")
       \/ /\ Return(a, "not_applied")     \* DurableClockRollback, or the writer lock is busy
          /\ UNCHANGED <<high, ledger>>
       \/ /\ ~RolledBack(frame[a].at) /\ ~Owns(a, "prepared")
          /\ Return(a, "error")           \* DurableEffectInProgress
          /\ UNCHANGED <<high, ledger>>
    /\ UNCHANGED <<clock, drawn, revoked, world>>

\* The last check before the adapter, on a clock sampled after the swap.  When the
\* clock itself raises, the restore uses the instant sampled before the swap.
ValidateAtEntry(a) ==
    /\ pc[a] = "validate3"
    /\ \/ Validates(a) /\ SampleAndGoto(a, "apply")
       \/ SampleAndGoto(a, "restore")
       \/ Goto(a, "restore")
    /\ UNCHANGED <<storeVars, ledger, drawn, revoked, world>>

\* _restore_prepared: the adapter was not entered, so the row may be claimed again.
RestorePrepared(a) ==
    /\ pc[a] = "restore"
    /\ Observe(frame[a].at) /\ Owns(a, "applying")
    /\ SetRow(a, [RowOf(a) EXCEPT !.state = "prepared"])
    /\ Return(a, "not_applied")
    /\ UNCHANGED <<clock, drawn, revoked, world>>

\* adapter.apply, external: it is entered, the host effect takes place at some point
\* inside it, and it returns a result only after the effect or raises at any point.
EnterAdapter(a) ==
    /\ pc[a] = "apply"
    /\ entered' = [entered EXCEPT ![frame[a].key] = @ + 1]
    /\ appliedBy' = [appliedBy EXCEPT ![frame[a].key] = frame[a].ev]
    /\ Goto(a, "adapter")
    /\ UNCHANGED <<storeVars, ledger, drawn, revoked, happened>>

AdapterActs(a) ==
    /\ pc[a] = "adapter" /\ ~happened[frame[a].key]
    /\ happened' = [happened EXCEPT ![frame[a].key] = TRUE]
    /\ UNCHANGED <<storeVars, ledger, pc, frame, drawn, revoked, entered, appliedBy>>

AdapterReturns(a) ==
    /\ pc[a] = "adapter" /\ happened[frame[a].key]
    /\ \E o \in Outcome : frame' = [frame EXCEPT ![a] = [@ EXCEPT !.out = o]]
    /\ pc' = [pc EXCEPT ![a] = "complete"]
    /\ UNCHANGED <<storeVars, ledger, drawn, revoked, world>>

AdapterRaises(a) ==
    /\ pc[a] = "adapter"
    /\ Goto(a, "fence")
    /\ UNCHANGED <<storeVars, ledger, drawn, revoked, world>>

\* _mark_effect_unknown, then DurableEffectUnknown; a lost swap is an error as well.
MarkEffectUnknown(a) ==
    /\ pc[a] = "fence"
    /\ Observe(clock)
    /\ \/ /\ RowOf(a).state = "failed_unknown" /\ UNCHANGED ledger
       \/ /\ Owns(a, "applying")
          /\ SetRow(a, [RowOf(a) EXCEPT !.state = "failed_unknown", !.owner = None])
    /\ Return(a, "error")
    /\ UNCHANGED <<clock, drawn, revoked, world>>

CompletionOf(a) == [ev |-> frame[a].ev, out |-> frame[a].out]

\* _complete_effect: owner None is the reconciler.  _validate_completion_binding
\* compares the completion's metadata with the row's effect document.
CompleteEffect(a, owner, allowed) ==
    /\ Observe(clock)
    /\ RowOf(a).state # "absent" /\ RowOf(a).ev = frame[a].ev
    /\ \/ /\ RowOf(a).state = "completed" /\ RowOf(a).done = CompletionOf(a)
          /\ UNCHANGED ledger
       \/ /\ RowOf(a).state \in allowed
          /\ owner # None => RowOf(a).owner = owner
          /\ RowOf(a).gen = frame[a].gen
          /\ SetRow(a, [RowOf(a) EXCEPT !.state = "completed", !.owner = None,
                                       !.done = CompletionOf(a)])
    /\ ReturnCompletion(a, CompletionOf(a))
    /\ UNCHANGED <<clock, drawn, revoked, world>>

CompleteAsOwner(a) ==
    /\ pc[a] = "complete"
    /\ CompleteEffect(a, a, {"applying"})
-----------------------------------------------------------------------------
(* reconcile *)

CallReconcile(a, k) ==
    /\ pc[a] \in {"idle", "returned"}
    /\ pc' = [pc EXCEPT ![a] = "rec_read"]
    /\ frame' = [frame EXCEPT ![a] = [EmptyFrame EXCEPT !.key = k]]
    /\ UNCHANGED <<storeVars, ledger, drawn, revoked, world>>

\* The row is read in one transaction; the adapter is asked after it has ended.
ReadForReconcile(a) ==
    /\ pc[a] = "rec_read"
    /\ Observe(clock)
    /\ \/ /\ RowOf(a).state \in {"absent", "prepared"}
          /\ Return(a, "not_found")
       \/ /\ RowOf(a).state = "completed"
          /\ ReturnCompletion(a, RowOf(a).done)
       \/ /\ RowOf(a).state \in {"applying", "failed_unknown"}
          /\ pc' = [pc EXCEPT ![a] = "rec_adapter"]
          /\ frame' = [frame EXCEPT ![a] = [@ EXCEPT !.gen = RowOf(a).gen, !.ev = RowOf(a).ev]]
    /\ UNCHANGED <<clock, ledger, drawn, revoked, world>>

\* Mutation of AdapterReconciles: the adapter's UNKNOWN is taken for COMPLETED.
AdapterReconciles_Trusting(a) ==
    /\ pc[a] = "rec_adapter"
    /\ \E o \in Outcome : frame' = [frame EXCEPT ![a] = [@ EXCEPT !.out = o]]
    /\ pc' = [pc EXCEPT ![a] = "rec_complete"]
    /\ UNCHANGED <<storeVars, ledger, drawn, revoked, world>>

\* adapter.reconcile, external: it reports COMPLETED only for an effect that took place,
\* and may always answer UNKNOWN or raise.
AdapterReconciles(a) ==
    /\ pc[a] = "rec_adapter"
    /\ \/ Return(a, "unknown")
       \/ /\ happened[frame[a].key]
          /\ \E o \in Outcome : frame' = [frame EXCEPT ![a] = [@ EXCEPT !.out = o]]
          /\ pc' = [pc EXCEPT ![a] = "rec_complete"]
    /\ UNCHANGED <<storeVars, ledger, drawn, revoked, world>>

CompleteReconciled(a) ==
    /\ pc[a] = "rec_complete"
    /\ CompleteEffect(a, None, {"applying", "failed_unknown"})
-----------------------------------------------------------------------------
\* Mutation of TransactionFails: execute answers with the adapter's result although the
\* COMPLETED transition was not committed.
TransactionFails_Answers(a) ==
    /\ pc[a] = "complete"
    /\ ReturnCompletion(a, CompletionOf(a))
    /\ UNCHANGED <<storeVars, ledger, drawn, revoked, world>>

\* A transaction that does not commit: the store is busy or unavailable, the clock is
\* behind the mark, a row fails its checks or a compare-and-swap is lost.  SQLite rolls
\* the transaction back and the call ends with an exception.
TransactionFails(a) ==
    /\ pc[a] \in TransactionPcs
    /\ Return(a, "error")
    /\ UNCHANGED <<storeVars, ledger, drawn, revoked, world>>

\* The process running the attempt dies.  What it committed stays.
Crash(a) ==
    /\ pc[a] # "down"
    /\ pc' = [pc EXCEPT ![a] = "down"]
    /\ frame' = [frame EXCEPT ![a] = EmptyFrame]
    /\ UNCHANGED <<storeVars, ledger, drawn, revoked, world>>

\* External: policy, attestation or certificate authorities withdraw evidence.
Revoke(e) ==
    /\ revoked' = revoked \cup {e}
    /\ UNCHANGED <<storeVars, ledger, pc, frame, drawn, world>>

\* The steps a call takes between its start and its return.
CallStep(a) ==
    \/ CompletedReplay(a) \/ ValidateBeforePrepare(a) \/ Prepare(a)
    \/ ValidateBeforeApply(a) \/ BeginApply(a) \/ ValidateAtEntry(a) \/ RestorePrepared(a)
    \/ EnterAdapter(a) \/ AdapterActs(a) \/ AdapterReturns(a) \/ AdapterRaises(a)
    \/ MarkEffectUnknown(a) \/ CompleteAsOwner(a)
    \/ ReadForReconcile(a) \/ AdapterReconciles(a) \/ CompleteReconciled(a)
    \/ TransactionFails(a)

Environment ==
    \/ \E t \in Time : (SetClock(t) \/ StoreUsed(t)) /\ UNCHANGED ledgerVars
    \/ \E e \in Evidence \ revoked : Revoke(e)

Init == StoreInit /\ LedgerInit

Next ==
    \/ \E a \in Attempt :
          \/ \E k \in Key, e \in Evidence : CallExecute(a, k, e)
          \/ \E k \in Key : CallReconcile(a, k)
          \/ CallStep(a)
          \/ Crash(a)
    \/ Environment

Spec == Init /\ [][Next]_vars
-----------------------------------------------------------------------------
(* What the executor must guarantee *)

\* Well-typed state, and every row within the NULL rules of the table's CHECK
\* constraints and _verify_effect_row.
TypeOK == StoreTypeOK /\ LedgerTypeOK

\* "exactly one contender can subsequently enter APPLYING": however preparations are
\* stolen, attempts crash and calls are retried, the adapter of a key is entered at most
\* once in the life of the database.
AtMostOnce == \A k \in Key : entered[k] <= 1

\* "PREPARED proves no adapter entry occurred": a row that may be stolen at once (or no
\* row) belongs to an effect whose adapter was never entered.
PreparedNotEntered ==
    \A k \in Key : ledger[k].state \in {"absent", "prepared"} => entered[k] = 0

\* A completed row speaks of an effect that took place, and carries the authorization
\* metadata the adapter was entered with, also when a reconciler wrote it.
CompletionIsTruthful ==
    \A k \in Key : ledger[k].state = "completed" =>
        happened[k] /\ ledger[k].done.ev = appliedBy[k]

\* Two live attempts are never both past the APPLYING transition of the same key, and the
\* one that is there still owns the row or a reconciler has settled it.
OneApplier ==
    \A a, b \in Attempt :
        /\ pc[a] \in {"validate3", "restore", "apply", "adapter", "fence", "complete"}
        /\ pc[b] \in {"validate3", "restore", "apply", "adapter", "fence", "complete"}
        /\ frame[a].key = frame[b].key
        => a = b /\ (Owns(a, "applying") \/ RowOf(a).state = "completed")

\* A row as FencedEffect sees it.
PhaseOf(state) == CASE state \in {"absent", "prepared"} -> "open"
                    [] state \in {"applying", "failed_unknown"} -> "fenced"
                    [] state = "completed" -> "settled"
Phase == [k \in Key |-> PhaseOf(ledger[k].state)]
Answer == [k \in Key |-> ledger[k].done]

Abstract == INSTANCE FencedEffect WITH
    phase <- Phase, entry <- appliedBy, took <- happened, answer <- Answer

\* The ledger implements the fenced effect: every interleaving of execute, reconcile,
\* crashes and failed transactions is a behaviour of FencedEffect.
ImplementsFencedEffect == Abstract!Spec
=============================================================================
