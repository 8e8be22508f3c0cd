------------------------- MODULE EffectLedgerProofs -------------------------
(***************************************************************************)
(* Proofs about EffectLedger for every set of attempts, keys, evidence,    *)
(* outcomes and instants and every capacity, and about PrivilegedHelper    *)
(* above it.  The first two sections and the refinement use only what      *)
(* EffectLedger assumes of its constants; the helper's also use that keys  *)
(* are pairs of a request id and a digest.                                 *)
(***************************************************************************)
EXTENDS PrivilegedHelper, TLAPS

\* Steps of execute, and those between the APPLYING swap and the return.
ExecutePcs == {"replay", "validate1", "prepare", "validate2", "begin_apply", "validate3",
               "restore", "apply", "adapter", "fence", "complete"}
BeforeEntry == {"validate3", "restore", "apply"}
AfterEntry == {"adapter", "fence", "complete"}

\* The locals a call has set by the step it is at.
FrameOK ==
    \A a \in Attempt :
        /\ pc[a] \in CallPcs => frame[a].key \in Key
        /\ pc[a] \in ExecutePcs \cup {"rec_adapter", "rec_complete"} => frame[a].ev \in Evidence
        /\ pc[a] \in {"complete", "rec_complete"} => frame[a].out \in Outcome

RowsOK == ledger \in [Key -> Row] /\ \A k \in Key : RowOK(ledger[k])

ControlOK ==
    /\ pc \in [Attempt -> CallPcs \cup {"idle", "returned", "down"}]
    /\ frame \in [Attempt -> Frame]
    /\ FrameOK

WorldTypeOK ==
    /\ drawn \subseteq Attempt
    /\ revoked \subseteq Evidence
    /\ entered \in [Key -> Nat]
    /\ appliedBy \in [Key -> Evidence \cup {None}]
    /\ happened \in [Key -> BOOLEAN]

\* The type invariant, which is inductive only together with FrameOK, sorted by which steps
\* can disturb which part.
TInv == StoreTypeOK /\ RowsOK /\ ControlOK /\ WorldTypeOK

\* How far an effect has got outside the store, against its row.
WorldAt(k) ==
    /\ entered[k] \in {0, 1}
    /\ ledger[k].state \in {"absent", "prepared"} => entered[k] = 0
    /\ entered[k] = 0 => ~happened[k] /\ appliedBy[k] = None
    /\ entered[k] = 1 => appliedBy[k] = ledger[k].ev
    /\ ledger[k].state = "completed" => happened[k]
WorldOK == \A k \in Key : WorldAt(k)

\* What an attempt past the APPLYING swap knows about its row.
ApplierAt(a) ==
    /\ pc[a] \in BeforeEntry =>
         Owns(a, "applying") /\ RowOf(a).ev = frame[a].ev /\ entered[frame[a].key] = 0
    /\ pc[a] \in AfterEntry =>
         /\ Owns(a, "applying") \/ RowOf(a).state = "completed"
         /\ entered[frame[a].key] = 1
    /\ pc[a] \in {"complete", "rec_complete"} => happened[frame[a].key]
    /\ pc[a] \in {"validate2", "begin_apply"} /\ RowOf(a).owner = a =>
         RowOf(a).ev = frame[a].ev

ApplierOK == \A a \in Attempt : ApplierAt(a)

\* No two attempts are past the entry of the same adapter.
Alone ==
    \A a, b \in Attempt :
        pc[a] \in AfterEntry /\ pc[b] \in AfterEntry /\ frame[a].key = frame[b].key => a = b

IInv == TInv /\ WorldOK /\ ApplierOK /\ Alone
-----------------------------------------------------------------------------
(* Type correctness *)

USE DEF world, storeVars, ledgerVars

\* A generation is followed by one, and the first is 1; no entry is not an entry.
LEMMA Generations == 1 \in Nat \ {0} /\ (\A n \in Nat : n + 1 \in Nat \ {0}) /\ ~(0 > 0)
  OBVIOUS

LEMMA PreparedFields ==
  ASSUME NEW a, NEW g
  PROVE  /\ PreparedRow(a, g).owner = a /\ PreparedRow(a, g).ev = frame[a].ev
         /\ PreparedRow(a, g).state = "prepared"
  BY DEF PreparedRow

LEMMA TInvTypes == TInv => TypeOK
  BY DEF TInv, TypeOK, LedgerTypeOK, RowsOK, ControlOK, WorldTypeOK

\* A row read from the table is well formed.
LEMMA RowFacts ==
  ASSUME RowsOK, NEW k \in Key
  PROVE  /\ ledger[k] \in Row /\ RowOK(ledger[k])
         /\ ledger[k].state = "completed" => ledger[k].done \in Completion
         /\ ledger[k].state # "absent" => ledger[k].ev \in Evidence
  BY DEF RowsOK, RowOK, Row

\* Writing a well-formed row keeps the table well formed.
LEMMA SetRowOK ==
  ASSUME RowsOK, NEW a \in Attempt, NEW row \in Row, RowOK(row),
         frame[a].key \in Key, SetRow(a, row)
  PROVE  RowsOK'
  BY DEF RowsOK, SetRow

\* Moving on without touching the locals: the next step may not need more of them.
LEMMA GotoOK ==
  ASSUME ControlOK, NEW a \in Attempt, NEW where, Goto(a, where),
         \/ pc[a] \in ExecutePcs /\ where \in ExecutePcs \ {"complete"}
  PROVE  ControlOK'
  BY DEF ControlOK, Goto, FrameOK, ExecutePcs, CallPcs

LEMMA SampleOK ==
  ASSUME ControlOK, StoreTypeOK, NEW a \in Attempt, NEW where, SampleAndGoto(a, where),
         pc[a] \in ExecutePcs, where \in ExecutePcs \ {"complete"}
  PROVE  ControlOK'
  BY DEF ControlOK, SampleAndGoto, FrameOK, ExecutePcs, CallPcs, StoreTypeOK, Frame

LEMMA ReturnOK ==
  ASSUME ControlOK, NEW a \in Attempt, NEW result \in Results, Return(a, result)
  PROVE  ControlOK'
  BY TimeAssumption DEF ControlOK, Return, FrameOK, ExecutePcs, CallPcs, EmptyFrame, Frame

LEMMA ReturnCompletionOK ==
  ASSUME ControlOK, NEW a \in Attempt, NEW completion \in Completion,
         ReturnCompletion(a, completion)
  PROVE  ControlOK'
  BY ZenonT(30), TimeAssumption
  DEF ControlOK, ReturnCompletion, FrameOK, ExecutePcs, CallPcs, EmptyFrame, Frame, Results

LEMMA TypeInit == Init => TInv
  BY TimeAssumption, LedgerAssumption
  DEF Init, StoreInit, LedgerInit, NoRow, TInv, StoreTypeOK, RowsOK, ControlOK, WorldTypeOK, FrameOK,
      RowOK, Row, Frame, EmptyFrame, Completion, States, Results, CallPcs, ExecutePcs

\* The steps that leave the ledger and the world alone and only move a call along.
LEMMA TypeStepControl ==
  ASSUME TInv, NEW a \in Attempt,
         \/ CompletedReplay(a) \/ ValidateBeforePrepare(a) \/ ValidateBeforeApply(a)
         \/ ValidateAtEntry(a) \/ AdapterRaises(a) \/ AdapterReturns(a)
         \/ ReadForReconcile(a) \/ AdapterReconciles(a) \/ TransactionFails(a) \/ Crash(a)
  PROVE  TInv'
  <1> USE DEF TInv
  <1>0. /\ pc[a] \in CallPcs => frame[a].key \in Key
        /\ pc[a] \in ExecutePcs => frame[a].ev \in Evidence
    BY DEF ControlOK, FrameOK
  <1>1. CASE CompletedReplay(a)
    <2>1. ControlOK'
      BY <1>0, <1>1, RowFacts, GotoOK, ReturnOK, ReturnCompletionOK
      DEF CompletedReplay, RowOf, ExecutePcs, CallPcs, Results
    <2> QED
      BY ZenonT(30), <1>1, <2>1 DEF CompletedReplay, Observe, StoreTypeOK, RowsOK, WorldTypeOK
  <1>2. CASE ValidateBeforePrepare(a)
    <2>1. ControlOK'
      BY <1>2, SampleOK, ReturnOK DEF ValidateBeforePrepare, ExecutePcs, Results
    <2> QED
      BY <1>2, <2>1 DEF ValidateBeforePrepare, StoreTypeOK, RowsOK, WorldTypeOK
  <1>3. CASE ValidateBeforeApply(a)
    <2>1. ControlOK'
      BY <1>3, SampleOK, ReturnOK DEF ValidateBeforeApply, ExecutePcs, Results
    <2> QED
      BY <1>3, <2>1 DEF ValidateBeforeApply, StoreTypeOK, RowsOK, WorldTypeOK
  <1>4. CASE ValidateAtEntry(a)
    <2>1. ControlOK'
      BY <1>4, SampleOK, GotoOK DEF ValidateAtEntry, ExecutePcs
    <2> QED
      BY <1>4, <2>1 DEF ValidateAtEntry, StoreTypeOK, RowsOK, WorldTypeOK
  <1>5. CASE AdapterRaises(a)
    <2>1. ControlOK'
      BY <1>5, GotoOK DEF AdapterRaises, ExecutePcs
    <2> QED
      BY <1>5, <2>1 DEF AdapterRaises, StoreTypeOK, RowsOK, WorldTypeOK
  <1>6. CASE AdapterReturns(a)
    <2>1. ControlOK'
      <3>1. /\ pc' = [pc EXCEPT ![a] = "complete"] /\ pc[a] = "adapter"
            /\ frame' = [frame EXCEPT ![a].out = frame'[a].out] /\ frame'[a].out \in Outcome
        BY <1>6 DEF AdapterReturns, ControlOK, Frame
      <3>2. pc' \in [Attempt -> CallPcs \cup {"idle", "returned", "down"}]
        BY <3>1 DEF ControlOK, CallPcs
      <3>3. frame' \in [Attempt -> Frame]
        BY <3>1 DEF ControlOK, Frame
      <3>4. FrameOK'
        BY <1>0, <3>1 DEF ControlOK, FrameOK, Frame, ExecutePcs, CallPcs
      <3> QED
        BY <3>2, <3>3, <3>4 DEF ControlOK
    <2> QED
      BY <1>6, <2>1 DEF AdapterReturns, StoreTypeOK, RowsOK, WorldTypeOK
  <1>7. CASE ReadForReconcile(a)
    <2>1. ASSUME RowOf(a).state \in {"absent", "prepared"} PROVE ControlOK'
      BY <1>7, <2>1, ReturnOK DEF ReadForReconcile, Results
    <2>2. ASSUME RowOf(a).state = "completed" PROVE ControlOK'
      BY <1>0, <1>7, <2>2, RowFacts, ReturnCompletionOK DEF ReadForReconcile, RowOf, CallPcs
    <2>3. ASSUME RowOf(a).state \in {"applying", "failed_unknown"} PROVE ControlOK'
      <3>1. RowOf(a).gen \in Nat /\ RowOf(a).ev \in Evidence
        BY <1>0, <1>7, <2>3, RowFacts DEF ReadForReconcile, RowOf, CallPcs, Row
      <3>2. /\ pc' = [pc EXCEPT ![a] = "rec_adapter"]
            /\ frame' = [frame EXCEPT ![a] = [@ EXCEPT !.gen = RowOf(a).gen, !.ev = RowOf(a).ev]]
        BY <1>7, <2>3 DEF ReadForReconcile
      <3>3. frame[a].key \in Key /\ frame[a] \in Frame
        BY <1>0, <1>7 DEF ReadForReconcile, ControlOK, CallPcs
      <3>4. frame' \in [Attempt -> Frame]
        BY ZenonT(30), <3>1, <3>2, <3>3 DEF ControlOK, Frame
      <3> QED
        BY <3>1, <3>2, <3>3, <3>4 DEF ControlOK, FrameOK, Frame, ExecutePcs, CallPcs
    <2>4. ControlOK'
      BY <1>7, <2>1, <2>2, <2>3 DEF ReadForReconcile
    <2> QED
      BY <1>7, <2>4 DEF ReadForReconcile, Observe, StoreTypeOK, RowsOK, WorldTypeOK
  <1>8. CASE AdapterReconciles(a)
    <2>1. ASSUME Return(a, "unknown") PROVE ControlOK'
      BY <2>1, ReturnOK DEF Results
    <2>2. ASSUME pc' = [pc EXCEPT ![a] = "rec_complete"] PROVE ControlOK'
      BY <1>8, <2>2 DEF AdapterReconciles, Return, ControlOK, FrameOK, Frame, ExecutePcs, CallPcs
    <2>3. ControlOK'
      BY <1>8, <2>1, <2>2 DEF AdapterReconciles
    <2> QED
      BY <1>8, <2>3 DEF AdapterReconciles, StoreTypeOK, RowsOK, WorldTypeOK
  <1>9. CASE TransactionFails(a)
    <2>1. ControlOK'
      BY <1>9, ReturnOK DEF TransactionFails, Results
    <2> QED
      BY <1>9, <2>1 DEF TransactionFails, StoreTypeOK, RowsOK, WorldTypeOK
  <1>10. CASE Crash(a)
    <2>1. ControlOK'
      BY <1>10, TimeAssumption
      DEF Crash, ControlOK, FrameOK, Frame, EmptyFrame, Results, ExecutePcs, CallPcs
    <2> QED
      BY <1>10, <2>1 DEF Crash, StoreTypeOK, RowsOK, WorldTypeOK
  <1> QED
    BY <1>1, <1>2, <1>3, <1>4, <1>5, <1>6, <1>7, <1>8, <1>9, <1>10

\* _prepare writes a well-formed PREPARED row or ends the call.
LEMMA TypeStepPrepare ==
  ASSUME TInv, NEW a \in Attempt, Prepare(a)
  PROVE  TInv'
  <1> USE DEF TInv
  <1>0. frame[a].key \in Key /\ frame[a].ev \in Evidence /\ frame[a] \in Frame
    BY DEF Prepare, ControlOK, FrameOK, ExecutePcs, CallPcs
  <1>1. StoreTypeOK'
    BY <1>0 DEF Prepare, Observe, StoreTypeOK, Frame
  <1>2. WorldTypeOK'
    BY DEF Prepare, WorldTypeOK
  <1>3. ASSUME NEW g \in Nat \ {0}, Prepared(a, g)
        PROVE  RowsOK' /\ ControlOK'
    <2>1. PreparedRow(a, g) \in Row /\ RowOK(PreparedRow(a, g))
      BY <1>0, LedgerAssumption DEF PreparedRow, Row, RowOK, States
    <2>2. RowsOK'
      BY <1>0, <1>3, <2>1, SetRowOK DEF Prepared
    <2>3. ControlOK'
      BY ZenonT(30), <1>0, <1>3 DEF Prepared, ControlOK, FrameOK, Frame, ExecutePcs, CallPcs
    <2> QED
      BY <2>2, <2>3
  <1>4. ASSUME UNCHANGED ledger, NEW r \in {"not_applied", "error"}, Return(a, r)
        PROVE  RowsOK' /\ ControlOK'
    BY <1>4, ReturnOK DEF RowsOK, Results
  <1>5. ASSUME UNCHANGED ledger, RowOf(a).state = "completed", ReturnCompletion(a, RowOf(a).done)
        PROVE  RowsOK' /\ ControlOK'
    BY <1>0, <1>5, RowFacts, ReturnCompletionOK DEF RowsOK, RowOf
  <1>6. RowOf(a).gen + 1 \in Nat \ {0}
    BY <1>0, RowFacts DEF RowOf, Row
  <1> QED
    BY <1>1, <1>2, <1>3, <1>4, <1>5, <1>6 DEF Prepare

\* The three compare-and-swaps of an owner: to APPLYING, back to PREPARED, to FAILED_UNKNOWN.
LEMMA TypeStepOwner ==
  ASSUME TInv, NEW a \in Attempt,
         BeginApply(a) \/ RestorePrepared(a) \/ MarkEffectUnknown(a)
  PROVE  TInv'
  <1> USE DEF TInv
  <1>0. frame[a].key \in Key /\ frame[a] \in Frame
    BY DEF BeginApply, RestorePrepared, MarkEffectUnknown, ControlOK, FrameOK, CallPcs
  <1>1. StoreTypeOK' /\ WorldTypeOK'
    BY <1>0 DEF BeginApply, RestorePrepared, MarkEffectUnknown, Observe, StoreTypeOK, WorldTypeOK,
                Frame
  <1>2. RowOf(a) \in Row /\ RowOK(RowOf(a))
    BY <1>0, RowFacts DEF RowOf
  <1>3. ControlOK'
    BY GotoOK, ReturnOK
    DEF BeginApply, RestorePrepared, MarkEffectUnknown, ExecutePcs, Results
  <1>4. RowsOK'
    <2>1. ASSUME NEW st \in {"applying", "prepared"}, Owns(a, "prepared") \/ Owns(a, "applying"),
                 SetRow(a, [RowOf(a) EXCEPT !.state = st])
          PROVE  RowsOK'
      <3> DEFINE row == [RowOf(a) EXCEPT !.state = st]
      <3>1. row \in Row /\ RowOK(row)
        BY <1>2, <2>1 DEF Row, RowOK, States, Owns
      <3> QED
        BY <1>0, <2>1, <3>1, SetRowOK
    <2>2. ASSUME Owns(a, "applying"),
                 SetRow(a, [RowOf(a) EXCEPT !.state = "failed_unknown", !.owner = None])
          PROVE  RowsOK'
      <3> DEFINE row == [RowOf(a) EXCEPT !.state = "failed_unknown", !.owner = None]
      <3>1. row \in Row /\ RowOK(row)
        BY ZenonT(30), <1>2, <2>2 DEF Row, RowOK, States, Owns
      <3> QED
        BY <1>0, <2>2, <3>1, SetRowOK
    <2>3. ASSUME UNCHANGED ledger PROVE RowsOK'
      BY <2>3 DEF RowsOK
    <2> QED
      BY <2>1, <2>2, <2>3 DEF BeginApply, RestorePrepared, MarkEffectUnknown
  <1> QED
    BY <1>1, <1>3, <1>4

\* A completion is never NULL.
LEMMA CompletionNotNone == \A c \in Completion : c # None
  BY LedgerAssumption DEF Completion

\* _complete_effect, called by the owner or by a reconciler.
LEMMA TypeStepComplete ==
  ASSUME TInv, NEW a \in Attempt, CompleteAsOwner(a) \/ CompleteReconciled(a)
  PROVE  TInv'
  <1> USE DEF TInv
  <1>0. /\ frame[a].key \in Key /\ frame[a] \in Frame
        /\ CompletionOf(a) \in Completion
    BY DEF CompleteAsOwner, CompleteReconciled, ControlOK, FrameOK, CallPcs, ExecutePcs,
           CompletionOf, Completion
  <1>1. StoreTypeOK' /\ WorldTypeOK'
    BY DEF CompleteAsOwner, CompleteReconciled, CompleteEffect, Observe, StoreTypeOK, WorldTypeOK
  <1>2. ControlOK'
    BY <1>0, ReturnCompletionOK DEF CompleteAsOwner, CompleteReconciled, CompleteEffect
  <1>3. RowsOK'
    <2>1. CASE UNCHANGED ledger
      BY <2>1 DEF RowsOK
    <2>2. ASSUME RowOf(a).ev = frame[a].ev, RowOf(a).state # "absent",
                 SetRow(a, [RowOf(a) EXCEPT !.state = "completed", !.owner = None,
                                            !.done = CompletionOf(a)])
          PROVE  RowsOK'
      <3> DEFINE row == [RowOf(a) EXCEPT !.state = "completed", !.owner = None,
                                         !.done = CompletionOf(a)]
      <3>1. RowOf(a) \in Row /\ RowOK(RowOf(a))
        BY <1>0, RowFacts DEF RowOf
      <3>2. row \in Row
        BY ZenonT(30), <1>0, <3>1 DEF Row, States
      <3>3. CompletionOf(a).ev = RowOf(a).ev /\ RowOf(a).ev # None /\ RowOf(a).gen # 0
        BY <2>2, <3>1 DEF RowOK, CompletionOf
      <3>4. /\ row.owner = None /\ row.state = "completed" /\ row.done = CompletionOf(a)
            /\ row.ev = RowOf(a).ev /\ row.gen = RowOf(a).gen
        BY <3>1 DEF Row
      <3>5. CompletionOf(a) # None
        BY <1>0, CompletionNotNone
      <3>6. RowOK(row)
        BY <3>3, <3>4, <3>5 DEF RowOK
      <3> QED
        BY <1>0, <2>2, <3>2, <3>6, SetRowOK
    <2> QED
      BY <2>1, <2>2 DEF CompleteAsOwner, CompleteReconciled, CompleteEffect
  <1> QED
    BY <1>1, <1>2, <1>3

\* The calls, the adapter and the environment.
LEMMA TypeStepOther ==
  ASSUME TInv, NEW a \in Attempt,
         \/ \E k \in Key, e \in Evidence : CallExecute(a, k, e)
         \/ \E k \in Key : CallReconcile(a, k)
         \/ EnterAdapter(a) \/ AdapterActs(a)
  PROVE  TInv'
  <1> USE TimeAssumption, LedgerAssumption
      DEF TInv, StoreTypeOK, RowsOK, WorldTypeOK
  <1>1. ASSUME NEW k \in Key, NEW e \in Evidence, CallExecute(a, k, e) PROVE TInv'
    BY ZenonT(30), <1>1 DEF CallExecute, ControlOK, FrameOK, Frame, EmptyFrame, Results, ExecutePcs, CallPcs
  <1>2. ASSUME NEW k \in Key, CallReconcile(a, k) PROVE TInv'
    BY <1>2 DEF CallReconcile, ControlOK, FrameOK, Frame, EmptyFrame, Results, ExecutePcs, CallPcs
  <1>3. CASE EnterAdapter(a)
    <2>1. ControlOK'
      BY <1>3, GotoOK DEF EnterAdapter, ExecutePcs
    <2> QED
      BY <1>3, <2>1 DEF EnterAdapter, ControlOK, FrameOK, ExecutePcs, CallPcs
  <1>4. CASE AdapterActs(a)
    BY <1>4 DEF AdapterActs, ControlOK, FrameOK
  <1> QED
    BY <1>1, <1>2, <1>3, <1>4

LEMMA TypeStep == TInv /\ [Next]_vars => TInv'
  <1> SUFFICES ASSUME TInv, [Next]_vars PROVE TInv'
    OBVIOUS
  <1>1. CASE Environment
    BY <1>1 DEF Environment, SetClock, StoreUsed, Observe, Revoke, TInv, StoreTypeOK, RowsOK, ControlOK, FrameOK,
                WorldTypeOK
  <1>2. CASE UNCHANGED vars
    BY <1>2 DEF vars, TInv, StoreTypeOK, RowsOK, ControlOK, FrameOK, WorldTypeOK
  <1> QED
    BY <1>1, <1>2, TypeStepControl, TypeStepPrepare, TypeStepOwner, TypeStepComplete,
       TypeStepOther DEF Next, CallStep

\* Type correctness of the durable effect ledger: its rows always satisfy the table's NULL
\* rules, whichever transactions fail and whichever attempts crash.
THEOREM TypeCorrect == Spec => []TypeOK
  BY TypeInit, TypeStep, TInvTypes, PTL DEF Spec
-----------------------------------------------------------------------------
(* At most one adapter entry *)

LEMMA SafetyInit == Init => WorldOK /\ ApplierOK /\ Alone
  BY DEF Init, StoreInit, LedgerInit, NoRow, WorldOK, WorldAt, ApplierOK, ApplierAt, Alone, BeforeEntry, AfterEntry

\* Steps that touch neither the ledger nor the world.
LEMMA SafetyStepControl ==
  ASSUME TInv, WorldOK, ApplierOK, Alone, NEW a \in Attempt,
         \/ \E k \in Key, e \in Evidence : CallExecute(a, k, e)
         \/ \E k \in Key : CallReconcile(a, k)
         \/ CompletedReplay(a) \/ ValidateBeforePrepare(a) \/ ValidateBeforeApply(a)
         \/ ValidateAtEntry(a) \/ AdapterRaises(a) \/ AdapterReturns(a)
         \/ ReadForReconcile(a) \/ AdapterReconciles(a) \/ TransactionFails(a) \/ Crash(a)
  PROVE  WorldOK' /\ ApplierOK' /\ Alone'
  <1>1. UNCHANGED <<ledger, world>>
    BY ZenonT(30) DEF CallExecute, CallReconcile, CompletedReplay, ValidateBeforePrepare,
           ValidateBeforeApply, ValidateAtEntry, AdapterRaises, AdapterReturns,
           ReadForReconcile, AdapterReconciles, TransactionFails, Crash
  <1>2. WorldOK'
    BY SMTT(30), <1>1 DEF WorldOK, WorldAt
  <1>3. \A b \in Attempt : b # a => pc'[b] = pc[b] /\ frame'[b] = frame[b]
    BY ZenonT(30) DEF CallExecute, CallReconcile, CompletedReplay, ValidateBeforePrepare,
           ValidateBeforeApply, ValidateAtEntry, AdapterRaises, AdapterReturns,
           ReadForReconcile, AdapterReconciles, TransactionFails, Crash,
           Goto, SampleAndGoto, Return, ReturnCompletion, TInv, ControlOK
  <1>4. /\ pc'[a] \in BeforeEntry => pc[a] \in BeforeEntry
        /\ pc'[a] \in AfterEntry => pc[a] \in AfterEntry
        /\ pc'[a] \in BeforeEntry \cup AfterEntry =>
             /\ frame'[a].key = frame[a].key /\ frame'[a].gen = frame[a].gen
             /\ frame'[a].ev = frame[a].ev
        /\ pc'[a] \in {"complete", "rec_complete"} =>
             happened[frame[a].key] /\ frame'[a].key = frame[a].key
        /\ pc'[a] \in {"validate2", "begin_apply"} =>
             pc[a] \in {"validate2", "begin_apply"} /\ frame'[a].key = frame[a].key
             /\ frame'[a].ev = frame[a].ev
    <2> USE DEF TInv, ControlOK, Frame, BeforeEntry, AfterEntry
    <2>1. CASE \/ \E k \in Key, e \in Evidence : CallExecute(a, k, e)
               \/ \E k \in Key : CallReconcile(a, k)
      BY ZenonT(30), <2>1 DEF CallExecute, CallReconcile
    <2>2. CASE CompletedReplay(a) \/ ValidateBeforePrepare(a) \/ ValidateBeforeApply(a)
      BY <2>2 DEF CompletedReplay, ValidateBeforePrepare, ValidateBeforeApply,
                  Goto, SampleAndGoto, Return, ReturnCompletion
    <2>3. CASE ValidateAtEntry(a) \/ AdapterRaises(a)
      BY <2>3 DEF ValidateAtEntry, AdapterRaises, Goto, SampleAndGoto
    <2>4. CASE AdapterReturns(a)
      BY <2>4 DEF AdapterReturns
    <2>5. CASE ReadForReconcile(a) \/ AdapterReconciles(a)
      BY <2>5 DEF ReadForReconcile, AdapterReconciles, Return, ReturnCompletion
    <2>6. CASE TransactionFails(a) \/ Crash(a)
      BY SMTT(30), <2>6 DEF TransactionFails, Crash, Return
    <2> QED
      BY ZenonT(30), <2>1, <2>2, <2>3, <2>4, <2>5, <2>6
  <1>5. ApplierOK'
    <2>1. ASSUME NEW b \in Attempt, b # a
          PROVE  /\ pc'[b] = pc[b] /\ frame'[b] = frame[b]
                 /\ RowOf(b)' = RowOf(b) /\ \A st : Owns(b, st)' <=> Owns(b, st)
      BY ZenonT(30), <1>1, <1>3, <2>1 DEF RowOf, Owns
    <2>2. ASSUME pc'[a] \in BeforeEntry \cup AfterEntry
          PROVE  RowOf(a)' = RowOf(a) /\ \A st : Owns(a, st)' <=> Owns(a, st)
      <3>1. frame'[a].key = frame[a].key /\ frame'[a].gen = frame[a].gen /\ ledger' = ledger
        BY ZenonT(30), <1>1, <1>4, <2>2
      <3> QED
        BY ZenonT(30), <3>1 DEF RowOf, Owns
    <2>3. UNCHANGED <<entered, happened>>
      BY ZenonT(30), <1>1
    <2>4. ASSUME NEW b \in Attempt, b # a PROVE ApplierAt(b)'
      BY ZenonT(30), <2>1, <2>3, <2>4 DEF ApplierOK, ApplierAt
    <2>5. ApplierAt(a)'
      <3>1. ApplierAt(a)
        BY ZenonT(30) DEF ApplierOK
      <3>2. pc'[a] \in {"validate2", "begin_apply"} => RowOf(a)' = RowOf(a)
        BY ZenonT(30), <1>1, <1>4 DEF RowOf
      <3> QED
        BY ZenonT(30), <1>4, <2>2, <2>3, <3>1, <3>2 DEF ApplierAt
    <2> QED
      BY ZenonT(30), <2>4, <2>5 DEF ApplierOK
  <1>6. Alone'
    <2>1. ASSUME NEW b \in Attempt, pc'[b] \in AfterEntry
          PROVE  pc[b] \in AfterEntry /\ frame'[b].key = frame[b].key
      BY ZenonT(30), <1>3, <1>4, <2>1
    <2> QED
      BY ZenonT(30), <2>1 DEF Alone
  <1> QED
    BY SMTT(30), <1>2, <1>5, <1>6

\* A step on one key says nothing about an attempt that works on another key.
LEMMA OtherKey ==
  ASSUME TInv, ApplierOK, NEW k, NEW b \in Attempt,
         \A j \in Key : j # k => /\ ledger'[j] = ledger[j] /\ entered'[j] = entered[j]
                                /\ happened'[j] = happened[j],
         pc'[b] = pc[b], frame'[b] = frame[b], frame[b].key # k
  PROVE  ApplierAt(b)'
  <1>1. ApplierAt(b)
    BY DEF ApplierOK
  <1>2. pc[b] \in CallPcs => frame[b].key \in Key
    BY DEF TInv, ControlOK, FrameOK
  <1>3. pc[b] \in CallPcs => /\ RowOf(b)' = RowOf(b) /\ \A st : Owns(b, st)' <=> Owns(b, st)
                             /\ entered'[frame[b].key] = entered[frame[b].key]
                             /\ happened'[frame[b].key] = happened[frame[b].key]
    BY <1>2 DEF RowOf, Owns
  <1> QED
    BY <1>1, <1>3 DEF ApplierAt, BeforeEntry, AfterEntry, CallPcs

\* An attempt that is at none of the steps ApplierAt speaks of.
LEMMA Uninvolved ==
  ASSUME NEW b \in Attempt,
         pc'[b] \notin BeforeEntry \cup AfterEntry \cup {"rec_complete", "validate2", "begin_apply"}
  PROVE  ApplierAt(b)'
  BY DEF ApplierAt, AfterEntry

\* A call that returns with nothing written.
LEMMA SafetyReturns ==
  ASSUME WorldOK, ApplierOK, Alone, NEW a \in Attempt, UNCHANGED <<ledger, world>>,
         pc'[a] = "returned", \A b \in Attempt : b # a => pc'[b] = pc[b] /\ frame'[b] = frame[b]
  PROVE  WorldOK' /\ ApplierOK' /\ Alone'
  <1>1. UNCHANGED <<ledger, entered, happened, appliedBy>>
    BY ZenonT(30)
  <1>2. WorldOK'
    BY ZenonT(30), <1>1 DEF WorldOK, WorldAt
  <1>3. ASSUME NEW b \in Attempt, b = a PROVE ApplierAt(b)'
    BY ZenonT(30), <1>3, Uninvolved DEF BeforeEntry, AfterEntry
  <1>4. ASSUME NEW b \in Attempt, b # a PROVE ApplierAt(b)'
    <2>1. /\ pc'[b] = pc[b] /\ frame'[b] = frame[b]
          /\ RowOf(b)' = RowOf(b) /\ \A st : Owns(b, st)' <=> Owns(b, st)
      BY ZenonT(30), <1>1, <1>4 DEF RowOf, Owns
    <2> QED
      BY ZenonT(30), <1>1, <2>1 DEF ApplierOK, ApplierAt
  <1>5. Alone'
    BY ZenonT(30) DEF Alone, AfterEntry
  <1> QED
    BY ZenonT(30), <1>2, <1>3, <1>4, <1>5 DEF ApplierOK

\* A row nobody is applying can be inserted or stolen: no attempt past the swap has its key.
LEMMA SafetyStepPrepare ==
  ASSUME TInv, WorldOK, ApplierOK, Alone, NEW a \in Attempt, Prepare(a)
  PROVE  WorldOK' /\ ApplierOK' /\ Alone'
  <1> DEFINE k == frame[a].key
  <1>0. k \in Key /\ frame[a] \in Frame
    BY DEF Prepare, TInv, ControlOK, FrameOK, CallPcs
  <1>1. UNCHANGED world /\ pc[a] = "prepare"
    BY DEF Prepare
  <1>2. \A b \in Attempt : b # a => pc'[b] = pc[b] /\ frame'[b] = frame[b]
    BY ZenonT(30) DEF Prepare, Prepared, Return, ReturnCompletion, TInv, ControlOK
  <1>3. CASE UNCHANGED ledger /\ pc'[a] = "returned"
    BY ZenonT(30), <1>1, <1>2, <1>3, SafetyReturns
  <1>4. ASSUME NEW g \in Nat, Prepared(a, g), RowOf(a).state \in {"absent", "prepared"}
        PROVE  WorldOK' /\ ApplierOK' /\ Alone'
    <2>1. /\ ledger'[k] = PreparedRow(a, g)
          /\ \A j \in Key : j # k => ledger'[j] = ledger[j]
          /\ pc'[a] = "validate2" /\ frame'[a].key = k /\ frame'[a].ev = frame[a].ev
      BY <1>0, <1>4 DEF Prepared, SetRow, TInv, RowsOK, ControlOK, Frame
    <2>2. /\ entered[k] = 0
          /\ ledger'[k].owner = a /\ ledger'[k].ev = frame[a].ev /\ ledger'[k].state = "prepared"
      <3>1. entered[k] = 0
        BY ZenonT(30), <1>0, <1>4 DEF WorldOK, WorldAt, RowOf
      <3>2. PreparedRow(a, g).owner = a /\ PreparedRow(a, g).ev = frame[a].ev
        BY ZenonT(30), PreparedFields
      <3>3. PreparedRow(a, g).state = "prepared"
        BY ZenonT(30), PreparedFields
      <3> QED
        BY ZenonT(30), <2>1, <3>1, <3>2, <3>3
    <2>3. WorldOK'
      BY <1>0, <1>1, <2>1, <2>2 DEF WorldOK, WorldAt, PreparedRow
    <2>4. ASSUME NEW b \in Attempt PROVE ApplierAt(b)'
      <3>1. CASE b = a
        BY ZenonT(30), <2>1, <2>2, <3>1 DEF ApplierAt, RowOf, BeforeEntry, AfterEntry
      <3>2. CASE b # a /\ frame[b].key # k
        BY SMTT(30), <1>1, <1>2, <2>1, <3>2, OtherKey
      <3>3. CASE b # a /\ frame[b].key = k
        <4>1. ledger'[k].owner # b
          BY ZenonT(30), <2>2, <3>3
        <4>2. pc[b] \notin BeforeEntry \cup AfterEntry
          BY ZenonT(30), <1>4, <3>3 DEF ApplierOK, ApplierAt, Owns, RowOf
        <4> QED
          BY ZenonT(30), <1>1, <1>2, <3>3, <4>1, <4>2 DEF ApplierOK, ApplierAt, RowOf, AfterEntry
      <3> QED
        BY ZenonT(30), <3>1, <3>2, <3>3
    <2>5. Alone'
      BY <1>2, <2>1 DEF Alone, AfterEntry
    <2> QED
      BY <2>3, <2>4, <2>5 DEF ApplierOK
  <1>5. pc' = [pc EXCEPT ![a] = "returned"] => pc'[a] = "returned"
    BY ZenonT(30) DEF TInv, ControlOK
  <1>6. RowOf(a).gen + 1 \in Nat
    BY <1>0, RowFacts DEF TInv, RowOf, Row
  <1> QED
    BY ZenonT(30), <1>3, <1>4, <1>5, <1>6 DEF Prepare, Return, ReturnCompletion

\* The swap to APPLYING succeeds for the owner only, on a row nobody is applying.
LEMMA SafetyStepBegin ==
  ASSUME TInv, WorldOK, ApplierOK, Alone, NEW a \in Attempt, BeginApply(a)
  PROVE  WorldOK' /\ ApplierOK' /\ Alone'
  <1> DEFINE k == frame[a].key
  <1>0. k \in Key /\ frame[a] \in Frame /\ ledger[k] \in Row
    BY DEF BeginApply, TInv, ControlOK, FrameOK, CallPcs, RowsOK
  <1>1. UNCHANGED world /\ pc[a] = "begin_apply"
    BY DEF BeginApply
  <1>2. \A b \in Attempt : b # a => pc'[b] = pc[b] /\ frame'[b] = frame[b]
    BY SMTT(30) DEF BeginApply, Goto, Return, TInv, ControlOK
  <1>3. CASE UNCHANGED ledger /\ pc'[a] = "returned"
    BY ZenonT(30), <1>1, <1>2, <1>3, SafetyReturns
  <1>4. CASE /\ Owns(a, "prepared") /\ Goto(a, "validate3")
             /\ SetRow(a, [RowOf(a) EXCEPT !.state = "applying"])
    <2>1. /\ ledger[k].owner = a /\ ledger[k].gen = frame[a].gen /\ ledger[k].ev = frame[a].ev
          /\ entered[k] = 0 /\ ledger[k].state = "prepared"
      BY <1>0, <1>1, <1>4 DEF Owns, RowOf, WorldOK, WorldAt, ApplierOK, ApplierAt
    <2>2. /\ ledger'[k].state = "applying" /\ ledger'[k].owner = a
          /\ ledger'[k].gen = ledger[k].gen /\ ledger'[k].ev = ledger[k].ev
          /\ \A j \in Key : j # k => ledger'[j] = ledger[j]
          /\ pc'[a] = "validate3" /\ frame'[a] = frame[a]
      BY SMTT(30), <1>0, <1>4, <2>1 DEF SetRow, RowOf, Goto, TInv, RowsOK, ControlOK, Row
    <2>3. WorldOK'
      <3>1. ASSUME NEW j \in Key, j # k
            PROVE  ledger'[j] = ledger[j]
        BY <2>2, <3>1
      <3> QED
        BY ZenonT(30), <1>1, <2>1, <2>2, <3>1 DEF WorldOK, WorldAt
    <2>4. ASSUME NEW b \in Attempt PROVE ApplierAt(b)'
      <3>1. CASE b = a
        BY ZenonT(30), <1>1, <2>1, <2>2, <3>1 DEF ApplierAt, RowOf, Owns, BeforeEntry, AfterEntry
      <3>2. CASE b # a /\ frame[b].key # k
        BY ZenonT(30), <1>1, <1>2, <2>2, <3>2, OtherKey
      <3>3. CASE b # a /\ frame[b].key = k
        <4>1. pc[b] \notin BeforeEntry \cup AfterEntry
          BY ZenonT(30), <2>1, <3>3 DEF ApplierOK, ApplierAt, Owns, RowOf
        <4> QED
          <5>1. /\ pc'[b] = pc[b] /\ frame'[b] = frame[b] /\ UNCHANGED happened
                /\ RowOf(b)'.ev = RowOf(b).ev /\ RowOf(b)'.owner = a
            BY ZenonT(30), <1>1, <1>2, <2>2, <3>3 DEF RowOf
          <5> QED
            BY ZenonT(30), <3>3, <4>1, <5>1 DEF ApplierOK, ApplierAt
      <3> QED
        BY SMTT(30), <3>1, <3>2, <3>3
    <2>5. Alone'
      BY <1>2, <2>2 DEF Alone, AfterEntry
    <2> QED
      BY ZenonT(30), <2>3, <2>4, <2>5 DEF ApplierOK
  <1>5. pc' = [pc EXCEPT ![a] = "returned"] => pc'[a] = "returned"
    BY DEF TInv, ControlOK
  <1> QED
    BY <1>3, <1>4, <1>5 DEF BeginApply, Return

\* The owner that has not entered the adapter gives the row back.
LEMMA SafetyStepRestore ==
  ASSUME TInv, WorldOK, ApplierOK, Alone, NEW a \in Attempt, RestorePrepared(a)
  PROVE  WorldOK' /\ ApplierOK' /\ Alone'
  <1> DEFINE k == frame[a].key
  <1>0. k \in Key /\ ledger[k] \in Row
    BY DEF RestorePrepared, TInv, ControlOK, FrameOK, CallPcs, RowsOK
  <1>1. UNCHANGED world /\ pc[a] = "restore" /\ pc'[a] = "returned"
    BY DEF RestorePrepared, Return, TInv, ControlOK
  <1>2. \A b \in Attempt : b # a => pc'[b] = pc[b] /\ frame'[b] = frame[b]
    BY DEF RestorePrepared, Return, TInv, ControlOK
  <1>3. ledger[k].owner = a /\ ledger[k].state = "applying" /\ entered[k] = 0
    BY <1>1 DEF RestorePrepared, Owns, RowOf, ApplierOK, ApplierAt, BeforeEntry
  <1>4. /\ ledger'[k].state = "prepared" /\ ledger'[k].ev = ledger[k].ev
        /\ ledger'[k].owner = ledger[k].owner
        /\ \A j \in Key : j # k => ledger'[j] = ledger[j]
    BY SMTT(30), <1>0 DEF RestorePrepared, SetRow, RowOf, TInv, RowsOK, Row
  <1>5. WorldOK'
    BY ZenonT(30), <1>0, <1>1, <1>3, <1>4 DEF WorldOK, WorldAt
  <1>6. ASSUME NEW b \in Attempt PROVE ApplierAt(b)'
    <2>1. CASE b = a
      BY <1>1, <2>1, Uninvolved DEF BeforeEntry, AfterEntry
    <2>2. CASE b # a /\ frame[b].key # k
      BY ZenonT(30), <1>1, <1>2, <1>4, <2>2, OtherKey
    <2>3. CASE b # a /\ frame[b].key = k
      <3>1. pc[b] \notin BeforeEntry \cup AfterEntry
        BY <1>3, <2>3 DEF ApplierOK, ApplierAt, Owns, RowOf
      <3> QED
        <4>1. /\ pc'[b] = pc[b] /\ frame'[b] = frame[b] /\ UNCHANGED happened
              /\ RowOf(b)'.ev = RowOf(b).ev /\ RowOf(b)'.owner = RowOf(b).owner
          BY ZenonT(30), <1>1, <1>2, <1>4, <2>3 DEF RowOf
        <4> QED
          BY ZenonT(30), <3>1, <4>1 DEF ApplierOK, ApplierAt
    <2> QED
      BY <2>1, <2>2, <2>3
  <1>7. Alone'
    BY <1>1, <1>2 DEF Alone, AfterEntry
  <1> QED
    BY <1>5, <1>6, <1>7 DEF ApplierOK

\* Fencing an ambiguous outcome: the attempt that does it is alone past the entry.
LEMMA SafetyStepFence ==
  ASSUME TInv, WorldOK, ApplierOK, Alone, NEW a \in Attempt, MarkEffectUnknown(a)
  PROVE  WorldOK' /\ ApplierOK' /\ Alone'
  <1> DEFINE k == frame[a].key
  <1>0. k \in Key /\ ledger[k] \in Row
    BY DEF MarkEffectUnknown, TInv, ControlOK, FrameOK, CallPcs, RowsOK
  <1>1. UNCHANGED world /\ pc[a] = "fence" /\ pc'[a] = "returned"
    BY DEF MarkEffectUnknown, Return, TInv, ControlOK
  <1>2. \A b \in Attempt : b # a => pc'[b] = pc[b] /\ frame'[b] = frame[b]
    BY ZenonT(30) DEF MarkEffectUnknown, Return, TInv, ControlOK
  <1>3. entered[k] = 1 /\ (ledger[k].state = "applying" \/ ledger'[k] = ledger[k])
    BY SMTT(30), <1>0, <1>1 DEF MarkEffectUnknown, Owns, RowOf, ApplierOK, ApplierAt, AfterEntry
  <1>4. /\ ledger'[k].state \in {"failed_unknown", ledger[k].state}
        /\ ledger'[k].ev = ledger[k].ev
        /\ ledger'[k].owner \in {None, ledger[k].owner}
        /\ \A j \in Key : j # k => ledger'[j] = ledger[j]
    <2>1. CASE UNCHANGED ledger
      BY <2>1
    <2>2. CASE SetRow(a, [RowOf(a) EXCEPT !.state = "failed_unknown", !.owner = None])
      BY ZenonT(30), <1>0, <2>2 DEF SetRow, RowOf, TInv, RowsOK, Row
    <2> QED
      BY ZenonT(30), <2>1, <2>2 DEF MarkEffectUnknown
  <1>5. WorldOK'
    BY SMTT(30), <1>0, <1>1, <1>3, <1>4 DEF WorldOK, WorldAt
  <1>6. ASSUME NEW b \in Attempt PROVE ApplierAt(b)'
    <2>1. CASE b = a
      BY SMTT(30), <1>1, <2>1, Uninvolved DEF BeforeEntry, AfterEntry
    <2>2. CASE b # a /\ frame[b].key # k
      BY ZenonT(30), <1>1, <1>2, <1>4, <2>2, OtherKey
    <2>3. CASE b # a /\ frame[b].key = k
      <3>1. pc[b] \notin BeforeEntry
        BY SMTT(30), <1>3, <2>3 DEF ApplierOK, ApplierAt
      <3>2. pc[b] \notin AfterEntry
        BY <1>1, <2>3 DEF Alone, AfterEntry
      <3>3. /\ pc'[b] = pc[b] /\ frame'[b] = frame[b] /\ UNCHANGED <<entered, happened>>
            /\ RowOf(b)'.ev = RowOf(b).ev /\ RowOf(b)'.owner \in {None, RowOf(b).owner}
        BY ZenonT(30), <1>1, <1>2, <1>4, <2>3 DEF RowOf
      <3>4. b # None
        BY ZenonT(30), LedgerAssumption
      <3> QED
        BY ZenonT(30), <3>1, <3>2, <3>3, <3>4 DEF ApplierOK, ApplierAt
    <2> QED
      BY <2>1, <2>2, <2>3
  <1>7. Alone'
    BY <1>1, <1>2 DEF Alone, AfterEntry
  <1> QED
    BY <1>5, <1>6, <1>7 DEF ApplierOK

\* A completion, by the owner or a reconciler, is written only after the effect took place.
LEMMA SafetyStepComplete ==
  ASSUME TInv, WorldOK, ApplierOK, Alone, NEW a \in Attempt,
         CompleteAsOwner(a) \/ CompleteReconciled(a)
  PROVE  WorldOK' /\ ApplierOK' /\ Alone'
  <1> DEFINE k == frame[a].key
  <1>0. k \in Key /\ ledger[k] \in Row
    BY DEF CompleteAsOwner, CompleteReconciled, TInv, ControlOK, FrameOK, CallPcs, RowsOK
  <1>1. /\ UNCHANGED world /\ pc[a] \in {"complete", "rec_complete"} /\ pc'[a] = "returned"
        /\ happened[k]
    BY DEF CompleteAsOwner, CompleteReconciled, CompleteEffect, ReturnCompletion, TInv,
           ControlOK, ApplierOK, ApplierAt
  <1>2. \A b \in Attempt : b # a => pc'[b] = pc[b] /\ frame'[b] = frame[b]
    BY DEF CompleteAsOwner, CompleteReconciled, CompleteEffect, ReturnCompletion, TInv, ControlOK
  <1>3. entered[k] = 1
    BY <1>0, <1>1 DEF WorldOK, WorldAt
  <1>4. /\ ledger'[k].state = "completed" /\ ledger'[k].ev = ledger[k].ev
        /\ ledger'[k].owner = None
        /\ \A j \in Key : j # k => ledger'[j] = ledger[j]
    <2>1. CASE UNCHANGED ledger /\ RowOf(a).state = "completed"
      BY <1>0, <2>1, RowFacts DEF RowOf, TInv, RowOK
    <2>2. CASE SetRow(a, [RowOf(a) EXCEPT !.state = "completed", !.owner = None,
                                          !.done = CompletionOf(a)])
      BY ZenonT(30), <1>0, <2>2 DEF SetRow, RowOf, TInv, RowsOK, Row
    <2> QED
      BY <2>1, <2>2 DEF CompleteAsOwner, CompleteReconciled, CompleteEffect
  <1>5. WorldOK'
    BY <1>0, <1>1, <1>3, <1>4 DEF WorldOK, WorldAt
  <1>6. ASSUME NEW b \in Attempt PROVE ApplierAt(b)'
    <2>1. CASE b = a
      BY <1>1, <2>1, Uninvolved DEF BeforeEntry, AfterEntry
    <2>2. CASE b # a /\ frame[b].key # k
      BY ZenonT(30), <1>1, <1>2, <1>4, <2>2, OtherKey
    <2>3. CASE b # a /\ frame[b].key = k
      <3>1. pc[b] \notin BeforeEntry
        BY SMTT(30), <1>3, <2>3 DEF ApplierOK, ApplierAt
      <3> QED
        <4>1. /\ pc'[b] = pc[b] /\ frame'[b] = frame[b] /\ UNCHANGED <<entered, happened>>
              /\ RowOf(b)' = ledger'[k] /\ RowOf(b) = ledger[k]
          BY ZenonT(30), <1>1, <1>2, <2>3 DEF RowOf
        <4>2. b # None
          BY ZenonT(30), LedgerAssumption
        <4> QED
          BY ZenonT(30), <1>3, <1>4, <2>3, <3>1, <4>1, <4>2 DEF ApplierOK, ApplierAt
    <2> QED
      BY <2>1, <2>2, <2>3
  <1>7. Alone'
    BY <1>1, <1>2 DEF Alone, AfterEntry
  <1> QED
    BY <1>5, <1>6, <1>7 DEF ApplierOK

\* The adapter: it is entered by an attempt that owns an APPLYING row nobody entered before.
LEMMA SafetyStepAdapter ==
  ASSUME TInv, WorldOK, ApplierOK, Alone, NEW a \in Attempt,
         EnterAdapter(a) \/ AdapterActs(a)
  PROVE  WorldOK' /\ ApplierOK' /\ Alone'
  <1> DEFINE k == frame[a].key
  <1>0. k \in Key /\ ledger[k] \in Row
    BY DEF EnterAdapter, AdapterActs, TInv, ControlOK, FrameOK, CallPcs, RowsOK
  <1>1. UNCHANGED <<ledger, frame>>
    BY SMTT(30) DEF EnterAdapter, AdapterActs, Goto
  <1>2. \A j \in Key : j # k => /\ entered'[j] = entered[j] /\ happened'[j] = happened[j]
                                /\ appliedBy'[j] = appliedBy[j]
    BY SMTT(30), <1>0 DEF EnterAdapter, AdapterActs, TInv, WorldTypeOK
  <1>3. CASE EnterAdapter(a)
    <2>1. /\ Owns(a, "applying") /\ entered[k] = 0 /\ ledger[k].ev = frame[a].ev
          /\ pc[a] = "apply"
      BY ZenonT(30), <1>3 DEF EnterAdapter, ApplierOK, ApplierAt, BeforeEntry, RowOf
    <2>2. /\ entered'[k] = 1 /\ appliedBy'[k] = frame[a].ev /\ happened' = happened
          /\ pc'[a] = "adapter"
      BY SMTT(30), <1>0, <1>3, <2>1 DEF EnterAdapter, Goto, TInv, WorldTypeOK, ControlOK
    <2>3. \A b \in Attempt : b # a => pc'[b] = pc[b]
      BY <1>3 DEF EnterAdapter, Goto, TInv, ControlOK
    <2>4. ledger[k].state = "applying"
      BY SMTT(30), <2>1 DEF Owns, RowOf
    <2>5. WorldOK'
      <3>1. ASSUME NEW j \in Key, j # k PROVE WorldAt(j)'
        BY ZenonT(30), <1>1, <1>2, <3>1 DEF WorldOK, WorldAt
      <3>2. ASSUME NEW j \in Key, j = k PROVE WorldAt(j)'
        BY ZenonT(30), <1>1, <2>1, <2>2, <2>4, <3>2 DEF WorldOK, WorldAt
      <3> QED
        BY <3>1, <3>2 DEF WorldOK
    <2>6. \A b \in Attempt : b # a /\ frame[b].key = k => pc[b] \notin BeforeEntry \cup AfterEntry
      <3>1. ASSUME NEW b \in Attempt, b # a, frame[b].key = k, pc[b] \in BeforeEntry PROVE FALSE
        BY ZenonT(30), <2>1, <3>1 DEF ApplierOK, ApplierAt, Owns, RowOf
      <3>2. ASSUME NEW b \in Attempt, frame[b].key = k, pc[b] \in AfterEntry PROVE FALSE
        BY ZenonT(30), <2>1, <3>2, Generations DEF ApplierOK, ApplierAt
      <3> QED
        BY ZenonT(30), <3>1, <3>2
    <2>7. ASSUME NEW b \in Attempt PROVE ApplierAt(b)'
      <3>1. CASE b = a
        BY ZenonT(30), <1>1, <2>1, <2>2, <3>1 DEF ApplierAt, RowOf, Owns, BeforeEntry, AfterEntry
      <3>2. CASE b # a /\ frame[b].key # k
        BY ZenonT(30), <1>1, <1>2, <2>3, <3>2, OtherKey
      <3>3. CASE b # a /\ frame[b].key = k
        BY ZenonT(30), <1>1, <2>2, <2>3, <2>6, <3>3 DEF ApplierOK, ApplierAt, RowOf, AfterEntry
      <3> QED
        BY <3>1, <3>2, <3>3
    <2>8. Alone'
      BY ZenonT(30), <1>1, <2>2, <2>3, <2>6 DEF Alone
    <2> QED
      BY <2>5, <2>7, <2>8 DEF ApplierOK
  <1>4. CASE AdapterActs(a)
    <2>1. entered[k] = 1 /\ pc[a] = "adapter"
      <3>1. pc[a] = "adapter"
        BY ZenonT(30), <1>4 DEF AdapterActs
      <3> QED
        BY ZenonT(30), <3>1 DEF ApplierOK, ApplierAt, AfterEntry
    <2>2. /\ UNCHANGED <<pc, entered, appliedBy>>
          /\ \A j \in Key : happened[j] => happened'[j]
      BY SMTT(30), <1>0, <1>4 DEF AdapterActs, TInv, WorldTypeOK
    <2>3. WorldOK'
      <3>1. ASSUME NEW j \in Key, j # k PROVE WorldAt(j)'
        BY SMTT(30), <1>1, <1>2, <3>1 DEF WorldOK, WorldAt
      <3>2. ASSUME NEW j \in Key, j = k PROVE WorldAt(j)'
        BY SMTT(30), <1>1, <2>1, <2>2, <3>2 DEF WorldOK, WorldAt
      <3> QED
        BY <3>1, <3>2 DEF WorldOK
    <2>4. ApplierOK'
      BY ZenonT(30), <1>1, <2>2
      DEF ApplierOK, ApplierAt, RowOf, Owns, BeforeEntry, AfterEntry, TInv, ControlOK, FrameOK, CallPcs
    <2>5. Alone'
      BY SMTT(30), <1>1, <2>2 DEF Alone
    <2> QED
      BY SMTT(30), <2>3, <2>4, <2>5
  <1> QED
    BY <1>3, <1>4

LEMMA SafetyStep == IInv /\ [Next]_vars => IInv'
  <1> SUFFICES ASSUME TInv, WorldOK, ApplierOK, Alone, [Next]_vars
               PROVE  WorldOK' /\ ApplierOK' /\ Alone'
    BY SMTT(30), TypeStep DEF IInv
  <1>1. CASE Environment \/ UNCHANGED vars
    <2>1. UNCHANGED <<ledger, pc, frame, entered, happened, appliedBy>>
      BY ZenonT(30), <1>1 DEF Environment, SetClock, StoreUsed, Observe, Revoke, vars
    <2>2. WorldOK'
      BY ZenonT(30), <2>1 DEF WorldOK, WorldAt
    <2>3. ApplierOK'
      BY ZenonT(30), <2>1 DEF ApplierOK, ApplierAt, RowOf, Owns
    <2>4. Alone'
      BY ZenonT(30), <2>1 DEF Alone
    <2> QED
      BY <2>2, <2>3, <2>4
  <1> QED
    BY <1>1, SafetyStepControl, SafetyStepPrepare, SafetyStepBegin, SafetyStepRestore,
       SafetyStepFence, SafetyStepComplete, SafetyStepAdapter DEF Next, CallStep

\* The inductive invariant, and what it says of a reachable state.
THEOREM Safety == Spec => []IInv
  <1>1. Init => IInv
    BY TypeInit, SafetyInit DEF IInv
  <1> QED
    BY <1>1, SafetyStep, PTL DEF Spec

\* The adapter of an idempotency key is entered at most once, for any number of callers,
\* crashes, steals, failed transactions and clock changes.
THEOREM AtMostOnceHolds == Spec => []AtMostOnce
  <1>1. IInv => AtMostOnce
    BY DEF IInv, WorldOK, WorldAt, AtMostOnce
  <1> QED
    BY <1>1, Safety, PTL

\* "PREPARED proves no adapter entry occurred", the premise on which _prepare steals at once.
THEOREM PreparedHolds == Spec => []PreparedNotEntered
  <1>1. IInv => PreparedNotEntered
    BY ZenonT(30) DEF IInv, WorldOK, WorldAt, PreparedNotEntered
  <1> QED
    BY <1>1, Safety, PTL

\* A completed row is about an effect that took place, under the authorization metadata the
\* adapter was entered with.
THEOREM TruthfulHolds == Spec => []CompletionIsTruthful
  <1>1. IInv => CompletionIsTruthful
    BY SMTT(30), CompletionNotNone, RowFacts
    DEF IInv, TInv, WorldOK, WorldAt, CompletionIsTruthful, RowOK
  <1> QED
    BY <1>1, Safety, PTL

\* No two callers are past the APPLYING transition of one key.
THEOREM OneApplierHolds == Spec => []OneApplier
  <1>1. IInv => OneApplier
    <2> SUFFICES ASSUME IInv, NEW a \in Attempt, NEW b \in Attempt,
                        pc[a] \in BeforeEntry \cup AfterEntry,
                        pc[b] \in BeforeEntry \cup AfterEntry,
                        frame[a].key = frame[b].key
                 PROVE  a = b /\ (Owns(a, "applying") \/ RowOf(a).state = "completed")
      BY ZenonT(30) DEF OneApplier, BeforeEntry, AfterEntry
    <2> QED
      <3>1. ApplierAt(a) /\ ApplierAt(b) /\ Alone
        BY ZenonT(30) DEF IInv, ApplierOK
      <3>2. CASE pc[a] \in BeforeEntry /\ pc[b] \in BeforeEntry
        BY ZenonT(30), <3>1, <3>2 DEF ApplierAt, Owns, RowOf
      <3>3. CASE pc[a] \in AfterEntry /\ pc[b] \in AfterEntry
        BY ZenonT(30), <3>1, <3>3 DEF ApplierAt, Alone
      <3>4. ASSUME entered[frame[a].key] = 0, entered[frame[a].key] = 1 PROVE FALSE
        BY <3>4
      <3>5. CASE pc[a] \in BeforeEntry /\ pc[b] \in AfterEntry
        BY ZenonT(30), <3>1, <3>4, <3>5 DEF ApplierAt
      <3>6. CASE pc[a] \in AfterEntry /\ pc[b] \in BeforeEntry
        BY ZenonT(30), <3>1, <3>4, <3>6 DEF ApplierAt
      <3> QED
        BY ZenonT(30), <3>2, <3>3, <3>5, <3>6
  <1> QED
    BY <1>1, Safety, PTL
-----------------------------------------------------------------------------
(* The ledger implements FencedEffect, step by step. *)

\* Replacing one row changes one phase and one answer.
LEMMA PhaseSet ==
  ASSUME RowsOK, NEW a \in Attempt, frame[a].key \in Key, NEW row, SetRow(a, row)
  PROVE  /\ Phase' = [Phase EXCEPT ![frame[a].key] = PhaseOf(row.state)]
         /\ Answer' = [Answer EXCEPT ![frame[a].key] = row.done]
  BY ZenonT(30) DEF RowsOK, SetRow, Phase, Answer

LEMMA PhaseKept == UNCHANGED ledger => UNCHANGED <<Phase, Answer>>
  BY DEF Phase, Answer

\* A row written with the phase and the answer it had is a stutter.
LEMMA PhaseSame ==
  ASSUME RowsOK, NEW a \in Attempt, frame[a].key \in Key, NEW row, SetRow(a, row),
         PhaseOf(row.state) = PhaseOf(RowOf(a).state), row.done = RowOf(a).done
  PROVE  UNCHANGED <<Phase, Answer>>
  <1> DEFINE k == frame[a].key
  <1>1. /\ Phase' = [Phase EXCEPT ![k] = PhaseOf(row.state)]
        /\ Answer' = [Answer EXCEPT ![k] = row.done]
    BY PhaseSet
  <1>2. Phase[k] = PhaseOf(row.state) /\ Answer[k] = row.done
    BY DEF Phase, Answer, RowOf
  <1>3. Phase = [j \in Key |-> Phase[j]] /\ Answer = [j \in Key |-> Answer[j]]
    BY DEF Phase, Answer
  <1>4. QED
    BY ZenonT(30), <1>1, <1>2, <1>3

\* What the mapping says of a row past its compare-and-swap.
LEMMA PhaseOfStates ==
  /\ PhaseOf("absent") = "open" /\ PhaseOf("prepared") = "open"
  /\ PhaseOf("applying") = "fenced" /\ PhaseOf("failed_unknown") = "fenced"
  /\ PhaseOf("completed") = "settled"
  BY DEF PhaseOf

LEMMA RefineBegin ==
  ASSUME IInv, NEW a \in Attempt, BeginApply(a)
  PROVE  [Abstract!Next]_(Abstract!vars)
  <1>1. frame[a].key \in Key /\ RowsOK
    BY DEF IInv, TInv, ControlOK, FrameOK, BeginApply, CallPcs
  <1>2. UNCHANGED <<appliedBy, happened>>
    BY DEF BeginApply
  <1>3. CASE Owns(a, "prepared") /\ SetRow(a, [RowOf(a) EXCEPT !.state = "applying"])
    <2> DEFINE k == frame[a].key
    <2> DEFINE row == [RowOf(a) EXCEPT !.state = "applying"]
    <2>1. ledger[k] \in Row
      BY <1>1, RowFacts
    <2>2. row.state = "applying" /\ row.done = ledger[k].done /\ ledger[k].state = "prepared"
      BY <1>3, <2>1 DEF Row, RowOf, Owns
    <2>3. Phase[k] = "open"
      BY ZenonT(30), <1>1, <2>2, PhaseOfStates DEF Phase
    <2>4. Phase' = [Phase EXCEPT ![k] = "fenced"] /\ Answer' = [Answer EXCEPT ![k] = ledger[k].done]
      <3>1. SetRow(a, row)
        BY <1>3
      <3> HIDE DEF row
      <3>2. QED
        BY <1>1, <2>2, <3>1, PhaseSet, PhaseOfStates
    <2>5. UNCHANGED Answer
      BY ZenonT(30), <1>1, <2>4 DEF Answer
    <2>6. Abstract!Fence(k)
      BY <1>2, <2>3, <2>4, <2>5 DEF Abstract!Fence
    <2>7. QED
      BY <1>1, <2>6 DEF Abstract!Next
  <1>4. CASE UNCHANGED ledger
    BY <1>2, <1>4, PhaseKept DEF Abstract!vars
  <1>5. QED
    BY <1>3, <1>4 DEF BeginApply

LEMMA RefineRestore ==
  ASSUME IInv, NEW a \in Attempt, RestorePrepared(a)
  PROVE  [Abstract!Next]_(Abstract!vars)
  <1> DEFINE k == frame[a].key
  <1> DEFINE row == [RowOf(a) EXCEPT !.state = "prepared"]
  <1>1. k \in Key /\ RowsOK
    BY DEF IInv, TInv, ControlOK, FrameOK, RestorePrepared, CallPcs
  <1>2. ledger[k] \in Row
    BY <1>1, RowFacts
  <1>3. row.state = "prepared" /\ row.done = ledger[k].done /\ ledger[k].state = "applying"
    BY <1>2 DEF RestorePrepared, Row, RowOf, Owns
  <1>4. Phase[k] = "fenced"
    BY ZenonT(30), <1>1, <1>3, PhaseOfStates DEF Phase
  <1>5. Phase' = [Phase EXCEPT ![k] = "open"] /\ Answer' = [Answer EXCEPT ![k] = ledger[k].done]
    <2>1. SetRow(a, row)
      BY DEF RestorePrepared
    <2> HIDE DEF row
    <2>2. QED
      BY <1>1, <1>3, <2>1, PhaseSet, PhaseOfStates
  <1>6. UNCHANGED Answer
    BY ZenonT(30), <1>1, <1>5 DEF Answer
  <1>7. appliedBy[k] = None
    BY <1>1 DEF IInv, ApplierOK, ApplierAt, BeforeEntry, WorldOK, WorldAt, RestorePrepared
  <1>8. Abstract!Lift(k)
    BY <1>4, <1>5, <1>6, <1>7 DEF Abstract!Lift, RestorePrepared
  <1>9. QED
    BY <1>1, <1>8 DEF Abstract!Next

LEMMA RefineAdapter ==
  ASSUME IInv, NEW a \in Attempt, EnterAdapter(a) \/ AdapterActs(a)
  PROVE  [Abstract!Next]_(Abstract!vars)
  <1> DEFINE k == frame[a].key
  <1>1. k \in Key /\ frame[a].ev \in Evidence /\ RowsOK
    BY DEF IInv, TInv, ControlOK, FrameOK, EnterAdapter, AdapterActs, CallPcs, ExecutePcs
  <1>2. UNCHANGED <<Phase, Answer>>
    BY PhaseKept DEF EnterAdapter, AdapterActs
  <1>3. CASE EnterAdapter(a)
    <2>1. ledger[k].state = "applying" /\ appliedBy[k] = None
      BY ZenonT(30), <1>1, <1>3
      DEF IInv, ApplierOK, ApplierAt, BeforeEntry, WorldOK, WorldAt, EnterAdapter, Owns, RowOf
    <2>2. Phase[k] = "fenced"
      BY ZenonT(30), <1>1, <2>1, PhaseOfStates DEF Phase
    <2>3. Abstract!Enter(k, frame[a].ev)
      BY <1>2, <1>3, <2>1, <2>2 DEF Abstract!Enter, EnterAdapter
    <2>4. QED
      BY <1>1, <2>3 DEF Abstract!Next
  <1>4. CASE AdapterActs(a)
    <2>1. entered[k] = 1 /\ (ledger[k].state \in {"applying", "completed"})
      BY ZenonT(30), <1>1, <1>4 DEF IInv, ApplierOK, ApplierAt, AfterEntry, AdapterActs, Owns, RowOf
    <2>2. appliedBy[k] = ledger[k].ev /\ ledger[k].ev \in Evidence
      BY ZenonT(30), <1>1, <2>1, RowFacts DEF IInv, WorldOK, WorldAt
    <2>3. Abstract!TakePlace(k)
      BY ZenonT(30), <1>2, <1>4, <2>2, LedgerAssumption DEF Abstract!TakePlace, AdapterActs
    <2>4. QED
      BY <1>1, <2>3 DEF Abstract!Next
  <1>5. QED
    BY <1>3, <1>4

\* The last swap: an effect that took place is settled, with the evidence it was entered with.
LEMMA RefineComplete ==
  ASSUME IInv, NEW a \in Attempt, CompleteAsOwner(a) \/ CompleteReconciled(a)
  PROVE  [Abstract!Next]_(Abstract!vars)
  <1> DEFINE k == frame[a].key
  <1> DEFINE done == CompletionOf(a)
  <1>1. k \in Key /\ frame[a].out \in Outcome /\ RowsOK /\ happened[k]
    BY ZenonT(30) DEF IInv, TInv, ControlOK, FrameOK, CompleteAsOwner, CompleteReconciled, CallPcs,
           ApplierOK, ApplierAt
  <1>2. UNCHANGED <<appliedBy, happened>> /\ ledger[k].ev = frame[a].ev
    BY DEF CompleteAsOwner, CompleteReconciled, CompleteEffect, RowOf
  <1>3. CASE UNCHANGED ledger
    BY ZenonT(30), <1>2, <1>3, PhaseKept DEF Abstract!vars
  <1>4. CASE /\ ledger[k].state \in {"applying", "failed_unknown"}
             /\ SetRow(a, [RowOf(a) EXCEPT !.state = "completed", !.owner = None, !.done = done])
    <2> DEFINE row == [RowOf(a) EXCEPT !.state = "completed", !.owner = None, !.done = done]
    <2>1. row.state = "completed" /\ row.done = done
      <3>1. ledger[k] \in Row
        BY ZenonT(30), <1>1, RowFacts
      <3>2. QED
        BY ZenonT(30), <3>1 DEF Row, RowOf
    <2>2. Phase' = [Phase EXCEPT ![k] = "settled"] /\ Answer' = [Answer EXCEPT ![k] = done]
      <3>1. SetRow(a, row)
        BY <1>4
      <3> HIDE DEF row, done
      <3>2. QED
        BY <1>1, <2>1, <3>1, PhaseSet, PhaseOfStates
    <2>3. Phase[k] = "fenced"
      BY <1>1, <1>4, PhaseOfStates DEF Phase
    <2>4. appliedBy[k] = frame[a].ev
      BY ZenonT(30), <1>1, <1>2 DEF IInv, WorldOK, WorldAt
    <2>5. Abstract!Settle(k, frame[a].out)
      BY <1>1, <1>2, <2>2, <2>3, <2>4 DEF Abstract!Settle, CompletionOf
    <2>6. QED
      BY <1>1, <2>5 DEF Abstract!Next
  <1>5. QED
    BY ZenonT(30), <1>3, <1>4 DEF CompleteAsOwner, CompleteReconciled, CompleteEffect, RowOf

\* The rows that are prepared, stolen or marked unknown keep their phase.
LEMMA RefineStutter ==
  ASSUME IInv, NEW a \in Attempt, Prepare(a) \/ MarkEffectUnknown(a)
  PROVE  UNCHANGED Abstract!vars
  <1>1. frame[a].key \in Key /\ RowsOK
    BY DEF IInv, TInv, ControlOK, FrameOK, Prepare, MarkEffectUnknown, CallPcs
  <1>2. UNCHANGED <<appliedBy, happened>>
    BY DEF Prepare, MarkEffectUnknown
  <1>3. RowOf(a) \in Row /\ RowOK(RowOf(a))
    BY <1>1, RowFacts DEF RowOf
  <1>4. CASE UNCHANGED ledger
    BY <1>2, <1>4, PhaseKept DEF Abstract!vars
  <1>5. ASSUME NEW g, RowOf(a).state \in {"absent", "prepared"}, SetRow(a, PreparedRow(a, g))
        PROVE  UNCHANGED Abstract!vars
    <2>1. RowOf(a).done = None
      BY <1>3, <1>5 DEF RowOK
    <2>2. PreparedRow(a, g).state = "prepared" /\ PreparedRow(a, g).done = None
      BY DEF PreparedRow
    <2>3. QED
      BY ZenonT(30), <1>1, <1>2, <1>5, <2>1, <2>2, PhaseOfStates, PhaseSame DEF Abstract!vars
  <1>6. ASSUME Owns(a, "applying"),
               SetRow(a, [RowOf(a) EXCEPT !.state = "failed_unknown", !.owner = None])
        PROVE  UNCHANGED Abstract!vars
    <2> DEFINE row == [RowOf(a) EXCEPT !.state = "failed_unknown", !.owner = None]
    <2>1. row.state = "failed_unknown" /\ row.done = RowOf(a).done
      BY <1>3 DEF Row
    <2>2. QED
      BY ZenonT(30), <1>1, <1>2, <1>6, <2>1, PhaseOfStates, PhaseSame DEF Abstract!vars, Owns
  <1>7. QED
    BY <1>4, <1>5, <1>6 DEF Prepare, Prepared, MarkEffectUnknown

LEMMA RefineStep == IInv /\ [Next]_vars => [Abstract!Next]_(Abstract!vars)
  <1> SUFFICES ASSUME IInv, [Next]_vars PROVE [Abstract!Next]_(Abstract!vars)
    OBVIOUS
  <1>1. CASE UNCHANGED <<ledger, appliedBy, happened>>
    BY ZenonT(30), <1>1, PhaseKept DEF Abstract!vars
  <1>2. ASSUME NEW a \in Attempt, CallStep(a) PROVE [Abstract!Next]_(Abstract!vars)
    BY <1>1, <1>2, RefineBegin, RefineRestore, RefineAdapter, RefineComplete, RefineStutter
    DEF CallStep, CompletedReplay, ValidateBeforePrepare, ValidateBeforeApply, ValidateAtEntry,
        AdapterReturns, AdapterRaises, ReadForReconcile, AdapterReconciles, TransactionFails
  <1>3. QED
    BY ZenonT(30), <1>1, <1>2
    DEF Next, vars, CallExecute, CallReconcile, Crash, Environment, Revoke

\* Every behaviour of the ledger is a behaviour of the fenced effect: whatever callers,
\* crashes and failed transactions do, a key is opened and fenced, entered at most once, and
\* settled only for an effect that took place.
THEOREM LedgerImplementsFencedEffect == Spec => ImplementsFencedEffect
  <1>1. Init => Abstract!Init
    BY PhaseOfStates DEF Init, LedgerInit, NoRow, Abstract!Init, Phase, Answer
  <1>2. QED
    BY <1>1, RefineStep, Safety, PTL DEF Spec, ImplementsFencedEffect, Abstract!Spec
-----------------------------------------------------------------------------
(***************************************************************************)
(* The helper over the ledger, for every set of requests, digests and      *)
(* attempts.  Every step of the helper is a step of the ledger or leaves   *)
(* it alone, so IInv holds; the rest says whose call each executor call    *)
(* is, and what a completion in the hands of handle is worth.              *)
(***************************************************************************)

Waiting == {"first", "again", "execute", "post"}

\* The ledger has this completion for the key.
Holds(k, completion) == ledger[k].state = "completed" /\ ledger[k].done = completion

HelperTypes ==
    /\ journal \in [RequestId -> Request]
    /\ \A id \in RequestId : RequestOK(journal[id])
    /\ hpc \in [Attempt -> HandlePcs \cup {"idle", "done", "down"}]
    /\ req \in [Attempt -> Locals]

\* A request that was reserved is in the journal under its digest for good.
BoundAt(h) ==
    /\ hpc[h] \in HandlePcs => req[h].id \in RequestId /\ req[h].sha \in Digest
    /\ hpc[h] \in HandlePcs \ {"reserve"} =>
          journal[req[h].id].state # "absent" /\ journal[req[h].id].sha = req[h].sha

\* An executor call runs only while handle waits for it, and is about handle's request.
CallAt(h) ==
    /\ pc[h] \in CallPcs => hpc[h] \in Waiting /\ frame[h].key = KeyOf(h)
    /\ /\ pc[h] = "returned" /\ hpc[h] \in Waiting
       /\ frame[h].ret = "completion"
       => Holds(KeyOf(h), frame[h].done)
    /\ hpc[h] \in {"commit_any", "commit"} => Holds(KeyOf(h), req[h].receipt)

HInv ==
    /\ IInv /\ HelperTypes
    /\ \A h \in Attempt : BoundAt(h) /\ CallAt(h)
    /\ ReceiptIsTheLedgers /\ EffectIsJournalled

\* What one step of an executor call does beside the ledger: its own control alone, its
\* own adapter alone, and it returns only a completion that the ledger has.
LEMMA CallLocal ==
  ASSUME IInv, NEW a \in Attempt, CallStep(a)
  PROVE  /\ pc[a] \in CallPcs
         /\ \A b \in Attempt \ {a} : pc'[b] = pc[b] /\ frame'[b] = frame[b]
         /\ pc'[a] \in CallPcs => frame'[a].key = frame[a].key
         /\ \A k \in Key : entered'[k] # entered[k] => k = frame[a].key
  <1>1. pc \in [Attempt -> CallPcs \cup {"idle", "returned", "down"}] /\ frame \in [Attempt -> Frame]
    BY DEF IInv, TInv, ControlOK
  <1>2. entered \in [Key -> Nat]
    BY ZenonT(30) DEF IInv, TInv, WorldTypeOK
  <1>3. pc[a] \in CallPcs
    BY DEF CallStep, CompletedReplay, ValidateBeforePrepare, Prepare, ValidateBeforeApply, BeginApply,
           ValidateAtEntry, RestorePrepared, EnterAdapter, AdapterActs, AdapterReturns, AdapterRaises,
           MarkEffectUnknown, CompleteAsOwner, ReadForReconcile, AdapterReconciles,
           CompleteReconciled, TransactionFails, TransactionPcs, CallPcs
  <1>4. /\ \A b \in Attempt \ {a} : pc'[b] = pc[b] /\ frame'[b] = frame[b]
        /\ pc'[a] \in CallPcs => frame'[a].key = frame[a].key
    <2> USE <1>1 DEF Goto, Return, ReturnCompletion, SampleAndGoto, CallPcs, Frame
    <2>1. CASE CompletedReplay(a)
      BY <2>1 DEF CompletedReplay
    <2>2. CASE ValidateBeforePrepare(a)
      BY <2>2 DEF ValidateBeforePrepare
    <2>3. CASE Prepare(a)
      BY <2>3 DEF Prepare, Prepared
    <2>4. CASE ValidateBeforeApply(a)
      BY <2>4 DEF ValidateBeforeApply
    <2>5. CASE BeginApply(a)
      BY <2>5 DEF BeginApply
    <2>6. CASE ValidateAtEntry(a)
      BY <2>6 DEF ValidateAtEntry
    <2>7. CASE RestorePrepared(a)
      BY <2>7 DEF RestorePrepared
    <2>8. CASE EnterAdapter(a) \/ AdapterActs(a) \/ AdapterReturns(a) \/ AdapterRaises(a)
      BY <2>8 DEF EnterAdapter, AdapterActs, AdapterReturns, AdapterRaises
    <2>9. CASE MarkEffectUnknown(a)
      BY <2>9 DEF MarkEffectUnknown
    <2>10. CASE CompleteAsOwner(a) \/ CompleteReconciled(a)
      BY <2>10 DEF CompleteAsOwner, CompleteReconciled, CompleteEffect
    <2>11. CASE ReadForReconcile(a)
      BY ZenonT(30), <2>11 DEF ReadForReconcile
    <2>12. CASE AdapterReconciles(a)
      BY <2>12 DEF AdapterReconciles
    <2>13. CASE TransactionFails(a)
      BY <2>13 DEF TransactionFails
    <2>14. QED
      BY ZenonT(30), <2>1, <2>2, <2>3, <2>4, <2>5, <2>6, <2>7, <2>8, <2>9, <2>10, <2>11, <2>12, <2>13 DEF CallStep
  <1>5. \A k \in Key : entered'[k] # entered[k] => k = frame[a].key
    BY ZenonT(30), <1>2
    DEF CallStep, CompletedReplay, ValidateBeforePrepare, Prepare, ValidateBeforeApply, BeginApply,
        ValidateAtEntry, RestorePrepared, EnterAdapter, AdapterActs, AdapterReturns, AdapterRaises,
        MarkEffectUnknown, CompleteAsOwner, ReadForReconcile, AdapterReconciles,
        CompleteReconciled, CompleteEffect, TransactionFails
  <1>6. QED
    BY <1>3, <1>4, <1>5

\* A call that returns a completion returns the one the ledger has after the step.
LEMMA CallReturns ==
  ASSUME IInv, NEW a \in Attempt, CallStep(a), pc'[a] = "returned", frame'[a].ret = "completion"
  PROVE  /\ ledger'[frame[a].key].state = "completed"
         /\ ledger'[frame[a].key].done = frame'[a].done
  <1>1. /\ pc \in [Attempt -> CallPcs \cup {"idle", "returned", "down"}] /\ frame \in [Attempt -> Frame]
        /\ RowsOK
    BY ZenonT(30) DEF IInv, TInv, ControlOK
  <1>2. frame[a].key \in Key
    BY CallLocal DEF IInv, TInv, ControlOK, FrameOK
  <1> DEFINE k == frame[a].key
  <1>3. ~(\E r \in Results \ {"completion"} : Return(a, r))
    BY <1>1 DEF Return, EmptyFrame
  <1>4. ~(\E where \in CallPcs : Goto(a, where) \/ SampleAndGoto(a, where))
    BY <1>1 DEF Goto, SampleAndGoto, CallPcs
  <1>5. ASSUME NEW c, ReturnCompletion(a, c) PROVE frame'[a].done = c
    BY ZenonT(30), <1>1, <1>5 DEF ReturnCompletion, EmptyFrame
  <1>6. CASE CompletedReplay(a)
    BY <1>2, <1>3, <1>4, <1>5, <1>6 DEF CompletedReplay, RowOf, Results, CallPcs
  <1>7. CASE Prepare(a)
    <2>1. ~(\E g \in Nat : Prepared(a, g))
      BY ZenonT(30), <1>1 DEF Prepared
    <2>2. RowOf(a).gen + 1 \in Nat /\ 1 \in Nat
      BY <1>1, <1>2, RowFacts DEF RowOf, Row
    <2>3. QED
      BY ZenonT(30), <1>2, <1>3, <1>5, <1>7, <2>1, <2>2 DEF Prepare, RowOf, Results
  <1>8. CASE ReadForReconcile(a)
    <2>1. pc'[a] # "rec_adapter"
      OBVIOUS
    <2>2. QED
      BY ZenonT(30), <1>1, <1>2, <1>3, <1>5, <1>8, <2>1 DEF ReadForReconcile, RowOf, Results
  <1>9. CASE CompleteAsOwner(a) \/ CompleteReconciled(a)
    <2>1. frame'[a].done = CompletionOf(a)
      BY ZenonT(30), <1>5, <1>9 DEF CompleteAsOwner, CompleteReconciled, CompleteEffect
    <2>2. CASE UNCHANGED ledger /\ RowOf(a).state = "completed" /\ RowOf(a).done = CompletionOf(a)
      BY ZenonT(30), <2>1, <2>2 DEF RowOf
    <2>3. CASE SetRow(a, [RowOf(a) EXCEPT !.state = "completed", !.owner = None, !.done = CompletionOf(a)])
      <3>1. RowOf(a) \in Row
        BY <1>1, <1>2, RowFacts DEF RowOf
      <3>2. ledger'[k] = [RowOf(a) EXCEPT !.state = "completed", !.owner = None, !.done = CompletionOf(a)]
        BY <1>1, <1>2, <2>3 DEF SetRow, RowsOK
      <3> HIDE DEF k
      <3>3. ledger'[k].state = "completed" /\ ledger'[k].done = CompletionOf(a)
        BY <3>1, <3>2 DEF Row
      <3>4. QED
        BY ZenonT(30), <2>1, <3>3 DEF k
    <2>4. QED
      BY <1>9, <2>2, <2>3 DEF CompleteAsOwner, CompleteReconciled, CompleteEffect
  <1>10. CASE TransactionFails(a) \/ MarkEffectUnknown(a) \/ RestorePrepared(a) \/ BeginApply(a)
              \/ ValidateBeforePrepare(a) \/ ValidateBeforeApply(a) \/ ValidateAtEntry(a)
    BY <1>3, <1>4, <1>10
    DEF TransactionFails, MarkEffectUnknown, RestorePrepared, BeginApply, ValidateBeforePrepare,
        ValidateBeforeApply, ValidateAtEntry, Results, CallPcs
  <1>11. CASE EnterAdapter(a) \/ AdapterRaises(a) \/ AdapterActs(a) \/ AdapterReturns(a)
              \/ AdapterReconciles(a)
    BY <1>1, <1>3, <1>4, <1>11
    DEF EnterAdapter, AdapterRaises, AdapterActs, AdapterReturns, AdapterReconciles, Results, CallPcs
  <1>12. QED
    BY ZenonT(30), <1>6, <1>7, <1>8, <1>9, <1>10, <1>11 DEF CallStep

\* A completed row is never written again.
LEMMA CompletedStays ==
  ASSUME IInv, [Next]_vars, NEW k \in Key, ledger[k].state = "completed"
  PROVE  ledger'[k] = ledger[k]
  <1>1. CASE UNCHANGED ledger
    BY <1>1
  <1>2. ASSUME NEW a \in Attempt, NEW row, SetRow(a, row), RowOf(a).state # "completed",
               frame[a].key \in Key
        PROVE  ledger'[k] = ledger[k]
    BY <1>2 DEF SetRow, RowOf, IInv, TInv, RowsOK
  <1>3. ASSUME NEW a \in Attempt, CallStep(a)
        PROVE  UNCHANGED ledger \/ \E row : SetRow(a, row) /\ RowOf(a).state # "completed"
    BY ZenonT(30), <1>3
    DEF CallStep, CompletedReplay, ValidateBeforePrepare, Prepare, Prepared, ValidateBeforeApply,
        BeginApply, ValidateAtEntry, RestorePrepared, EnterAdapter, AdapterActs, AdapterReturns,
        AdapterRaises, MarkEffectUnknown, CompleteAsOwner, ReadForReconcile, AdapterReconciles,
        CompleteReconciled, CompleteEffect, TransactionFails, Owns
  <1>4. ASSUME NEW a \in Attempt, CallStep(a) PROVE frame[a].key \in Key
    BY ZenonT(30), <1>4, CallLocal DEF IInv, TInv, ControlOK, FrameOK
  <1>5. QED
    BY ZenonT(30), <1>1, <1>2, <1>3, <1>4
    DEF Next, vars, CallExecute, CallReconcile, Crash, Environment, Revoke

\* Steps of one attempt leave the others' control alone, and no row loses its digest.
Keeps(h) == \A b \in Attempt \ {h} : /\ hpc'[b] = hpc[b] /\ req'[b] = req[b]
                                     /\ pc'[b] = pc[b] /\ frame'[b] = frame[b]
Grows == \A id \in RequestId : journal[id].state # "absent" =>
            journal'[id].state # "absent" /\ journal'[id].sha = journal[id].sha

LEMMA KeyTyped ==
  ASSUME HInv, NEW h \in Attempt, hpc[h] \in HandlePcs
  PROVE  /\ req[h].id \in RequestId /\ req[h].sha \in Digest /\ req[h] \in Locals
         /\ KeyOf(h) \in Key
         /\ journal[req[h].id] \in Request /\ RequestOK(journal[req[h].id])
  BY ZenonT(30), HelperAssumption DEF HInv, BoundAt, KeyOf, HelperTypes

\* Whatever the helper does is a step of the ledger or leaves it alone.
LEMMA HelperUsesLedger == HInv /\ [HelperNext]_allVars => [Next]_vars
  <1> SUFFICES ASSUME HInv, [HelperNext]_allVars PROVE [Next]_vars
    OBVIOUS
  <1>1. CASE UNCHANGED vars
    BY <1>1
  <1>2. ASSUME NEW t \in Time, Observe(t), UNCHANGED <<clock, ledgerVars>> PROVE Next
    BY <1>2 DEF Next, Environment, StoreUsed
  <1>3. clock \in Time /\ (\A h \in Attempt : req[h].at \in Time)
    BY DEF HInv, IInv, TInv, StoreTypeOK, HelperTypes, Locals
  <1>4. ASSUME NEW h \in Attempt, HandleStep(h) PROVE [Next]_vars
    <2>1. CASE Acquire(h)
      BY ZenonT(30), <1>2, <1>3, <2>1 DEF Acquire, ReserveNew, ReserveTakeover
    <2>2. CASE ReadReservation(h)
      BY ZenonT(30), <1>2, <1>3, <2>2 DEF ReadReservation, ReserveRead
    <2>3. CASE Commit(h)
      BY <1>2, <1>3, <2>3 DEF Commit, CompleteRequest
    <2>4. CASE FenceRequest(h)
      BY <1>2, <1>3, <2>4 DEF FenceRequest, MarkFailedUnknown
    <2>5. CASE Consult(h)
      BY ZenonT(30), <2>5, KeyTyped DEF Consult, HandlePcs, Next
    <2>6. ASSUME NEW e \in Evidence, Dispatch(h, e) PROVE [Next]_vars
      BY <2>6, KeyTyped DEF Dispatch, HandlePcs, Next
    <2>7. CASE Executed(h)
      BY ZenonT(30), <1>1, <2>7, KeyTyped DEF Executed, HandlePcs, Next
    <2>8. CASE RefuseReservation(h) \/ Consulted(h) \/ DenyDispatch(h) \/ PostReconciled(h)
               \/ JournalFails(h)
      BY ZenonT(30), <1>1, <2>8 DEF RefuseReservation, Consulted, DenyDispatch, PostReconciled, JournalFails
    <2>9. QED
      BY ZenonT(30), <1>4, <2>1, <2>2, <2>3, <2>4, <2>5, <2>6, <2>7, <2>8 DEF HandleStep
  <1>5. QED
    BY ZenonT(30), <1>1, <1>4 DEF HelperNext, Arrive, HelperCrash, HelperEnvironment, Next, allVars

\* What holds of the attempts that do not move.
LEMMA HelperFrame ==
  ASSUME HInv, [Next]_vars, NEW h \in Attempt, Keeps(h), Grows
  PROVE  \A b \in Attempt \ {h} : BoundAt(b)' /\ CallAt(b)'
  <1> SUFFICES ASSUME NEW b \in Attempt, b # h PROVE BoundAt(b)' /\ CallAt(b)'
    OBVIOUS
  <1>1. hpc'[b] = hpc[b] /\ req'[b] = req[b] /\ pc'[b] = pc[b] /\ frame'[b] = frame[b]
    BY DEF Keeps
  <1>2. BoundAt(b) /\ CallAt(b)
    BY ZenonT(30) DEF HInv
  <1>3. BoundAt(b)'
    BY ZenonT(30), <1>1, <1>2 DEF BoundAt, Grows
  <1>4. KeyOf(b)' = KeyOf(b)
    BY <1>1 DEF KeyOf
  <1>5. \A c : hpc[b] \in HandlePcs /\ Holds(KeyOf(b), c) =>
          ledger'[KeyOf(b)].state = "completed" /\ ledger'[KeyOf(b)].done = c
    BY ZenonT(30), KeyTyped, CompletedStays DEF Holds, HInv
  <1>6. CallAt(b)'
    <2>1. pc'[b] \in CallPcs => hpc'[b] \in Waiting /\ frame'[b].key = KeyOf(b)'
      BY ZenonT(30), <1>1, <1>2, <1>4 DEF CallAt
    <2>2. ASSUME pc[b] = "returned", hpc[b] \in Waiting, frame[b].ret = "completion"
          PROVE  /\ ledger'[KeyOf(b)].state = "completed"
                 /\ ledger'[KeyOf(b)].done = frame[b].done
      BY ZenonT(30), <1>2, <1>5, <2>2 DEF CallAt, Waiting, HandlePcs
    <2>3. ASSUME hpc[b] \in {"commit_any", "commit"}
          PROVE  /\ ledger'[KeyOf(b)].state = "completed"
                 /\ ledger'[KeyOf(b)].done = req[b].receipt
      BY ZenonT(30), <1>2, <1>5, <2>3 DEF CallAt, HandlePcs
    <2> QED
      BY ZenonT(30), <1>1, <1>4, <2>1, <2>2, <2>3 DEF CallAt, Holds
  <1>7. QED
    BY ZenonT(30), <1>3, <1>6

\* What holds of the rows that are not written.
LEMMA ReceiptKept ==
  ASSUME HInv, [Next]_vars, NEW id \in RequestId, journal[id].state = "completed",
         journal'[id] = journal[id]
  PROVE  LET row == ledger'[<<id, journal'[id].sha>>] IN
            row.state = "completed" /\ row.done = journal'[id].receipt
  <1>1. journal[id] \in Request /\ RequestOK(journal[id])
    BY ZenonT(30) DEF HInv, HelperTypes
  <1>2. <<id, journal[id].sha>> \in Key
    BY ZenonT(30), <1>1, HelperAssumption DEF Request, RequestOK
  <1>3. QED
    BY ZenonT(30), <1>2, CompletedStays DEF HInv, ReceiptIsTheLedgers

\* A step that leaves the journal alone and enters no adapter outside a journalled request.
LEMMA JournalKept ==
  ASSUME HInv, [Next]_vars, UNCHANGED journal,
         \A k \in Key : entered'[k] # entered[k] =>
            \E h \in Attempt : hpc[h] \in HandlePcs \ {"reserve"} /\ k = KeyOf(h)
  PROVE  ReceiptIsTheLedgers' /\ EffectIsJournalled' /\ Grows
  <1>1. ReceiptIsTheLedgers'
    BY ZenonT(30), ReceiptKept DEF ReceiptIsTheLedgers
  <1>2. EffectIsJournalled'
    <2> SUFFICES ASSUME NEW id \in RequestId, NEW sha \in Digest, entered'[<<id, sha>>] > 0
                 PROVE  journal[id].state # "absent" /\ journal[id].sha = sha
      BY ZenonT(30) DEF EffectIsJournalled
    <2>1. <<id, sha>> \in Key
      BY ZenonT(30), HelperAssumption
    <2>2. CASE entered'[<<id, sha>>] = entered[<<id, sha>>]
      BY ZenonT(30), <2>2 DEF HInv, EffectIsJournalled
    <2>3. CASE entered'[<<id, sha>>] # entered[<<id, sha>>]
      <3>1. PICK h \in Attempt : hpc[h] \in HandlePcs \ {"reserve"} /\ <<id, sha>> = KeyOf(h)
        BY <2>1, <2>3
      <3>2. req[h].id = id /\ req[h].sha = sha
        BY <3>1 DEF KeyOf
      <3>3. QED
        BY ZenonT(30), <3>1, <3>2 DEF HInv, BoundAt
    <2>4. QED
      BY ZenonT(30), <2>2, <2>3
  <1>3. QED
    BY ZenonT(30), <1>1, <1>2 DEF Grows

\* An executor call of a waiting handle.
LEMMA HelperCall ==
  ASSUME HInv, NEW h \in Attempt, CallStep(h), UNCHANGED helperVars
  PROVE  HInv'
  <1>1. [Next]_vars /\ IInv /\ IInv'
    BY ZenonT(30), SafetyStep DEF HInv, Next
  <1>2. pc[h] \in CallPcs /\ hpc[h] \in Waiting /\ frame[h].key = KeyOf(h)
    BY ZenonT(30), <1>1, CallLocal DEF HInv, CallAt
  <1>3. Keeps(h)
    BY ZenonT(30), <1>1, CallLocal DEF Keeps, helperVars
  <1>4. ReceiptIsTheLedgers' /\ EffectIsJournalled' /\ Grows
    <2>1. hpc[h] \in HandlePcs \ {"reserve"}
      BY ZenonT(30), <1>2 DEF Waiting, HandlePcs
    <2>2. \A k \in Key : entered'[k] # entered[k] => k = KeyOf(h)
      BY ZenonT(30), <1>1, <1>2, CallLocal
    <2>3. QED
      BY ZenonT(30), <1>1, <2>1, <2>2, JournalKept DEF helperVars
  <1>5. BoundAt(h)'
    BY ZenonT(30) DEF HInv, BoundAt, helperVars
  <1>6. CallAt(h)'
    <2>1. KeyOf(h)' = KeyOf(h) /\ hpc'[h] \in Waiting
      BY ZenonT(30), <1>2 DEF KeyOf, helperVars
    <2>2. pc'[h] \in CallPcs => frame'[h].key = KeyOf(h)
      BY ZenonT(30), <1>1, <1>2, CallLocal
    <2>3. pc'[h] = "returned" /\ frame'[h].ret = "completion" =>
            ledger'[KeyOf(h)].state = "completed" /\ ledger'[KeyOf(h)].done = frame'[h].done
      BY <1>1, <1>2, CallReturns
    <2>4. QED
      BY ZenonT(30), <2>1, <2>2, <2>3 DEF CallAt, Holds, Waiting
  <1>7. HelperTypes'
    BY DEF HInv, HelperTypes, helperVars
  <1>8. QED
    BY ZenonT(30), <1>1, <1>3, <1>4, <1>5, <1>6, <1>7, HelperFrame DEF HInv

\* A step of handle that leaves the journal and the adapters alone.
LEMMA HelperLocal ==
  ASSUME HInv, [Next]_vars, NEW h \in Attempt, Keeps(h), UNCHANGED <<journal, entered>>,
         hpc' \in [Attempt -> HandlePcs \cup {"idle", "done", "down"}], req' \in [Attempt -> Locals],
         BoundAt(h)', CallAt(h)'
  PROVE  HInv'
  <1>1. ReceiptIsTheLedgers' /\ EffectIsJournalled' /\ Grows
    BY JournalKept
  <1>2. HelperTypes'
    BY DEF HInv, HelperTypes
  <1>3. QED
    BY <1>1, <1>2, SafetyStep, HelperFrame DEF HInv

\* How handle's own locals are set.
LEMMA FinishOK ==
  ASSUME HelperTypes, NEW h \in Attempt, NEW answer \in Answers, NEW receipt \in Completion \cup {None},
         Finish(h, answer, receipt)
  PROVE  /\ hpc' \in [Attempt -> HandlePcs \cup {"idle", "done", "down"}] /\ req' \in [Attempt -> Locals]
         /\ hpc'[h] = "done"
         /\ \A b \in Attempt \ {h} : hpc'[b] = hpc[b] /\ req'[b] = req[b]
  <1>1. req[h] \in Locals
    BY DEF HelperTypes
  <1>2. [NoLocals EXCEPT !.id = req[h].id, !.sha = req[h].sha, !.answer = answer, !.receipt = receipt]
          \in Locals
    BY ZenonT(30), <1>1, TimeAssumption DEF NoLocals, Locals
  <1>3. QED
    BY <1>2 DEF Finish, HelperTypes

LEMMA ContinueOK ==
  ASSUME HelperTypes, NEW h \in Attempt, NEW where \in HandlePcs, NEW receipt \in Completion \cup {None},
         Continue(h, where) \/ ContinueWith(h, where, receipt)
  PROVE  /\ hpc' \in [Attempt -> HandlePcs \cup {"idle", "done", "down"}] /\ req' \in [Attempt -> Locals]
         /\ hpc'[h] = where /\ req'[h].id = req[h].id /\ req'[h].sha = req[h].sha
         /\ ContinueWith(h, where, receipt) => req'[h].receipt = receipt
         /\ \A b \in Attempt \ {h} : hpc'[b] = hpc[b] /\ req'[b] = req[b]
  <1>1. req[h] \in Locals
    BY DEF HelperTypes
  <1>2. CASE Continue(h, where) /\ ~ContinueWith(h, where, receipt)
    BY ZenonT(30), <1>1, <1>2 DEF Continue, HelperTypes
  <1>3. CASE ContinueWith(h, where, receipt)
    <2> DEFINE l == [req[h] EXCEPT !.receipt = receipt]
    <2>1. l \in Locals /\ l.id = req[h].id /\ l.sha = req[h].sha /\ l.receipt = receipt
      BY <1>1 DEF Locals
    <2>2. req' = [req EXCEPT ![h] = l] /\ hpc' = [hpc EXCEPT ![h] = where]
      BY <1>3 DEF ContinueWith
    <2> HIDE DEF l
    <2>3. QED
      BY <2>1, <2>2 DEF HelperTypes
  <1>4. QED
    BY <1>2, <1>3

\* A request arrives.
LEMMA HelperArrive ==
  ASSUME HInv, NEW h \in Attempt, NEW id \in RequestId, NEW sha \in Digest, Arrive(h, id, sha)
  PROVE  HInv'
  <1> DEFINE l == [NoLocals EXCEPT !.id = id, !.sha = sha, !.at = clock]
  <1>1. l \in Locals /\ l.id = id /\ l.sha = sha
    BY ZenonT(30) DEF HInv, IInv, TInv, StoreTypeOK, NoLocals, Locals, Answers
  <1>2. req' = [req EXCEPT ![h] = l] /\ hpc' = [hpc EXCEPT ![h] = "reserve"]
    BY DEF Arrive
  <1>3. hpc[h] = "idle" /\ UNCHANGED <<vars, journal>>
    BY DEF Arrive
  <1> HIDE DEF l
  <1>4. /\ hpc' \in [Attempt -> HandlePcs \cup {"idle", "done", "down"}] /\ req' \in [Attempt -> Locals]
        /\ hpc'[h] = "reserve" /\ req'[h] = l
        /\ \A b \in Attempt \ {h} : hpc'[b] = hpc[b] /\ req'[b] = req[b]
    BY <1>1, <1>2 DEF HInv, HelperTypes, HandlePcs
  <1>5. BoundAt(h)' /\ CallAt(h)'
    BY ZenonT(30), <1>1, <1>3, <1>4 DEF HInv, BoundAt, CallAt, Waiting, HandlePcs, vars
  <1>6. QED
    BY ZenonT(30), <1>3, <1>4, <1>5, HelperLocal DEF Keeps, vars

\* handle ends without having written the journal.
LEMMA HelperEnds ==
  ASSUME HInv, NEW h \in Attempt, NEW answer \in Answers, NEW receipt \in Completion \cup {None},
         Finish(h, answer, receipt), UNCHANGED journal, pc[h] \notin CallPcs,
         UNCHANGED ledgerVars, [Next]_vars
  PROVE  HInv'
  <1>1. /\ hpc' \in [Attempt -> HandlePcs \cup {"idle", "done", "down"}] /\ req' \in [Attempt -> Locals]
        /\ hpc'[h] = "done"
        /\ \A b \in Attempt \ {h} : hpc'[b] = hpc[b] /\ req'[b] = req[b]
    BY ZenonT(30), FinishOK DEF HInv
  <1>2. BoundAt(h)' /\ CallAt(h)'
    BY ZenonT(30), <1>1 DEF BoundAt, CallAt, Waiting, HandlePcs
  <1>3. QED
    BY ZenonT(30), <1>1, <1>2, HelperLocal DEF Keeps

\* handle goes on to a step at which nobody works for it.
LEMMA HelperGoesOn ==
  ASSUME HInv, NEW h \in Attempt, NEW where \in HandlePcs \ (Waiting \cup {"reserve"}),
         NEW receipt \in Completion \cup {None},
         \/ Continue(h, where) /\ where \notin {"commit", "commit_any"}
         \/ ContinueWith(h, where, receipt) /\ Holds(KeyOf(h), receipt),
         hpc[h] \in HandlePcs \ {"reserve"}, pc[h] \notin CallPcs, UNCHANGED <<vars, journal>>
  PROVE  HInv'
  <1>1. /\ hpc' \in [Attempt -> HandlePcs \cup {"idle", "done", "down"}] /\ req' \in [Attempt -> Locals]
        /\ hpc'[h] = where /\ req'[h].id = req[h].id /\ req'[h].sha = req[h].sha
        /\ ContinueWith(h, where, receipt) => req'[h].receipt = receipt
        /\ \A b \in Attempt \ {h} : hpc'[b] = hpc[b] /\ req'[b] = req[b]
    BY ZenonT(30), ContinueOK DEF HInv
  <1>2. BoundAt(h)'
    BY ZenonT(30), <1>1 DEF HInv, BoundAt
  <1>3. CallAt(h)'
    <2>1. KeyOf(h)' = KeyOf(h) /\ UNCHANGED <<ledger, pc, frame>>
      BY ZenonT(30), <1>1 DEF KeyOf, vars
    <2>2. QED
      BY ZenonT(30), <1>1, <2>1 DEF CallAt, Holds, Waiting
  <1>4. QED
    BY ZenonT(30), <1>1, <1>2, <1>3, HelperLocal DEF Keeps, vars

\* handle starts an executor call for its own key.
LEMMA HelperStarts ==
  ASSUME HInv, NEW h \in Attempt, NEW where \in Waiting, hpc[h] \in HandlePcs \ {"reserve"},
         hpc' = [hpc EXCEPT ![h] = where],
         req' \in [Attempt -> Locals], req'[h].id = req[h].id, req'[h].sha = req[h].sha,
         \A b \in Attempt \ {h} : req'[b] = req[b],
         CallReconcile(h, KeyOf(h)) \/ \E e \in Evidence : CallExecute(h, KeyOf(h), e),
         UNCHANGED journal
  PROVE  HInv'
  <1>1. KeyOf(h) \in Key
    BY ZenonT(30), KeyTyped
  <1>2. [Next]_vars
    BY ZenonT(30), <1>1 DEF Next
  <1>3. /\ pc'[h] \in {"rec_read", "replay"} /\ frame'[h].key = KeyOf(h)
        /\ \A b \in Attempt \ {h} : pc'[b] = pc[b] /\ frame'[b] = frame[b]
        /\ UNCHANGED entered
    <2>1. /\ pc \in [Attempt -> CallPcs \cup {"idle", "returned", "down"}]
          /\ frame \in [Attempt -> Frame]
      BY ZenonT(30) DEF HInv, IInv, TInv, ControlOK
    <2>2. CASE CallReconcile(h, KeyOf(h))
      BY ZenonT(30), <2>1, <2>2 DEF CallReconcile, EmptyFrame
    <2>3. CASE \E e \in Evidence : CallExecute(h, KeyOf(h), e)
      BY ZenonT(30), <2>1, <2>3 DEF CallExecute, EmptyFrame
    <2> QED
      BY ZenonT(30), <2>2, <2>3
  <1>4. /\ hpc' \in [Attempt -> HandlePcs \cup {"idle", "done", "down"}] /\ hpc'[h] = where
        /\ \A b \in Attempt \ {h} : hpc'[b] = hpc[b]
    BY DEF HInv, HelperTypes, Waiting, HandlePcs
  <1>5. BoundAt(h)'
    BY ZenonT(30), <1>4 DEF HInv, BoundAt
  <1>6. CallAt(h)'
    <2>1. KeyOf(h)' = KeyOf(h)
      BY ZenonT(30) DEF KeyOf
    <2>2. QED
      BY ZenonT(30), <1>3, <1>4, <2>1 DEF CallAt, Waiting
  <1>7. QED
    BY ZenonT(30), <1>2, <1>3, <1>4, <1>5, <1>6, HelperLocal DEF Keeps

\* A row of the journal is written by the attempt whose request it is.
LEMMA HelperWrites ==
  ASSUME HInv, NEW h \in Attempt, hpc[h] \in HandlePcs, pc[h] \notin CallPcs,
         NEW row \in Request, RequestOK(row), SetRequest(req[h].id, row),
         row.state # "absent", row.sha = req[h].sha,
         journal[req[h].id].state # "absent" => journal[req[h].id].sha = req[h].sha,
         journal[req[h].id].state # "completed",
         row.state = "completed" => Holds(KeyOf(h), row.receipt),
         UNCHANGED ledgerVars, [Next]_vars,
         hpc' \in [Attempt -> HandlePcs \cup {"idle", "done", "down"}], req' \in [Attempt -> Locals],
         \A b \in Attempt \ {h} : hpc'[b] = hpc[b] /\ req'[b] = req[b],
         hpc'[h] \in {"acquired", "done"}, req'[h].id = req[h].id, req'[h].sha = req[h].sha
  PROVE  HInv'
  <1> DEFINE id == req[h].id
  <1>1. id \in RequestId /\ req[h].sha \in Digest
    BY ZenonT(30), KeyTyped
  <1>2. journal'[id] = row /\ \A j \in RequestId \ {id} : journal'[j] = journal[j]
    BY ZenonT(30), <1>1 DEF SetRequest, HInv, HelperTypes
  <1>3. HelperTypes'
    BY ZenonT(30) DEF HInv, HelperTypes, SetRequest
  <1>4. Grows
    BY ZenonT(30), <1>2 DEF Grows
  <1>5. BoundAt(h)' /\ CallAt(h)'
    BY ZenonT(30), <1>1, <1>2 DEF BoundAt, CallAt, Waiting, HandlePcs
  <1>6. ReceiptIsTheLedgers'
    <2> SUFFICES ASSUME NEW j \in RequestId, journal'[j].state = "completed"
                 PROVE  LET r == ledger'[<<j, journal'[j].sha>>] IN
                           r.state = "completed" /\ r.done = journal'[j].receipt
      BY ZenonT(30) DEF ReceiptIsTheLedgers
    <2>1. CASE j = id
      BY ZenonT(30), <1>2, <2>1 DEF Holds, KeyOf
    <2>2. CASE j # id
      BY ZenonT(30), <1>2, <2>2, ReceiptKept
    <2>3. QED
      BY ZenonT(30), <2>1, <2>2
  <1>7. EffectIsJournalled'
    <2> SUFFICES ASSUME NEW j \in RequestId, NEW sha \in Digest, entered[<<j, sha>>] > 0
                 PROVE  journal'[j].state # "absent" /\ journal'[j].sha = sha
      BY ZenonT(30) DEF EffectIsJournalled
    <2>1. journal[j].state # "absent" /\ journal[j].sha = sha
      BY ZenonT(30) DEF HInv, EffectIsJournalled
    <2>2. QED
      BY ZenonT(30), <2>1, <1>4 DEF Grows
  <1>8. Keeps(h)
    BY ZenonT(30) DEF Keeps
  <1>9. QED
    BY ZenonT(30), <1>3, <1>4, <1>5, <1>6, <1>7, <1>8, SafetyStep, HelperFrame DEF HInv

\* reserve: the row is new, or its lease ran out under the same digest.
LEMMA HelperReserves ==
  ASSUME HInv, NEW h \in Attempt, Acquire(h), [Next]_vars
  PROVE  HInv'
  <1> DEFINE id == req[h].id
  <1>1. /\ id \in RequestId /\ req[h].sha \in Digest /\ req[h] \in Locals
        /\ journal[id] \in Request /\ RequestOK(journal[id])
        /\ hpc[h] = "reserve" /\ hpc[h] \in HandlePcs
    BY KeyTyped DEF Acquire, HandlePcs
  <1>2. pc[h] \notin CallPcs /\ UNCHANGED ledgerVars
    BY ZenonT(30), <1>1 DEF HInv, CallAt, Waiting, Acquire
  <1>3. PICK row \in Request :
           /\ RequestOK(row) /\ SetRequest(id, row) /\ row.state = "pending" /\ row.sha = req[h].sha
           /\ journal[id].state # "absent" => journal[id].sha = req[h].sha
           /\ journal[id].state # "completed"
    <2> DEFINE lease == req[h].at + ReservationLease
    <2>1. lease \in Nat /\ lease # 0 /\ h \in Owner
      <3>1. req[h].at \in Time
        BY ZenonT(30), <1>1 DEF Locals
      <3>2. req[h].at \in Nat /\ ReservationLease \in Nat \ {0}
        BY ZenonT(30), <3>1, TimeAssumption, JournalAssumption
      <3>3. lease \in Nat /\ lease # 0
        BY <3>2
      <3>4. QED
        BY <3>3, HelperAssumption
    <2> HIDE DEF lease
    <2>2. CASE ReserveNew(id, req[h].sha, h, req[h].at)
      <3> DEFINE row == [state |-> "pending", sha |-> req[h].sha, owner |-> h, gen |-> 1,
                         lease |-> lease, receipt |-> None]
      <3>1. row \in Request /\ RequestOK(row)
        <4>1. row \in Request
          BY ZenonT(30), <1>1, <2>1, Generations DEF Request, JournalStates
        <4>2. req[h].sha # None /\ h # None /\ 1 # 0
          BY ZenonT(30), <1>1, <2>1, Generations, JournalAssumption
        <4> QED
          BY ZenonT(30), <2>1, <4>1, <4>2 DEF RequestOK
      <3>2. QED
        BY ZenonT(30), <2>2, <3>1 DEF ReserveNew, lease
    <2>3. CASE ReserveTakeover(id, req[h].sha, h, req[h].at)
      <3> DEFINE row == [journal[id] EXCEPT !.owner = h, !.gen = @ + 1,
                                            !.lease = lease]
      <3>1. journal[id].state = "pending" /\ journal[id].sha = req[h].sha
        BY ZenonT(30), <2>3 DEF ReserveTakeover
      <3>2. /\ row.state = "pending" /\ row.sha = req[h].sha /\ row.owner = h /\ row.lease = lease
            /\ row.gen = journal[id].gen + 1 /\ row.receipt = journal[id].receipt
        BY <1>1, <3>1 DEF Request
      <3>3. journal[id].gen + 1 \in Nat \ {0} /\ journal[id].receipt = None
        BY ZenonT(30), <1>1, <3>1, Generations DEF Request, RequestOK
      <3>4. row \in Request
        BY ZenonT(30), <1>1, <2>1, <3>3 DEF Request
      <3>5. RequestOK(row)
        <4> HIDE DEF row
        <4>1. QED
          BY ZenonT(30), <1>1, <2>1, <3>2, <3>3, JournalAssumption DEF RequestOK
      <3>6. SetRequest(id, row)
        BY <2>3 DEF ReserveTakeover, lease
      <3> HIDE DEF row
      <3>7. QED
        BY ZenonT(30), <3>1, <3>2, <3>4, <3>5, <3>6
    <2>4. QED
      BY ZenonT(30), <2>2, <2>3 DEF Acquire
  <1>4. journal'[id] = row
    BY ZenonT(30), <1>1, <1>3 DEF SetRequest, HInv, HelperTypes
  <1>5. /\ req'[h] = [req[h] EXCEPT !.gen = row.gen] /\ hpc'[h] = "acquired"
        /\ hpc' \in [Attempt -> HandlePcs \cup {"idle", "done", "down"}]
        /\ \A b \in Attempt \ {h} : hpc'[b] = hpc[b] /\ req'[b] = req[b]
    BY ZenonT(30), <1>4 DEF Acquire, HInv, HelperTypes, HandlePcs
  <1>6. req'[h] \in Locals /\ req'[h].id = id /\ req'[h].sha = req[h].sha
    BY ZenonT(30), <1>1, <1>3, <1>5 DEF Locals, Request
  <1>7. req' \in [Attempt -> Locals]
    <2>1. req' = [req EXCEPT ![h] = req'[h]]
      BY DEF Acquire, HInv, HelperTypes
    <2>2. QED
      BY <1>6, <2>1 DEF HInv, HelperTypes
  <1>8. QED
    BY ZenonT(30), <1>1, <1>2, <1>3, <1>5, <1>6, <1>7, HelperWrites

\* The transactions that end handle.
LEMMA HelperCommits ==
  ASSUME HInv, NEW h \in Attempt, Commit(h) \/ FenceRequest(h), [Next]_vars
  PROVE  HInv'
  <1> DEFINE id == req[h].id
  <1>1. /\ id \in RequestId /\ req[h].sha \in Digest /\ req[h] \in Locals
        /\ journal[id] \in Request /\ RequestOK(journal[id])
        /\ hpc[h] \in {"commit_any", "commit", "fence_request"} /\ hpc[h] \in HandlePcs
        /\ journal[id].sha = req[h].sha
    <2>1. hpc[h] \in {"commit_any", "commit", "fence_request"}
      BY ZenonT(30) DEF Commit, FenceRequest
    <2>2. QED
      BY ZenonT(30), <2>1, KeyTyped DEF HandlePcs, HInv, BoundAt
  <1>2. pc[h] \notin CallPcs /\ UNCHANGED ledgerVars
    BY ZenonT(30), <1>1 DEF HInv, CallAt, Waiting, Commit, FenceRequest
  <1>3. hpc[h] \in {"commit_any", "commit"} => Holds(KeyOf(h), req[h].receipt) /\ req[h].receipt \in Completion
    <2> SUFFICES ASSUME hpc[h] \in {"commit_any", "commit"}
                 PROVE  Holds(KeyOf(h), req[h].receipt) /\ req[h].receipt \in Completion
      BY ZenonT(30)
    <2>1. Holds(KeyOf(h), req[h].receipt)
      BY ZenonT(30) DEF HInv, CallAt
    <2>2. KeyOf(h) \in Key /\ RowsOK
      BY ZenonT(30), <1>1, KeyTyped DEF HInv, IInv, TInv
    <2>3. QED
      BY ZenonT(30), <2>1, <2>2, RowFacts DEF Holds
  <1>4. PICK receipt \in Completion \cup {None}, answer \in Answers : Finish(h, answer, receipt)
    BY ZenonT(30), <1>1, <1>3 DEF Commit, FenceRequest, Answers
  <1>5. CASE UNCHANGED journal
    BY <1>2, <1>4, <1>5, HelperEnds
  <1>6. CASE Commit(h) /\ ~UNCHANGED journal
    <2> DEFINE row == [journal[id] EXCEPT !.state = "completed", !.owner = None, !.lease = 0,
                                          !.receipt = req[h].receipt]
    <2>1. /\ SetRequest(id, row) /\ journal[id].state \in {"pending", "failed_unknown"}
          /\ hpc[h] \in {"commit_any", "commit"}
      BY <1>6 DEF Commit, CompleteRequest
    <2>2. /\ row \in Request /\ RequestOK(row) /\ row.state = "completed"
          /\ row.sha = req[h].sha /\ row.receipt = req[h].receipt
      BY ZenonT(30), <1>1, <1>3, <2>1, JournalAssumption, HelperAssumption DEF Request, RequestOK, JournalStates
    <2> HIDE DEF row
    <2>3. /\ hpc' \in [Attempt -> HandlePcs \cup {"idle", "done", "down"}] /\ req' \in [Attempt -> Locals]
          /\ hpc'[h] = "done"
          /\ \A b \in Attempt \ {h} : hpc'[b] = hpc[b] /\ req'[b] = req[b]
      BY ZenonT(30), <1>4, FinishOK DEF HInv
    <2>4. req'[h].id = id /\ req'[h].sha = req[h].sha
      BY <1>4 DEF Finish, NoLocals, HInv, HelperTypes
    <2>5. QED
      BY ZenonT(30), <1>1, <1>2, <1>3, <2>1, <2>2, <2>3, <2>4, HelperWrites
  <1>7. CASE FenceRequest(h) /\ ~UNCHANGED journal
    <2> DEFINE row == [journal[id] EXCEPT !.state = "failed_unknown", !.owner = None, !.lease = 0]
    <2>1. SetRequest(id, row) /\ journal[id].state = "pending"
      BY <1>7 DEF FenceRequest, MarkFailedUnknown
    <2>2. row \in Request /\ RequestOK(row) /\ row.state = "failed_unknown" /\ row.sha = req[h].sha
      BY ZenonT(30), <1>1, <2>1, JournalAssumption DEF Request, RequestOK, JournalStates
    <2> HIDE DEF row
    <2>3. /\ hpc' \in [Attempt -> HandlePcs \cup {"idle", "done", "down"}] /\ req' \in [Attempt -> Locals]
          /\ hpc'[h] = "done"
          /\ \A b \in Attempt \ {h} : hpc'[b] = hpc[b] /\ req'[b] = req[b]
      BY ZenonT(30), <1>4, FinishOK DEF HInv
    <2>4. req'[h].id = id /\ req'[h].sha = req[h].sha
      BY <1>4 DEF Finish, NoLocals, HInv, HelperTypes
    <2>5. QED
      BY ZenonT(30), <1>1, <1>2, <2>1, <2>2, <2>3, <2>4, HelperWrites
  <1>8. QED
    BY <1>5, <1>6, <1>7

\* reserve finds a row that it does not acquire.
LEMMA HelperReads ==
  ASSUME HInv, NEW h \in Attempt, ReadReservation(h), [Next]_vars
  PROVE  HInv'
  <1> DEFINE record == journal[req[h].id]
  <1>1. /\ req[h] \in Locals /\ req[h].id \in RequestId /\ req[h].sha \in Digest
        /\ record \in Request /\ RequestOK(record) /\ hpc[h] = "reserve"
    BY ZenonT(30), KeyTyped DEF ReadReservation, HandlePcs
  <1>2. pc[h] \notin CallPcs /\ UNCHANGED ledgerVars /\ UNCHANGED journal /\ record.sha = req[h].sha
    BY ZenonT(30), <1>1 DEF HInv, CallAt, Waiting, ReadReservation, ReserveRead
  <1>3. CASE record.state = "completed" /\ Finish(h, "receipt", record.receipt)
    <2>1. record.receipt \in Completion \cup {None} /\ "receipt" \in Answers
      BY <1>1, HelperAssumption DEF Request, Answers
    <2>2. QED
      BY ZenonT(30), <1>2, <1>3, <2>1, HelperEnds
  <1>4. CASE Finish(h, "in_progress", None)
    BY ZenonT(30), <1>2, <1>4, HelperEnds DEF Answers
  <1>5. CASE /\ record.state = "failed_unknown" /\ hpc' = [hpc EXCEPT ![h] = "fenced"]
             /\ req' = [req EXCEPT ![h] = [@ EXCEPT !.gen = record.gen]]
    <2> DEFINE l == [req[h] EXCEPT !.gen = record.gen]
    <2>1. l \in Locals /\ l.id = req[h].id /\ l.sha = req[h].sha
      BY <1>1 DEF Locals, Request
    <2>2. req' = [req EXCEPT ![h] = l]
      BY <1>5
    <2> HIDE DEF l
    <2>3. /\ hpc' \in [Attempt -> HandlePcs \cup {"idle", "done", "down"}] /\ req' \in [Attempt -> Locals]
          /\ hpc'[h] = "fenced" /\ req'[h] = l
          /\ \A b \in Attempt \ {h} : hpc'[b] = hpc[b] /\ req'[b] = req[b]
      BY ZenonT(30), <1>5, <2>1, <2>2 DEF HInv, HelperTypes, HandlePcs
    <2>4. BoundAt(h)' /\ CallAt(h)'
      BY ZenonT(30), <1>1, <1>2, <1>5, <2>1, <2>3 DEF BoundAt, CallAt, Waiting, HandlePcs
    <2>5. QED
      BY ZenonT(30), <1>2, <2>3, <2>4, HelperLocal DEF Keeps
  <1>6. QED
    BY ZenonT(30), <1>3, <1>4, <1>5 DEF ReadReservation

\* The executor's answer is in.
LEMMA HelperHears ==
  ASSUME HInv, NEW h \in Attempt, Consulted(h) \/ Executed(h) \/ PostReconciled(h), [Next]_vars
  PROVE  HInv'
  <1>1. /\ hpc[h] \in Waiting /\ hpc[h] \in HandlePcs \ {"reserve"}
        /\ pc[h] = "returned" /\ pc[h] \notin CallPcs
    BY ZenonT(30) DEF Consulted, Executed, PostReconciled, Returned, Waiting, HandlePcs, CallPcs
  <1>2. frame[h].done \in Completion \cup {None} /\ None \in Completion \cup {None}
    BY DEF HInv, IInv, TInv, ControlOK, Frame
  <1>3. Returned(h, "completion") => Holds(KeyOf(h), frame[h].done)
    BY ZenonT(30), <1>1 DEF Returned, HInv, CallAt
  <1>4. ASSUME NEW where \in HandlePcs \ (Waiting \cup {"reserve", "commit", "commit_any"}),
               Continue(h, where), UNCHANGED <<vars, journal>>
        PROVE  HInv'
    BY ZenonT(30), <1>1, <1>2, <1>4, HelperGoesOn
  <1>5. ASSUME NEW where \in {"commit", "commit_any"}, ContinueWith(h, where, frame[h].done),
               Returned(h, "completion"), UNCHANGED <<vars, journal>>
        PROVE  HInv'
    <2>1. where \in HandlePcs \ (Waiting \cup {"reserve"})
      BY DEF HandlePcs, Waiting
    <2>2. QED
      BY ZenonT(30), <1>1, <1>2, <1>3, <1>5, <2>1, HelperGoesOn
  <1>6. ASSUME NEW answer \in Answers, Finish(h, answer, None), UNCHANGED <<vars, journal>>
        PROVE  HInv'
    BY ZenonT(30), <1>1, <1>2, <1>6, HelperEnds DEF vars
  <1>7. CASE Consulted(h)
    BY ZenonT(30), <1>4, <1>5, <1>6, <1>7 DEF Consulted, HandlePcs, Waiting, Answers
  <1>8. CASE PostReconciled(h)
    BY ZenonT(30), <1>4, <1>5, <1>8 DEF PostReconciled, HandlePcs, Waiting
  <1>9. CASE Executed(h)
    <2>1. CASE Continue(h, "post") /\ CallReconcile(h, KeyOf(h)) /\ UNCHANGED journal
      <3>1. "post" \in Waiting /\ hpc' = [hpc EXCEPT ![h] = "post"] /\ req' = req
        BY ZenonT(30), <2>1 DEF Waiting, Continue
      <3>2. QED
        BY ZenonT(30), <1>1, <2>1, <3>1, HelperStarts DEF HInv, HelperTypes
    <2>2. QED
      BY ZenonT(30), <1>5, <1>6, <1>9, <2>1 DEF Executed, Answers
  <1>10. QED
    BY <1>7, <1>8, <1>9

LEMMA HelperHandles ==
  ASSUME HInv, NEW h \in Attempt, HandleStep(h), [Next]_vars
  PROVE  HInv'
  <1>1. CASE RefuseReservation(h) \/ DenyDispatch(h) \/ JournalFails(h)
    <2>1. pc[h] \notin CallPcs /\ UNCHANGED <<vars, journal>>
      BY ZenonT(30), <1>1 DEF HInv, CallAt, Waiting, RefuseReservation, DenyDispatch, JournalFails
    <2>2. \E answer \in Answers : Finish(h, answer, None)
      BY <1>1 DEF RefuseReservation, DenyDispatch, JournalFails, Answers
    <2>3. QED
      BY <2>1, <2>2, HelperEnds DEF vars
  <1>2. CASE Consult(h)
    <2>1. /\ hpc[h] \in HandlePcs \ {"reserve"} /\ req' = req /\ UNCHANGED journal
          /\ CallReconcile(h, KeyOf(h))
      BY <1>2 DEF Consult, Continue, HandlePcs
    <2>2. \E where \in Waiting : hpc' = [hpc EXCEPT ![h] = where]
      BY <1>2 DEF Consult, Continue, Waiting
    <2>3. QED
      BY ZenonT(30), <2>1, <2>2, HelperStarts DEF HInv, HelperTypes
  <1>3. ASSUME NEW e \in Evidence, Dispatch(h, e) PROVE HInv'
    <2> DEFINE l == [req[h] EXCEPT !.ev = e]
    <2>1. /\ hpc[h] \in HandlePcs \ {"reserve"} /\ UNCHANGED journal /\ "execute" \in Waiting
          /\ CallExecute(h, KeyOf(h), e) /\ hpc' = [hpc EXCEPT ![h] = "execute"]
          /\ req' = [req EXCEPT ![h] = l]
      BY <1>3 DEF Dispatch, HandlePcs, Waiting
    <2>2. l \in Locals /\ l.id = req[h].id /\ l.sha = req[h].sha
      BY <2>1, KeyTyped DEF Locals
    <2> HIDE DEF l
    <2>3. /\ req' \in [Attempt -> Locals] /\ req'[h] = l
          /\ \A b \in Attempt \ {h} : req'[b] = req[b]
      BY ZenonT(30), <2>1, <2>2 DEF HInv, HelperTypes
    <2>4. QED
      BY ZenonT(30), <2>1, <2>2, <2>3, HelperStarts
  <1>4. QED
    BY ZenonT(30), <1>1, <1>2, <1>3, HelperReserves, HelperReads, HelperHears, HelperCommits DEF HandleStep

LEMMA HelperDies ==
  ASSUME HInv, NEW h \in Attempt, HelperCrash(h), [Next]_vars
  PROVE  HInv'
  <1>1. /\ pc'[h] = "down" /\ (\A b \in Attempt \ {h} : pc'[b] = pc[b] /\ frame'[b] = frame[b])
        /\ UNCHANGED <<entered, journal>>
    BY ZenonT(30) DEF HelperCrash, Crash, HInv, IInv, TInv, ControlOK
  <1>2. NoLocals \in Locals
    BY ZenonT(30), TimeAssumption DEF NoLocals, Locals, Answers
  <1>3. /\ hpc' \in [Attempt -> HandlePcs \cup {"idle", "done", "down"}] /\ req' \in [Attempt -> Locals]
        /\ hpc'[h] = "down"
        /\ \A b \in Attempt \ {h} : hpc'[b] = hpc[b] /\ req'[b] = req[b]
    BY <1>2 DEF HelperCrash, HInv, HelperTypes
  <1>4. BoundAt(h)' /\ CallAt(h)'
    BY ZenonT(30), <1>1, <1>3 DEF BoundAt, CallAt, CallPcs, Waiting, HandlePcs
  <1>5. QED
    BY ZenonT(30), <1>1, <1>3, <1>4, HelperLocal DEF Keeps

LEMMA HelperStep == HInv /\ [HelperNext]_allVars => HInv'
  <1> SUFFICES ASSUME HInv, [HelperNext]_allVars PROVE HInv'
    OBVIOUS
  <1>1. [Next]_vars
    BY HelperUsesLedger
  <1>2. CASE UNCHANGED <<ledgerVars, helperVars>>
    <2>1. IInv'
      BY <1>1, SafetyStep DEF HInv
    <2>2. HelperTypes' /\ \A h \in Attempt : BoundAt(h)' /\ CallAt(h)'
      BY ZenonT(30), <1>2 DEF HInv, HelperTypes, BoundAt, CallAt, Holds, KeyOf, helperVars
    <2>3. ReceiptIsTheLedgers' /\ EffectIsJournalled'
      BY ZenonT(30), <1>2 DEF HInv, ReceiptIsTheLedgers, EffectIsJournalled, helperVars
    <2>4. QED
      BY <2>1, <2>2, <2>3 DEF HInv
  <1>3. CASE \E e \in Evidence \ revoked : Revoke(e) /\ UNCHANGED helperVars
    <2>1. IInv'
      BY <1>1, SafetyStep DEF HInv
    <2>2. HelperTypes' /\ \A h \in Attempt : BoundAt(h)' /\ CallAt(h)'
      BY ZenonT(30), <1>3 DEF HInv, HelperTypes, BoundAt, CallAt, Holds, KeyOf, helperVars, Revoke
    <2>3. ReceiptIsTheLedgers' /\ EffectIsJournalled'
      BY ZenonT(30), <1>3 DEF HInv, ReceiptIsTheLedgers, EffectIsJournalled, helperVars, Revoke
    <2>4. QED
      BY <2>1, <2>2, <2>3 DEF HInv
  <1>4. CASE HelperEnvironment
    BY <1>2, <1>3, <1>4 DEF HelperEnvironment, Environment
  <1>5. CASE UNCHANGED allVars
    BY <1>2, <1>5 DEF allVars, vars
  <1>6. QED
    BY ZenonT(30), <1>1, <1>4, <1>5, HelperArrive, HelperHandles, HelperCall, HelperDies DEF HelperNext

\* The helper never takes the ledger where its own callers could not: the inductive invariant
\* of the two together.
THEOREM HelperSafety == HelperSpec => []HInv
  <1>1. HelperInit => HInv
    <2> SUFFICES ASSUME HelperInit PROVE HInv
      OBVIOUS
    <2>1. IInv
      BY TypeInit, SafetyInit DEF HelperInit, IInv
    <2>2. NoRequest \in Request /\ RequestOK(NoRequest) /\ NoLocals \in Locals
      BY TimeAssumption DEF NoRequest, Request, RequestOK, NoLocals, Locals, Answers, JournalStates
    <2>3. HelperTypes
      BY <2>2 DEF HelperInit, JournalInit, HelperTypes
    <2>4. \A h \in Attempt : BoundAt(h) /\ CallAt(h)
      BY ZenonT(30) DEF HelperInit, Init, LedgerInit, BoundAt, CallAt, HandlePcs, CallPcs, Waiting
    <2>5. ReceiptIsTheLedgers
      BY ZenonT(30) DEF HelperInit, JournalInit, NoRequest, ReceiptIsTheLedgers
    <2>6. EffectIsJournalled
      <3>1. \A k \in Key : entered[k] = 0
        BY ZenonT(30) DEF HelperInit, Init, LedgerInit
      <3>2. \A id \in RequestId, sha \in Digest : <<id, sha>> \in Key
        BY HelperAssumption
      <3> QED
        BY ZenonT(30), <3>1, <3>2, Generations DEF EffectIsJournalled
    <2>7. QED
      BY <2>1, <2>3, <2>4, <2>5, <2>6 DEF HInv
  <1>2. QED
    BY <1>1, HelperStep, PTL DEF HelperSpec

\* Every receipt in the request journal is the completion that the effect ledger holds for
\* the request's key, whichever of the four paths through handle wrote it.
THEOREM ReceiptIsTheLedgersHolds == HelperSpec => []ReceiptIsTheLedgers
  BY HelperSafety, PTL DEF HInv

\* No adapter is entered but for a journalled request, under the digest its id is bound to.
THEOREM EffectIsJournalledHolds == HelperSpec => []EffectIsJournalled
  BY HelperSafety, PTL DEF HInv
=============================================================================
