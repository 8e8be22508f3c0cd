------------------------------ MODULE WorkflowRuns ------------------------------
(***************************************************************************)
(* workflow_runs.rs: the durable invoice runs of one principal.  A run is  *)
(* a plan and a chain of checkpoints, whose stages are numbered as in the  *)
(* code: 0 prepared, 1 source-read, 2 calculated, 3 applying, 4 completed, *)
(* 5 cancelled.  Every run of this instance has the same source, and so    *)
(* the same report.  The flock of the domain's root is invAt # "idle".     *)
(***************************************************************************)
EXTENDS Naturals, FiniteSets

CONSTANTS
    Invoice,      \* the requests
    Absent

VARIABLES
    inv,          \* the domain as a reader finds it
    invs,         \* what a power loss can leave of it
    receipts,     \* the receipts of the artifact catalog
    invAt, call,  \* where the process holding the lock is, and its call
    checked,      \* its authority was checked and nothing changed since
    entitled,     \* the grants of the callers are in force
    sameOwner,    \* the plans' owner generation is the current one
    unfenced      \* the runs whose calculation lease still vouches for its output

invWorld == <<entitled, sameOwner, unfenced>>
invoiceVars == <<inv, invs, receipts, invAt, call, checked, entitled, sameOwner, unfenced>>

Stages == 0 .. 5
\* Every invoice asks to write the first version of one artifact.
InvoiceEffect == [request : Invoice, artifact : {"invoice"}, version : {1}]
EffectId(w) == [request |-> w, artifact |-> "invoice", version |-> 1]
InvoiceCatalog == INSTANCE CatalogService WITH
                     Promised <- InvoiceEffect, published <- receipts, told <- {}
Outcome(w) == EffectId(w) \in receipts

InvoiceInit ==
    /\ inv = [domain |-> "absent", stage |-> [w \in Invoice |-> Absent],
              before |-> [w \in Invoice |-> Absent],
              object |-> [o \in {"source", "report"} |-> "none"]]
    /\ invs = {inv}
    /\ receipts = {}
    /\ invAt = "idle" /\ call = Absent /\ checked = FALSE
    /\ entitled = TRUE /\ sameOwner = TRUE /\ unfenced = {}
-----------------------------------------------------------------------------
Prepared(w) == inv.stage[w] # Absent

\* load: the chain is one the stages allow, and the objects it names are there.
LoadInvoice(d, w) ==
    LET s == d.stage[w]
        b == d.before[w]
    IN s # Absent =>
         /\ d.object["source"] = "object"
         /\ \/ s = 0 /\ b = Absent
            \/ s \in 1 .. 4 /\ b = s - 1
            \/ s = 5 /\ b \in 0 .. 2
         /\ s \in 2 .. 4 \/ (s = 5 /\ b = 2) => d.object["report"] = "object"
OpenInvoices(d) == d.domain = "ready" /\ \A w \in Invoice : LoadInvoice(d, w)

\* The owner's calls check the owner's generation as well; a disposition has an
\* authority of its own.  Publishing needs the lease of the calculation.
MayCall(c) ==
    /\ entitled
    /\ c.by = "owner" => sameOwner
    /\ c.op = "advance" /\ c.next = 4 => c.run \in unfenced

NewCall(op, by, w, review, next) == [op |-> op, by |-> by, run |-> w, review |-> review, next |-> next]
TakeCall(s, c) == MayCall(c) /\ invAt' = s /\ call' = c /\ checked' = FALSE
EndCall == invAt' = "idle" /\ call' = Absent /\ checked' = FALSE
At(s) == invAt' = s
UseCheck == checked /\ checked' = FALSE
Alter(d) == inv' = d /\ invs' = invs \cup {d}
SyncRoot == inv' = inv /\ invs' = {inv}

CheckOwner == /\ invAt # "idle" /\ ~checked /\ MayCall(call) /\ checked' = TRUE
              /\ UNCHANGED <<inv, invs, receipts, invAt, call, invWorld>>

\* governed_prepare: the first run creates the domain; a repeated one is answered.
BeginInvoice(w) ==
    /\ invAt = "idle"
    /\ \/ inv.domain = "absent" /\ TakeCall("create", NewCall("prepare", "owner", w, Absent, 0))
       \/ /\ OpenInvoices(inv) /\ ~Prepared(w)
          /\ TakeCall("put", NewCall("prepare", "owner", w, Absent, 0))
    /\ UNCHANGED <<inv, invs, receipts, invWorld>>
PreparedAgain(w) ==
    /\ invAt = "idle" /\ OpenInvoices(inv) /\ Prepared(w)
    /\ MayCall(NewCall("prepare", "owner", w, Absent, 0))
    /\ SyncRoot /\ UNCHANGED <<receipts, invAt, call, checked, invWorld>>

\* initialize_domain: the directory is there before what makes it a domain.
InitializeDomain ==
    /\ invAt = "create" /\ UseCheck
    /\ Alter([inv EXCEPT !.domain = "partial"])
    /\ At("creating") /\ UNCHANGED <<receipts, call, invWorld>>
InitializedDomain ==
    /\ invAt = "creating"
    /\ inv' = [inv EXCEPT !.domain = "ready"] /\ invs' = {inv'}
    /\ At("put") /\ UNCHANGED <<receipts, call, checked, invWorld>>

\* put_object, of the source by prepare and of the report by the calculation.
Bytes == IF call.op = "prepare" THEN "source" ELSE "report"
WriteMember ==
    /\ invAt = "put" /\ inv.object[Bytes] = "none" /\ UseCheck
    /\ Alter([inv EXCEPT !.object[Bytes] = "torn"])
    /\ At("writing") /\ UNCHANGED <<receipts, call, invWorld>>
SyncPending ==
    /\ invAt = "writing"
    /\ inv' = [inv EXCEPT !.object[Bytes] = "pending"] /\ invs' = {inv'}
    /\ At("put") /\ UNCHANGED <<receipts, call, checked, invWorld>>
RenameObject ==
    /\ invAt = "put" /\ inv.object[Bytes] = "pending" /\ UseCheck
    /\ LET renamed == [inv EXCEPT !.object[Bytes] = "object"]
       IN inv' = renamed /\ invs' = {inv, renamed}
    /\ At("put") /\ UNCHANGED <<receipts, call, invWorld>>
\* An object that is there is synced again: the call that renamed it may not have.
SyncObjects ==
    /\ invAt = "put" /\ inv.object[Bytes] = "object" /\ SyncRoot
    /\ At("commit") /\ UNCHANGED <<receipts, call, checked, invWorld>>

\* transition: compare, update, insert, check, sync, check, commit.
Transition(next) ==
    /\ UseCheck
    /\ inv' = [inv EXCEPT !.stage[call.run] = next, !.before[call.run] = inv.stage[call.run]]
    /\ invs' = {inv'}
    /\ unfenced' = IF next = 2 THEN unfenced \cup {call.run} ELSE unfenced
-----------------------------------------------------------------------------
(* advance_traced.                                                         *)

\* The review is of the current checkpoint, of the one before it, or of the
\* calculated one of a completed run.
Reviewed(w, review) ==
    \/ review = inv.stage[w]
    \/ inv.stage[w] \in 1 .. 4 /\ review = inv.before[w]
    \/ inv.stage[w] = 4 /\ review = 2
\* A lost acknowledgement must not advance an additional node.
LostAnswer(w, review) == review # inv.stage[w] /\ inv.stage[w] < 3

FirstAt(s) == CASE s = 1 -> "put" [] s = 3 -> "publish" [] OTHER -> "commit"
AdvanceInvoice(w, review) ==
    /\ invAt = "idle" /\ OpenInvoices(inv) /\ Prepared(w)
    /\ Reviewed(w, review) /\ ~LostAnswer(w, review) /\ inv.stage[w] < 4
    /\ TakeCall(FirstAt(inv.stage[w]), NewCall("advance", "owner", w, review, inv.stage[w] + 1))
    /\ UNCHANGED <<inv, invs, receipts, invWorld>>
\* The answer to a lost acknowledgement, and the replay of a completed publication.
AdvancedAgain(w, review) ==
    /\ invAt = "idle" /\ OpenInvoices(inv) /\ Prepared(w)
    /\ Reviewed(w, review)
    /\ LostAnswer(w, review) \/ (inv.stage[w] = 4 /\ Outcome(w))
    /\ MayCall(NewCall("advance", "owner", w, review, Absent))
    /\ SyncRoot /\ UNCHANGED <<receipts, invAt, call, checked, invWorld>>

CommitStage ==
    /\ invAt = "commit" /\ Transition(call.next)
    /\ IF call.op = "advance" /\ call.next = 3
       THEN At("publish") /\ call' = [call EXCEPT !.next = 4]
       ELSE At("answer") /\ UNCHANGED call
    /\ UNCHANGED <<receipts, entitled, sameOwner>>

\* finish: the applying checkpoint is durable before the catalog is asked.
PublishInvoice ==
    /\ invAt = "publish" /\ UseCheck
    /\ Outcome(call.run) \/ InvoiceCatalog!Fresh(EffectId(call.run))
    /\ receipts' = receipts \cup {EffectId(call.run)}
    /\ At("commit") /\ UNCHANGED <<inv, invs, call, invWorld>>
AnswerCall ==
    /\ invAt = "answer" /\ MayCall(call) /\ EndCall
    /\ UNCHANGED <<inv, invs, receipts, invWorld>>

CancelAllowed_Applying(s) == s < 4
\* An outcome may be committed from the applying stage on.
CancelAllowed(s) == s < 3
CancelInvoice(w, review, by) ==
    /\ invAt = "idle" /\ OpenInvoices(inv) /\ Prepared(w)
    /\ review = inv.stage[w] /\ CancelAllowed(inv.stage[w])
    /\ TakeCall("commit", NewCall("cancel", by, w, review, 5))
    /\ UNCHANGED <<inv, invs, receipts, invWorld>>
CancelledAgain(w, review, by) ==
    /\ invAt = "idle" /\ OpenInvoices(inv) /\ inv.stage[w] = 5
    /\ review \in {5, inv.before[w]}
    /\ MayCall(NewCall("cancel", by, w, review, Absent))
    /\ SyncRoot /\ UNCHANGED <<receipts, invAt, call, checked, invWorld>>

\* acknowledge_traced: the receipt alone proves the outcome, whatever became of
\* the lease; a completed run is answered again.
Acknowledge(w, by) ==
    /\ invAt = "idle" /\ OpenInvoices(inv) /\ inv.stage[w] = 3 /\ Outcome(w)
    /\ TakeCall("commit", NewCall("acknowledge", by, w, 3, 4))
    /\ UNCHANGED <<inv, invs, receipts, invWorld>>
AcknowledgedAgain(w, by) ==
    /\ invAt = "idle" /\ OpenInvoices(inv) /\ inv.stage[w] = 4 /\ Outcome(w)
    /\ MayCall(NewCall("acknowledge", by, w, 3, Absent))
    /\ SyncRoot /\ UNCHANGED <<receipts, invAt, call, checked, invWorld>>
-----------------------------------------------------------------------------
Withdraw == /\ entitled' = ~entitled
            /\ UNCHANGED <<inv, invs, receipts, invAt, call, checked, sameOwner, unfenced>>
NextOwner == /\ sameOwner /\ sameOwner' = FALSE
             /\ UNCHANGED <<inv, invs, receipts, invAt, call, checked, entitled, unfenced>>
FenceOutput(w) == /\ w \in unfenced /\ unfenced' = unfenced \ {w}
                  /\ UNCHANGED <<inv, invs, receipts, invAt, call, checked, entitled, sameOwner>>
\* A check refuses, an operation fails or the process dies.
StopCall == invAt # "idle" /\ EndCall /\ UNCHANGED <<inv, invs, receipts, invWorld>>
LosePower == /\ inv' \in invs /\ invs' = {inv'} /\ EndCall /\ UNCHANGED <<receipts, invWorld>>

InvoiceNext ==
    \/ \E w \in Invoice :
          \/ BeginInvoice(w) \/ PreparedAgain(w) \/ FenceOutput(w)
          \/ \E review \in Stages : AdvanceInvoice(w, review) \/ AdvancedAgain(w, review)
          \/ \E by \in {"owner", "recovery"} :
                \/ \E review \in Stages : CancelInvoice(w, review, by) \/ CancelledAgain(w, review, by)
                \/ Acknowledge(w, by) \/ AcknowledgedAgain(w, by)
    \/ CheckOwner \/ InitializeDomain \/ InitializedDomain
    \/ WriteMember \/ SyncPending \/ RenameObject \/ SyncObjects
    \/ CommitStage \/ PublishInvoice \/ AnswerCall
    \/ Withdraw \/ NextOwner \/ StopCall \/ LosePower

InvoiceSpec == InvoiceInit /\ [][InvoiceNext]_invoiceVars
-----------------------------------------------------------------------------
\* Whatever a power loss leaves, every invoice run loads; a completed run has its
\* receipt in the catalog, and one that is cancelled or has not durably declared
\* that it is applying has none.
InvoiceIsWhole ==
    \A d \in invs : d.domain = "ready" =>
       /\ OpenInvoices(d)
       /\ \A w \in Invoice : /\ d.stage[w] = 4 => Outcome(w)
                             /\ Outcome(w) => d.stage[w] \in {3, 4}

=============================================================================
