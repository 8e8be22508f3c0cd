---------------------------- MODULE MCWorkflow ----------------------------
(* Small instances for TLC of the artifact catalog and of the two kinds    *)
(* of run that publish in it, the signed graphs and the invoices.  Each    *)
(* runs by itself: `part' says which.                                      *)
EXTENDS ArtifactCatalog

CONSTANTS a, w1, w2, r1, p1, MaxEpoch, MaxAge, Invoice, Absent

VARIABLES part,
          domain, domains, published, at, task, armed, granted, owned, late, age,
          inv, invs, written, invAt, call, checked, entitled, sameOwner, unfenced

\* A run reads and then writes; both runs expect to write the first version of one artifact.
History == INSTANCE WorkflowHistory WITH
    Run <- {w1, w2},
    Node <- {r1, p1},
    Order <- <<r1, p1>>,
    Kind <- [n \in {r1, p1} |-> IF n = r1 THEN "read" ELSE "write"],
    Target <- [w \in {w1, w2} |-> [n \in {p1} |-> [artifact |-> a, expected |-> 0]]],
    disk <- domain, disks <- domains, step <- at, job <- task

Runs == INSTANCE WorkflowRuns WITH receipts <- written

historyVars == <<domain, domains, published, at, task, armed, granted, owned, late, age>>
runsVars == <<inv, invs, written, invAt, call, checked, entitled, sameOwner, unfenced>>
mcVars == <<part, catalogVars, historyVars, runsVars>>

MCInit ==
    /\ part \in {"catalog", "history", "runs"}
    /\ CatalogInit /\ History!HistoryInit /\ Runs!InvoiceInit

MCNext ==
    \/ part = "catalog" /\ CatalogNext /\ UNCHANGED <<part, historyVars, runsVars>>
    \/ part = "history" /\ History!HistoryNext /\ UNCHANGED <<part, catalogVars, runsVars>>
    \/ part = "runs" /\ Runs!InvoiceNext /\ UNCHANGED <<part, catalogVars, historyVars>>

MCSpec == MCInit /\ [][MCNext]_mcVars

\* At most one durable change follows a withdrawal of authority (WorkflowHistory).
RevocationStops == part = "history" => History!RevocationStops

\* An invoice's records and receipts agree at every crash point (WorkflowRuns), and what the run
\* of a graph recorded as published is what the catalog has of it (WorkflowHistory).
InvoiceIsWhole ==
    /\ part = "runs" => Runs!InvoiceIsWhole
    /\ part = "history" => History!PublicationIsRecorded
=============================================================================
