------------------------------ MODULE MCEffects ------------------------------
(* Small instances for TLC of the effect ledger, called by anybody, and of *)
(* the privileged helper that calls it: `part' says which.                 *)
EXTENDS PrivilegedHelper, TLC

CONSTANTS h1, h2, r1, d1, d2, e1, e2, e3

VARIABLE part

mcVars == <<part, allVars>>

\* The reservation lease is one instant long.
Instants == 0..1

OneDigest == {r1} \X {d1}
TwoDigests == {r1} \X {d1, d2}

\* e1 and e2 are two authorizations of the same request semantics, e3 is bound to other
\* devices.
TwoKinds(e) == IF e = e3 THEN "other" ELSE "same"

\* The ledger's callers act on the effect of one request, which the journal holds, fenced by
\* an earlier attempt.
Fenced == [NoRequest EXCEPT !.state = "failed_unknown", !.sha = d1, !.gen = 1]

MCInit ==
    /\ part \in {"ledger", "helper"}
    /\ Init
    /\ journal = [id \in RequestId |-> IF part = "ledger" THEN Fenced ELSE NoRequest]
    /\ hpc = [h \in Attempt |-> "idle"] /\ req = [h \in Attempt |-> NoLocals]

\* Any attempt executes and reconciles, with any of the three authorizations.
LedgerNext ==
    /\ part = "ledger" /\ Next
    /\ \A a \in Attempt : frame'[a].key \in OneDigest \cup {None}
    /\ UNCHANGED <<part, helperVars>>

\* The helper's requests are authorized by the first two.
HandleNext ==
    /\ part = "helper" /\ HelperNext
    /\ e3 \notin revoked' /\ \A h \in Attempt : req'[h].ev # e3
    /\ UNCHANGED part

MCNext == LedgerNext \/ HandleNext
MCSpec == MCInit /\ [][MCNext]_mcVars

\* The helper alone.
HelperAlone == MCInit /\ part = "helper" /\ [][HandleNext]_mcVars

Symmetry == Permutations({h1, h2}) \cup Permutations({e1, e2})
Attempts == Permutations({h1, h2})
=============================================================================
