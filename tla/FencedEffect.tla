---------------------------- MODULE FencedEffect ----------------------------
(***************************************************************************)
(* What the durable effect ledger promises its callers, with no clock,     *)
(* owners, generations or attempts.  Each key is open until some caller    *)
(* fences it.  A fence can be lifted only while the adapter is still       *)
(* outside.  Under a fence the adapter is entered at most once, and the    *)
(* key is settled only for an effect that took place, with the evidence    *)
(* the adapter was entered with.  A settled key stays as it is.            *)
(***************************************************************************)
CONSTANTS Key, Evidence, Outcome, None

VARIABLES
    phase,        \* "open", "fenced" or "settled"
    entry,        \* evidence the adapter was entered with, or None
    took,         \* whether the host effect took place
    answer        \* the settled (evidence, outcome), or None

vars == <<phase, entry, took, answer>>

Init ==
    /\ phase = [k \in Key |-> "open"]
    /\ entry = [k \in Key |-> None]
    /\ took = [k \in Key |-> FALSE]
    /\ answer = [k \in Key |-> None]

Fence(k) ==
    /\ phase[k] = "open"
    /\ phase' = [phase EXCEPT ![k] = "fenced"]
    /\ UNCHANGED <<entry, took, answer>>

Lift(k) ==
    /\ phase[k] = "fenced" /\ entry[k] = None
    /\ phase' = [phase EXCEPT ![k] = "open"]
    /\ UNCHANGED <<entry, took, answer>>

Enter(k, e) ==
    /\ phase[k] = "fenced" /\ entry[k] = None
    /\ entry' = [entry EXCEPT ![k] = e]
    /\ UNCHANGED <<phase, took, answer>>

TakePlace(k) ==
    /\ entry[k] # None
    /\ took' = [took EXCEPT ![k] = TRUE]
    /\ UNCHANGED <<phase, entry, answer>>

Settle(k, o) ==
    /\ phase[k] = "fenced" /\ took[k]
    /\ phase' = [phase EXCEPT ![k] = "settled"]
    /\ answer' = [answer EXCEPT ![k] = [ev |-> entry[k], out |-> o]]
    /\ UNCHANGED <<entry, took>>

Next ==
    \E k \in Key :
        \/ Fence(k) \/ Lift(k) \/ TakePlace(k)
        \/ \E e \in Evidence : Enter(k, e)
        \/ \E o \in Outcome : Settle(k, o)

Spec == Init /\ [][Next]_vars
=============================================================================
