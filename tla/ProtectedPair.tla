--------------------------- MODULE ProtectedPair ---------------------------
(* What the paired resource authority promises the broker that holds it: one value, the pair of
   ledger and request journal, that a session reads as it is when it opens and that changes only
   through the session's own publications.  A publication either takes place and is answered, or
   its session ends; in both cases the next session sees the whole pair as it was left. *)

CONSTANTS Pair, Initial, None

VARIABLES value, session, seen

vars == <<value, session, seen>>

Init == value = Initial /\ session = "closed" /\ seen = None

Open ==
    /\ session = "closed" /\ session' = "open"
    /\ seen' = value /\ UNCHANGED value

Change ==
    /\ session = "open" /\ session' = "unanswered"
    /\ value' \in Pair
    /\ seen' = None

Answer ==
    /\ session = "unanswered" /\ session' = "open"
    /\ seen' = value /\ UNCHANGED value

Close ==
    /\ session # "closed" /\ session' = "closed"
    /\ seen' = None /\ UNCHANGED value

Next == Open \/ Change \/ Answer \/ Close

Spec == Init /\ [][Next]_vars
=============================================================================
