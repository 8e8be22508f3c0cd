--------------------------- MODULE GovernedOperation ---------------------------
(***************************************************************************)
(* The governed operations of admin_governance.rs and the evidence that    *)
(* policy_decisions.rs keeps of them.  An operation opens its record, logs *)
(* its principal in, and checks its grants around every effect.  Each      *)
(* check reads the catalog under the writer's lock, which it gives up in   *)
(* between: the catalog can change before any step.  The order of an       *)
(* operation's records is not stored; it is the order they were made in.   *)
(***************************************************************************)
EXTENDS Naturals, Sequences, FiniteSets

CONSTANTS
    Operation,
    Retaining,    \* the operations that only retain evidence
    Scope,        \* the grants an operation uses
    MaxHead,      \* bound on the changes of the catalog
    MaxEpoch,     \* bound on the changes of the credentials
    MaxEffects,   \* bound on the effects of an operation
    MaxBlocks,    \* bound on the parts of one effect
    MaxRecords, Reserve

VARIABLES
    gov,          \* the catalog: its head and the scopes it grants
    epoch,        \* the password epoch of the principal
    within,       \* protected time is within the grants' validity
    policy,       \* the durable records of each operation
    op,           \* where the process of each operation is
    withdrawn,    \* how many records each had when its authority was withdrawn
    late          \* the parts of effects it has had since

govWorld == <<gov, epoch, within>>
govGhosts == <<withdrawn, late>>
governedVars == <<gov, epoch, within, policy, op, withdrawn, late>>

NoBind == [head |-> 0, epoch |-> 0]
Idle == [pc |-> "idle", ret |-> "none", bind |-> NoBind, allow |-> FALSE, todo |-> {},
         pending |-> 0, blocks |-> 0, effects |-> 0, first |-> TRUE, terms |-> 0]

GovernedInit ==
    /\ gov = [head |-> 1, granted |-> Scope]
    /\ epoch = 1 /\ within = TRUE
    /\ policy = [o \in Operation |-> <<>>]
    /\ op = [o \in Operation |-> Idle]
    /\ withdrawn = [o \in Operation |-> 0]
    /\ late = [o \in Operation |-> 0]
-----------------------------------------------------------------------------
(* The records, and the store that keeps them.                             *)
Started == [kind |-> "started"]
Decided(s, allow) == [kind |-> "decision", scope |-> s, allow |-> allow]
Begun(n) == [kind |-> "begun", effect |-> n]
Ended(n, outcome) == [kind |-> "ended", effect |-> n, outcome |-> outcome]
Finished(outcome) == [kind |-> "finished", outcome |-> outcome]

Denies(s) == \E i \in DOMAIN s : s[i].kind = "decision" /\ ~s[i].allow
Ends(s, n) == {i \in DOMAIN s : s[i].kind = "ended" /\ s[i].effect = n}

\* validate_record_links, of one operation
ValidLinks(s) ==
    /\ Cardinality({i \in DOMAIN s : s[i].kind = "started"}) = 1
    /\ Cardinality({i \in DOMAIN s : s[i].kind = "finished"}) <= 1
    /\ \A i \in DOMAIN s :
         /\ s[i].kind = "ended" => /\ \E j \in DOMAIN s : s[j] = Begun(s[i].effect)
                                   /\ Cardinality(Ends(s, s[i].effect)) = 1
         /\ s[i].kind = "begun" => \A c \in Scope : \E j \in DOMAIN s : s[j] = Decided(c, TRUE)
    /\ (\E i \in DOMAIN s : s[i] = Finished("completed")) =>
         /\ ~Denies(s)
         /\ \A i \in DOMAIN s : s[i].kind = "begun" =>
              \E j \in Ends(s, s[i].effect) : s[j].outcome = "completed"

\* write: ordinary records leave the reserve to terminal ones and denials.
Total == LET Count[S \in SUBSET Operation] ==
               IF S = {} THEN 0
               ELSE LET o == CHOOSE x \in S : TRUE IN Len(policy[o]) + Count[S \ {o}]
         IN Count[Operation]

Terminal(r) == r.kind \in {"ended", "finished"} \/ (r.kind = "decision" /\ ~r.allow)
HasRoom(o, r) ==
    Total + 1 <= IF o \in Retaining \/ Terminal(r) THEN MaxRecords ELSE MaxRecords - Reserve

\* append: the record is made durable, or refused, or an error hides which.
AppendRecord(o, r) ==
    /\ HasRoom(o, r) /\ ValidLinks(Append(policy[o], r))
    /\ policy' = [policy EXCEPT ![o] = Append(@, r)]
AppendFails(o, r) == UNCHANGED policy \/ AppendRecord(o, r)
-----------------------------------------------------------------------------
Enter(o, pc) == op' = [op EXCEPT ![o].pc = pc]
\* check: fence, then come back to ret only when every capture has allowed it.
CheckThen(o, f, ret) == op' = [op EXCEPT ![o] = [f EXCEPT !.pc = "capture", !.ret = ret]]
Deny(o) == op' = [op EXCEPT ![o].pc = "deny", ![o].todo = Scope]

\* Operation::begin
Begin(o) ==
    /\ op[o].pc = "idle"
    /\ \/ AppendRecord(o, Started) /\ Enter(o, "prepare")
       \/ AppendFails(o, Started) /\ Enter(o, "done")
    /\ UNCHANGED <<govWorld, govGhosts>>

\* replay: the authority of a principal is the head of the journal and the
\* credential and password day that the catalog has for them.
Replay == [head |-> gov.head, epoch |-> epoch]

\* PrincipalLogin::prepare reads the authority that PAM must not outlive.
PrepareLogin(o) ==
    /\ op[o].pc = "prepare"
    /\ \/ op' = [op EXCEPT ![o].pc = "pam", ![o].bind = Replay]
       \/ Deny(o)
    /\ UNCHANGED <<govWorld, policy, govGhosts>>

\* A refused authentication is recorded, and then the missing principal is too.
Authenticate(o) ==
    /\ op[o].pc = "pam"
    /\ \/ Enter(o, "issue")
       \/ op' = [op EXCEPT ![o].pc = "deny", ![o].todo = Scope, ![o].terms = 1]
    /\ UNCHANGED <<govWorld, policy, govGhosts>>

\* read_account: what was read before PAM is what is there after it.
Unchanged(o) == op[o].bind = Replay
NewSession(o) ==
    /\ op[o].pc = "issue"
    /\ \/ Unchanged(o) /\ CheckThen(o, op[o], "body")
       \/ Deny(o)                              \* or the time client is not there
    /\ UNCHANGED <<govWorld, policy, govGhosts>>
-----------------------------------------------------------------------------
(* The boundary.                                                           *)
\* capture_with_reader and evaluate: the session's binding is still the
\* authority's, and the grants, judged at protected time, allow the scopes.
Captures(o) == Unchanged(o)
Allowed == within /\ gov.granted = Scope

Capture(o) ==
    /\ op[o].pc = "capture"
    /\ \/ /\ Captures(o)
          /\ op' = [op EXCEPT ![o].pc = "persist", ![o].todo = Scope, ![o].allow = Allowed]
       \/ Deny(o)
    /\ UNCHANGED <<govWorld, policy, govGhosts>>

\* Operation::decisions makes the decision of each scope durable.
Persist(o) ==
    /\ op[o].pc = "persist"
    /\ \/ \E s \in op[o].todo :
            /\ AppendRecord(o, Decided(s, op[o].allow))
            /\ op' = [op EXCEPT ![o].todo = @ \ {s}]
       \/ /\ op[o].todo = {} /\ UNCHANGED policy
          /\ Enter(o, IF op[o].allow THEN "recapture" ELSE "unwind")
       \/ \E s \in op[o].todo : AppendFails(o, Decided(s, op[o].allow)) /\ Enter(o, "unwind")
    /\ UNCHANGED <<govWorld, govGhosts>>

Recapture_Trusting(o) ==
    /\ op[o].pc = "recapture"
    /\ op' = [op EXCEPT ![o].pc = op[o].ret, ![o].first = FALSE]
    /\ UNCHANGED <<govWorld, policy, govGhosts>>

\* Persistence can block: the authority is captured again after it.
Recapture(o) ==
    /\ op[o].pc = "recapture"
    /\ \/ /\ Captures(o) /\ Allowed
          /\ op' = [op EXCEPT ![o].pc = op[o].ret, ![o].first = FALSE]
       \/ Deny(o)
    /\ UNCHANGED <<govWorld, policy, govGhosts>>

\* stream_capture: between the parts of an export an allowing capture is not recorded.
StreamCheck(o) ==
    /\ op[o].pc = "stream"
    /\ \/ Captures(o) /\ Allowed /\ Enter(o, "dispatch")
       \/ Deny(o)
    /\ UNCHANGED <<govWorld, policy, govGhosts>>

\* restriction: a guard on the captured catalog, between two checks
Restrict(o) ==
    /\ op[o].pc = "restrict"
    /\ \/ Captures(o) /\ CheckThen(o, op[o], "body")
       \/ Deny(o)
    /\ UNCHANGED <<govWorld, policy, govGhosts>>

\* unavailable and stream_denial: a denial of each scope is recorded.
RecordDenial(o) ==
    /\ op[o].pc = "deny"
    /\ \/ \E s \in op[o].todo :
            AppendRecord(o, Decided(s, FALSE)) /\ op' = [op EXCEPT ![o].todo = @ \ {s}]
       \/ /\ op[o].todo = {} /\ UNCHANGED policy
          /\ IF op[o].terms = 1
             THEN op' = [op EXCEPT ![o].todo = Scope, ![o].terms = 0]
             ELSE Enter(o, "unwind")
       \/ \E s \in op[o].todo : AppendFails(o, Decided(s, FALSE)) /\ Enter(o, "unwind")
    /\ UNCHANGED <<govWorld, govGhosts>>
-----------------------------------------------------------------------------
(* The effects.                                                            *)
\* The closure of with_grants_for starts an effect, asks for a guard, ends or fails.
Body(o) ==
    /\ op[o].pc = "body"
    /\ \/ op[o].effects < MaxEffects /\ CheckThen(o, op[o], "begin")
       \/ CheckThen(o, op[o], "restrict")
       \/ CheckThen(o, op[o], "close")
       \/ Enter(o, "unwind")
    /\ UNCHANGED <<govWorld, policy, govGhosts>>

\* effect_begin: the effect is recorded between two checks.
EffectBegin(o) ==
    LET n == op[o].effects + 1
    IN /\ op[o].pc = "begin"
       /\ \/ /\ AppendRecord(o, Begun(n))
             /\ CheckThen(o, [op[o] EXCEPT !.effects = n, !.pending = n, !.blocks = 0], "dispatch")
          \/ AppendFails(o, Begun(n)) /\ Enter(o, "unwind")
       /\ UNCHANGED <<govWorld, govGhosts>>

\* The effect itself: one part of it, or its last one, or an error.
Dispatch(o) ==
    /\ op[o].pc = "dispatch"
    /\ \/ /\ op[o].blocks < MaxBlocks
          /\ \E next \in {"stream", "capture"} :
               op' = [op EXCEPT ![o].blocks = @ + 1, ![o].pc = next]
          /\ late' = [late EXCEPT ![o] = IF withdrawn[o] > 0 THEN @ + 1 ELSE @]
       \/ /\ Enter(o, "complete")
          /\ late' = [late EXCEPT ![o] = IF withdrawn[o] > 0 THEN @ + 1 ELSE @]
       \/ Enter(o, "unwind") /\ UNCHANGED late
    /\ UNCHANGED <<govWorld, policy, withdrawn>>

\* effect_complete: the outcome is kept whatever the check after it says.
EffectComplete(o) ==
    LET r == Ended(op[o].pending, "completed")
    IN /\ op[o].pc = "complete"
       /\ \/ AppendRecord(o, r) /\ CheckThen(o, [op[o] EXCEPT !.pending = 0], "body")
          \/ AppendFails(o, r) /\ Enter(o, "unwind")
       /\ UNCHANGED <<govWorld, govGhosts>>

\* Errors: the pending effect is dropped, and the operation then ends.
DropPending(o) ==
    LET r == Ended(op[o].pending, "uncertain")
    IN /\ op[o].pc = "unwind"
       /\ IF op[o].pending = 0 THEN UNCHANGED policy
          ELSE AppendRecord(o, r) \/ UNCHANGED policy
       /\ Enter(o, "failed")
       /\ UNCHANGED <<govWorld, govGhosts>>

Outcome_Of(o) == IF op[o].pc = "close" THEN "completed"
                 ELSE IF op[o].first THEN "denied" ELSE "uncertain"

\* finish; when it reports an error the drop of the operation tries once more.
Finish(o) ==
    LET r == Finished(Outcome_Of(o))
    IN /\ op[o].pc \in {"close", "failed"}
       /\ \/ AppendRecord(o, r) /\ Enter(o, "done")
          \/ AppendFails(o, r) /\ Enter(o, "drop")
       /\ UNCHANGED <<govWorld, govGhosts>>

DropOperation(o) ==
    /\ op[o].pc = "drop"
    /\ AppendRecord(o, Finished("uncertain")) \/ UNCHANGED policy
    /\ Enter(o, "done")
    /\ UNCHANGED <<govWorld, govGhosts>>

\* The process dies; an append in hand is durable or is not.
Die(o) ==
    /\ op[o].pc \notin {"idle", "done"}
    /\ \/ UNCHANGED policy
       \/ \E s \in op[o].todo : AppendRecord(o, Decided(s, op[o].allow /\ op[o].pc = "persist"))
    /\ Enter(o, "done")
    /\ UNCHANGED <<govWorld, govGhosts>>
-----------------------------------------------------------------------------
(* What can happen to the authority of an operation meanwhile.             *)
Withdraw == withdrawn' = [o \in Operation |->
                            IF withdrawn[o] = 0 /\ op[o].bind # NoBind THEN Len(policy[o])
                            ELSE withdrawn[o]]

\* A command of the catalog is committed; every session bound to the old head ends.
CatalogCommits ==
    /\ gov.head < MaxHead
    /\ \E S \in SUBSET Scope : gov' = [head |-> gov.head + 1, granted |-> S]
    /\ Withdraw /\ UNCHANGED <<epoch, within, policy, op, late>>

PasswordChanges ==
    /\ epoch < MaxEpoch /\ epoch' = epoch + 1
    /\ Withdraw /\ UNCHANGED <<gov, within, policy, op, late>>

GrantExpires ==
    /\ within /\ within' = FALSE
    /\ Withdraw /\ UNCHANGED <<gov, epoch, policy, op, late>>

GovernedNext ==
    \/ \E o \in Operation :
         \/ Begin(o) \/ PrepareLogin(o) \/ Authenticate(o) \/ NewSession(o)
         \/ Capture(o) \/ Persist(o) \/ Recapture(o) \/ StreamCheck(o) \/ Restrict(o) \/ RecordDenial(o)
         \/ Body(o) \/ EffectBegin(o) \/ Dispatch(o) \/ EffectComplete(o)
         \/ DropPending(o) \/ Finish(o) \/ DropOperation(o) \/ Die(o)
    \/ CatalogCommits \/ PasswordChanges \/ GrantExpires

GovernedSpec == GovernedInit /\ [][GovernedNext]_governedVars
-----------------------------------------------------------------------------
\* Once the authority an operation was admitted under is withdrawn, at most one
\* part of one effect is still under way, and no decision recorded after the
\* withdrawal carried it: check captures again after its decisions are durable.
WithdrawalStops ==
    \A o \in Operation :
      /\ late[o] <= 1
      /\ late[o] = 1 => \A i \in DOMAIN policy[o] :
           policy[o][i].kind = "decision" /\ policy[o][i].allow => i <= withdrawn[o]

=============================================================================
