------------------------------ MODULE AdminCatalog ------------------------------
(***************************************************************************)
(* admin_roles.rs and finite_grants.rs: the catalog that the anchored      *)
(* Admin commands build, one by one.  Each command is an operator from the *)
(* catalog to the set of catalogs it may become: empty when the command is *)
(* refused, the catalog itself when it changes nothing.                    *)
(***************************************************************************)
EXTENDS Naturals, FiniteSets

CONSTANTS
    Principal, Admin,    \* Admin: the account with uid 1001
    Transaction, Role, Activity, AssignmentId, GrantId,
    MaxGeneration,       \* a generation the model does not pass (u64 in the code)
    MaxTransactions      \* 128 in the code

VARIABLE catalog

\* A credential: who set its hash, whether it is locked and under an aging policy.
NoCredential == [hash |-> "none", locked |-> TRUE, aged |-> FALSE]
NoTransition == [phase |-> "none"]
NoAssignment == [version |-> 0]
NoGrant == [version |-> 0]
Installed == [hash |-> "installed", locked |-> FALSE, aged |-> FALSE]

\* The catalog once the principals in "installed" are adopted and checkpointed.
Adopted(installed) ==
    [registry |-> installed,
     generation |-> [p \in Principal |-> IF p \in installed THEN 1 ELSE 0],
     enabled |-> [p \in Principal |-> p \in installed],
     commitment |-> [p \in Principal |-> IF p \in installed THEN Installed ELSE NoCredential],
     aging |-> {}, deleted |-> {}, recovery |-> 1,
     transition |-> [t \in Transaction |-> NoTransition],
     activities |-> {}, roles |-> [r \in Role |-> [version |-> 0, activities |-> {}]],
     assignments |-> [a \in AssignmentId |-> NoAssignment],
     grants |-> [g \in GrantId |-> NoGrant]]
\* initial: nobody is adopted, no credential is known.
Initial ==
    [Adopted({}) EXCEPT !.recovery = 0]
-----------------------------------------------------------------------------
(* Registry, principals and roles                                          *)
\* The installer's registry names everyone it installed; none can replace it.
AdoptPrincipals(c, installed) ==
    IF c.registry = {}
    THEN {[c EXCEPT !.registry = installed, !.recovery = 1,
                    !.generation = [p \in Principal |-> IF p \in installed THEN 1 ELSE 0],
                    !.enabled = [p \in Principal |-> p \in installed]]}
    ELSE IF c.registry = installed THEN {c} ELSE {}
CheckpointAccounts(c, commitments) ==
    IF \A p \in Principal : (commitments[p] # NoCredential) <=> p \in c.registry
    THEN IF \A p \in Principal : c.commitment[p] = NoCredential
         THEN {[c EXCEPT !.commitment = commitments]}
         ELSE {c} \cap {[c EXCEPT !.commitment = commitments]}
    ELSE {}

Pending(c) == {t \in Transaction : c.transition[t].phase \in {"prepared", "permitted"}}
PendingOf(c, p) == {t \in Pending(c) : c.transition[t].principal = p}
\* Command::validate: a command names an exact generation, which is never zero.
Exact(expected) == expected > 0
\* Every change of a principal's state moves it to a generation of its own.
Advanced_InPlace(c, p, on) == [c EXCEPT !.enabled[p] = on]
Advanced(c, p, on) == [c EXCEPT !.generation[p] = @ + 1, !.enabled[p] = on]

FenceLifted(c, p) == PendingOf(c, p) = {}
AdvancePrincipal(c, p, expected, on) ==
    IF /\ p \notin c.deleted /\ (on => p \notin c.aging) /\ FenceLifted(c, p)
       /\ p \in c.registry \ {Admin} /\ Exact(expected) /\ c.generation[p] = expected
    THEN {Advanced(c, p, on)} ELSE {}
RotateAdmin(c, expected) ==
    IF Admin \in c.registry /\ c.enabled[Admin] /\ Exact(expected) /\ c.generation[Admin] = expected
    THEN {Advanced(c, Admin, TRUE)} ELSE {}
RecoverAdmin(c, expected, recovery) ==
    IF /\ Admin \in c.registry /\ Exact(expected) /\ Exact(recovery) /\ c.recovery = recovery
       /\ c.enabled[Admin] /\ c.generation[Admin] = expected
    THEN {[Advanced(c, Admin, TRUE) EXCEPT !.recovery = recovery + 1]} ELSE {}

RegisterActivity(c, a) == {[c EXCEPT !.activities = @ \cup {a}]}
DefineRole(c, r, activities, expected) ==
    IF activities \subseteq c.activities /\ c.roles[r].version = expected
    THEN IF expected > 0 /\ c.roles[r].activities = activities THEN {c}
         ELSE {[c EXCEPT !.roles[r] = [version |-> expected + 1, activities |-> activities]]}
    ELSE {}
-----------------------------------------------------------------------------
(* Assignments and grants                                                  *)
Subject(c, p, generation) ==
    /\ p \in c.registry /\ c.enabled[p] /\ c.generation[p] = generation
    /\ p \notin c.deleted \cup c.aging /\ c.commitment[p] # NoCredential
AssignRole(c, id, p, generation, r, version) ==
    IF /\ c.roles[r].version = version /\ version > 0
       /\ Subject(c, p, generation) /\ c.assignments[id] = NoAssignment
    THEN {[c EXCEPT !.assignments[id] = [version |-> 1, revoked |-> FALSE, subject |-> p,
              generation |-> generation, role |-> r, roleVersion |-> version]]}
    ELSE {}
RevokeAssignment(c, id, expected) ==
    IF c.assignments[id].version = expected /\ expected > 0 /\ ~c.assignments[id].revoked
    THEN {[c EXCEPT !.assignments[id].version = @ + 1, !.assignments[id].revoked = TRUE]}
    ELSE {}
\* issue: a grant is within the current version of an assignment and its role.
IssueGrant(c, id, p, generation, assignment, version, activity) ==
    LET a == c.assignments[assignment] IN
    IF /\ Subject(c, p, generation) /\ c.grants[id] = NoGrant
       /\ a # NoAssignment /\ ~a.revoked /\ a.version = version
       /\ a.subject = p /\ a.generation = generation
       /\ a.roleVersion = c.roles[a.role].version
       /\ activity \in c.roles[a.role].activities
    THEN {[c EXCEPT !.grants[id] = [version |-> 1, revoked |-> FALSE, subject |-> p,
              generation |-> generation, assignment |-> assignment,
              assignmentVersion |-> version, activity |-> activity]]}
    ELSE {}
RevokeGrant(c, id, expected) ==
    IF c.grants[id].version = expected /\ expected > 0 /\ ~c.grants[id].revoked
    THEN {[c EXCEPT !.grants[id].version = @ + 1, !.grants[id].revoked = TRUE]}
    ELSE {}
\* Assignment::current, within the assignment's validity.
Current(c, a) ==
    /\ Subject(c, a.subject, a.generation)
    /\ ~a.revoked /\ c.roles[a.role].version = a.roleVersion
\* Grant::authorize for its own subject, target and constraints, within its
\* validity; the subject is resolved against the catalog first.
Authorizes(c, id) ==
    LET g == c.grants[id]
        a == c.assignments[g.assignment] IN
    /\ g # NoGrant /\ ~g.revoked
    /\ c.enabled[g.subject] /\ c.generation[g.subject] = g.generation
    /\ Current(c, a) /\ a.version = g.assignmentVersion
    /\ a.subject = g.subject /\ a.generation = g.generation
    /\ g.activity \in c.roles[a.role].activities
-----------------------------------------------------------------------------
(* Account transactions.  An intent says what the guard saw and what it    *)
(* will publish: kind, principal, generation, locked, before and after.    *)
Unused(c, t) ==
    /\ c.transition[t] = NoTransition
    /\ Cardinality({u \in Transaction : c.transition[u] # NoTransition}) < MaxTransactions
Fits(c, t) == Unused(c, t) /\ Pending(c) = {}
Opened(c, t, i) ==
    [c EXCEPT !.transition[t] = [phase |-> "prepared", kind |-> i.kind, principal |-> i.principal,
        expected |-> i.expected, locked |-> i.locked, before |-> i.before, after |-> i.after]]

PrepareAccountCreation(c, t, i) ==
    IF /\ i.principal \notin c.registry /\ c.generation[i.principal] = 0
       /\ \E p \in Principal : c.commitment[p] # NoCredential
       /\ Fits(c, t)
    THEN {[Opened(c, t, i) EXCEPT !.generation[i.principal] = 1,
                                  !.enabled[i.principal] = FALSE]}
    ELSE {}
PrepareAccountDeletion(c, t, i) ==
    IF /\ i.principal \in c.registry \ (c.deleted \cup {Admin})
       /\ c.generation[i.principal] = i.expected
       /\ c.commitment[i.principal] = i.before /\ Fits(c, t)
    THEN {Advanced(Opened(c, t, i), i.principal, FALSE)} ELSE {}
\* A password alone enables nobody, and only activation lifts the aging fence.
PrepareAccountLock(c, t, i) ==
    IF /\ i.principal \in c.registry \ (c.deleted \cup {Admin})
       /\ c.generation[i.principal] = i.expected
       /\ ~(i.kind \in {"password", "renewal"} /\ ~i.locked /\ ~c.enabled[i.principal])
       /\ \/ (i.kind = "activation") <=> i.principal \in c.aging
          \/ i.kind # "activation" /\ i.locked
       /\ i.kind # "recovery"
       /\ c.commitment[i.principal] = i.before /\ Fits(c, t)
    THEN {Advanced(Opened(c, t, i), i.principal, FALSE)} ELSE {}
\* Custody replaces whatever credential the disk has, and its own verifier.
PrepareAdminAccountRecovery(c, t, i, credential, recovery) ==
    IF /\ i.principal = Admin /\ Admin \in c.registry /\ i.kind = "recovery"
       /\ c.generation[Admin] = i.expected /\ c.commitment[Admin] = credential
       /\ c.recovery = recovery /\ Fits(c, t)
    THEN {[Advanced(Opened(c, t, i), Admin, FALSE)
              EXCEPT !.recovery = recovery + 1, !.commitment[Admin] = i.before]}
    ELSE {}
Permit(c, t) ==
    IF c.transition[t].phase = "prepared"
    THEN {[c EXCEPT !.transition[t].phase = "permitted"]} ELSE {}
\* The transition still has its principal: one generation on, and disabled.
StillFenced(c, x) ==
    /\ c.generation[x.principal] = x.expected + 1 /\ ~c.enabled[x.principal]
CompleteAccountCreation(c, t) ==
    LET x == c.transition[t] IN
    IF /\ x.phase = "permitted" /\ x.principal \notin c.registry
       /\ c.generation[x.principal] = 1 /\ ~c.enabled[x.principal]
    THEN {[c EXCEPT !.transition[t].phase = "complete", !.registry = @ \cup {x.principal},
                    !.commitment[x.principal] = x.after, !.aging = @ \cup {x.principal}]}
    ELSE {}
CompleteAccountDeletion(c, t) ==
    LET x == c.transition[t] IN
    IF x.phase = "permitted" /\ c.commitment[x.principal] = x.before /\ StillFenced(c, x)
    THEN {[c EXCEPT !.transition[t].phase = "complete", !.deleted = @ \cup {x.principal}]}
    ELSE {}
CompleteAccountLock(c, t) ==
    LET x == c.transition[t] IN
    IF /\ x.phase = "permitted" /\ c.commitment[x.principal] = x.before /\ StillFenced(c, x)
       /\ x.kind = "activation" => x.principal \in c.aging
    THEN {[c EXCEPT !.transition[t].phase = "complete", !.commitment[x.principal] = x.after,
                    !.enabled[x.principal] = ~x.locked,
                    !.aging = IF x.kind = "activation" THEN @ \ {x.principal} ELSE @]}
    ELSE {}
Prepare(c, t, i) ==
    CASE i.kind = "creation" -> PrepareAccountCreation(c, t, i)
      [] i.kind = "deletion" -> PrepareAccountDeletion(c, t, i)
      [] i.kind = "recovery" ->
            PrepareAdminAccountRecovery(c, t, i, c.commitment[Admin], c.recovery)
      [] OTHER -> PrepareAccountLock(c, t, i)
Complete(c, t) ==
    CASE c.transition[t].phase = "none" -> {}
      [] c.transition[t].phase # "none" /\ c.transition[t].kind = "creation" ->
            CompleteAccountCreation(c, t)
      [] c.transition[t].phase # "none" /\ c.transition[t].kind = "deletion" ->
            CompleteAccountDeletion(c, t)
      [] OTHER -> CompleteAccountLock(c, t)
-----------------------------------------------------------------------------
(* The intents a guard can derive: what each publication makes of a        *)
(* principal's credential "before".                                        *)
CreatedRow(t) == [hash |-> t, locked |-> TRUE, aged |-> FALSE]
LockedRow(before) == [before EXCEPT !.locked = ~@]
PasswordRow(t, before) == [before EXCEPT !.hash = t]
ActivatedRow(before) == [before EXCEPT !.locked = FALSE, !.aged = TRUE]
RecoveredRow(t) == [hash |-> t, locked |-> FALSE, aged |-> TRUE]
After(t, kind, before) ==
    CASE kind = "creation" -> CreatedRow(t)
      [] kind = "lock" -> LockedRow(before)
      [] kind = "password" -> PasswordRow(t, before)
      [] kind = "activation" -> ActivatedRow(before)
      [] kind \in {"renewal", "recovery"} -> RecoveredRow(t)
      [] kind = "deletion" -> NoCredential
Kinds == {"creation", "lock", "password", "activation", "renewal", "recovery", "deletion"}
Intent(t, kind, p, expected, before) ==
    [kind |-> kind, principal |-> p, expected |-> expected, before |-> before,
     after |-> After(t, kind, before),
     locked |-> kind \in {"creation", "deletion"} \/ After(t, kind, before).locked]
\* What a guard refuses: a row that is missing or already there, an aging policy
\* that is not the one of creation, Admin's row for anything but recovery.
Derivable(kind, p, before) ==
    /\ (kind = "creation") <=> (before = NoCredential)
    /\ (kind = "activation") => ~before.aged
    /\ (kind = "recovery") <=> (p = Admin)
Intents(t, p, expected, before) ==
    {Intent(t, k, p, expected, before) : k \in {x \in Kinds : Derivable(x, p, before)}}
-----------------------------------------------------------------------------
(* The catalog on its own: every sequence of commands.                     *)
CatalogInit == catalog = Initial

Registry(c) ==
    \/ \E installed \in {q \in SUBSET Principal : Admin \in q} :
          catalog' \in AdoptPrincipals(c, installed)
    \/ catalog' \in CheckpointAccounts(c, [p \in Principal |->
                       IF p \in c.registry THEN Installed ELSE NoCredential])
Principals(c) ==
    \E p \in Principal :
        /\ c.generation[p] < MaxGeneration
        /\ \/ \E on \in BOOLEAN : catalog' \in AdvancePrincipal(c, p, c.generation[p], on)
           \/ p = Admin /\ catalog' \in RotateAdmin(c, c.generation[p])
           \/ p = Admin /\ catalog' \in RecoverAdmin(c, c.generation[p], c.recovery)
Roles(c) ==
    \/ \E a \in Activity : catalog' \in RegisterActivity(c, a)
    \/ \E r \in Role, s \in SUBSET Activity :
          /\ s # {} /\ c.roles[r].version < MaxGeneration
          /\ catalog' \in DefineRole(c, r, s, c.roles[r].version)
    \/ \E id \in AssignmentId, p \in Principal, r \in Role :
          catalog' \in AssignRole(c, id, p, c.generation[p], r, c.roles[r].version)
    \/ \E id \in AssignmentId : catalog' \in RevokeAssignment(c, id, 1)
Grants(c) ==
    \/ \E id \in GrantId, p \in Principal, a \in AssignmentId, v \in Activity :
          catalog' \in IssueGrant(c, id, p, c.generation[p], a, 1, v)
    \/ \E id \in GrantId : catalog' \in RevokeGrant(c, id, 1)
Accounts(c) ==
    \E t \in Transaction :
        \/ \E p \in Principal : \E i \in Intents(t, p, c.generation[p], c.commitment[p]) :
              c.generation[p] < MaxGeneration /\ catalog' \in Prepare(c, t, i)
        \/ catalog' \in Permit(c, t)
        \/ catalog' \in Complete(c, t)
CatalogNext ==
    \/ Registry(catalog)
    \/ Principals(catalog)
    \/ Roles(catalog)
    \/ Grants(catalog)
    \/ Accounts(catalog)
-----------------------------------------------------------------------------
StepAuthority ==
    \A g \in GrantId :
        catalog.grants[g] # NoGrant /\ ~Authorizes(catalog, g) => ~Authorizes(catalog, g)'

\* A grant that authorized its use and stopped doing so never does again: no
\* later rotation, role definition, lock, unlock, recovery or re-creation of its
\* subject brings it back, because each of them goes to a new generation or
\* version (Grant::authorize, Assignment::current).
AuthorityNeverRevives == [][StepAuthority]_catalog
=============================================================================
