-------------------------- MODULE MCAdministration --------------------------
(* Small instances for TLC of the parts of Admin: the checkpoint with its  *)
(* bootstrap and journal, the service that runs requests, the catalog, and *)
(* the accounts.  Each runs by itself: `part' says which.                  *)
EXTENDS CheckpointEnrollment, AdminSession, TLC

CONSTANTS Principal, Admin, Role, Activity, AssignmentId, GrantId, t1, t2, NoJob

\* The transactions of the accounts can be exchanged; the catalog has only the first of them.
Symmetry == Permutations({t1, t2})

VARIABLES part, catalog, identity, identities, job

ASSUME SessionAssumption

Catalog == INSTANCE AdminCatalog WITH
    Transaction <- {t1}, MaxGeneration <- 3, MaxTransactions <- 2

\* Accounts do not depend on roles and grants.
Accounts == INSTANCE AccountLifecycle WITH
    Transaction <- {t1, t2}, MaxGeneration <- 3, MaxTransactions <- 2,
    Role <- {}, Activity <- {}, AssignmentId <- {}, GrantId <- {},
    disk <- identity, disks <- identities

checkpointVars == <<vars, enrollmentVars>>
accountVars == <<identity, identities, job>>
mcVars == <<part, checkpointVars, sessionVars, catalog, accountVars>>

MCInit ==
    /\ part \in {"checkpoint", "session", "catalog", "accounts"}
    /\ CheckpointInit /\ SessionInit
    /\ CASE part = "accounts" -> Accounts!AccountInit
         [] part = "catalog" -> Catalog!CatalogInit /\ identity = {} /\ identities = {} /\ job = NoJob
         [] OTHER -> catalog = NoJob /\ identity = {} /\ identities = {} /\ job = NoJob

MCNext ==
    \/ /\ part = "checkpoint" /\ CheckpointNext
       /\ UNCHANGED <<part, sessionVars, catalog, accountVars>>
    \/ /\ part = "session" /\ SessionNext
       /\ UNCHANGED <<part, checkpointVars, catalog, accountVars>>
    \/ /\ part = "catalog" /\ Catalog!CatalogNext
       /\ UNCHANGED <<part, checkpointVars, sessionVars, accountVars>>
    \/ /\ part = "accounts" /\ Accounts!AccountNext
       /\ UNCHANGED <<part, checkpointVars, sessionVars>>
    \/ part # "checkpoint" /\ UNCHANGED mcVars  \* the others may stop at their bounds

MCSpec == MCInit /\ [][MCNext]_mcVars

\* A grant that stopped authorizing never does again (AdminCatalog).
AuthorityNeverRevives == [][part = "catalog" => Catalog!StepAuthority]_mcVars

\* The account files are those of the catalog (AccountLifecycle).
IdentityFollowsCatalog == part = "accounts" => Accounts!IdentityFollowsCatalog
=============================================================================
