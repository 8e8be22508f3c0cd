---------------------------- MODULE CatalogService ----------------------------
(***************************************************************************)
(* What the artifact catalog promises to a workflow: a request publishes   *)
(* at most one version, the versions of an artifact form a chain, and a    *)
(* receipt that was reported stays.                                        *)
(***************************************************************************)
EXTENDS Naturals

CONSTANT Promised   \* receipts: records with a request, an artifact and a version

VARIABLES
    published,  \* the receipts of the catalog
    told        \* the receipts some caller was told

serviceVars == <<published, told>>

ServiceInit == published = {} /\ told = {}

Versions(a) == {r.version : r \in {p \in published : p.artifact = a}}
Fresh(r) ==
    /\ \A p \in published : p.request # r.request
    /\ Versions(r.artifact) = 1 .. (r.version - 1)

PublishEffect(r) == Fresh(r) /\ published' = published \cup {r} /\ UNCHANGED told
TellEffect(r) == r \in published /\ told' = told \cup {r} /\ UNCHANGED published

ServiceNext == \E r \in Promised : PublishEffect(r) \/ TellEffect(r)
ServiceSpec == ServiceInit /\ [][ServiceNext]_serviceVars
=============================================================================
