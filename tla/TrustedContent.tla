--------------------------- MODULE TrustedContent ---------------------------
(***************************************************************************)
(* The signed content an installed LumaOS may use: the model catalog       *)
(* (model_trust.rs) and the skill registry (skill_trust.rs), both governed *)
(* by commands of the Admin catalog (admin_roles.rs) and used through an   *)
(* authority that reads the anchored catalog, verifies at length without   *)
(* holding it, and then compares what it read with what is anchored now    *)
(* (admin_governance.rs: model_authority, skill_authority).                *)
(*                                                                         *)
(* A command is one step: it is checked live and applied while the journal *)
(* is held (GovernedOperation models its phases).  A trust bundle is named *)
(* by its sequence, a digest by what it digests, and an instant stands for *)
(* the protected UTC interval (TrustedTime).  Signatures are sound.  A     *)
(* decision carries the protected time it was made at, which is never      *)
(* later than the present one; every window is open from the start, so     *)
(* what holds now held then, and the times themselves are left out.        *)
(***************************************************************************)
EXTENDS Integers, FiniteSets

CONSTANTS
    Absent,        \* Option::None
    ModelRequest,  \* release requests of model catalogs: [seq, content, signer, key, until, release]
    Custody,       \* role assignments of custodians: [by, activity, until]
    Key,           \* leaf keys of the trust bundles
    RootUntil,     \* end of the provisioned roots' validity
    MaxTrust,      \* bound: trust bundles published per domain
    MaxSequence,   \* bound: the highest skill registry sequence
    MaxRelease,    \* bound: the highest OS release
    MaxInstant     \* bound: the last instant

VARIABLES
    domain,        \* what the behaviour is about: they only share releases and trust
    environment,   \* of the provisioned roots: "lab" or "production"
    os,            \* the acknowledged release and the one that runs
    model,         \* model_trust::State
    approvals,     \* Catalog.model_approvals
    signings,      \* Catalog.model_signings
    assigned,      \* the assignments of Custody that are not revoked
    drifted,       \* a principal whose account rows differ from the anchored ones
    skill,         \* skill_trust::State
    reader,        \* the process that asks for an authority
    granted,       \* ghost: the admissions the last authorities were given for
    instant

contentVars == <<domain, environment, os, model, approvals, signings, assigned, drifted, skill, reader, granted, instant>>

Instant == 0..MaxInstant
Never == MaxInstant + 1
Release == 1..MaxRelease

\* What a governed command leaves alone
Untouched == UNCHANGED <<domain, environment, granted, instant>>

\* A reader compares the catalog with the one it read: any command ends its turn
Changed == reader' = [reader EXCEPT !.current = FALSE]

\* check_production_catalog: production effects need the acknowledged release to run
ProductionRelease ==
    environment = "production" => os.acknowledged /= 0 /\ os.acknowledged = os.running

-----------------------------------------------------------------------------
(* Model trust. *)

approval_activities == IF environment = "production" THEN {"license", "release", "security"} ELSE {"lab-release"}
signing_activity == IF environment = "production" THEN "sign" ELSE "lab-sign"

\* live: inside a window that ends at its expiry or its revocation
Live(end, at) == at < end

\* SignedTrust::validate: the window of a key lies in the bundle's, and ends
\* earlier if the key is revoked
Bundle == {b \in [seq: 1..MaxTrust, until: 1..Never, ends: [Key -> 1..Never]] :
              \A k \in Key : b.ends[k] <= b.until}

\* root_with: signed by the provisioned root, in whose validity it lies
Rooted(b) == b.until <= RootUntil /\ Live(RootUntil, instant) /\ Live(b.until, instant)

\* check_key_time: key k of the anchored bundle signs now
KeyLive(k) == Live(model.trust.ends[k], instant)

\* publish: the successor of the anchored bundle; a revocation is a tombstone
Retains(old, next) ==
    \A k \in Key : old.ends[k] < old.until => next.ends[k] <= old.ends[k]

PublishModelTrust ==
    \E next \in Bundle :
        /\ domain /= "skill" /\ ProductionRelease
        /\ next.seq = (IF model.trust = Absent THEN 0 ELSE model.trust.seq) + 1
        /\ Rooted(next)
        /\ model.trust /= Absent => Retains(model.trust, next)
        /\ model' = [model EXCEPT !.trust = next]
        /\ Changed
        /\ Untouched
        /\ UNCHANGED <<os, approvals, signings, assigned, drifted, skill>>

\* check_custodian: an unrevoked assignment of exactly that activity, in force
Custodian(by, activity) ==
    \E c \in assigned : c.by = by /\ c.activity = activity /\ Live(c.until, instant)

\* ModelAccounts: the account rows of the custodians are the anchored ones
Accounts(principals) == drifted \notin principals

\* Approval::check_request: a required activity, by another than the signer
CheckRequest(q, by, activity) == activity \in approval_activities /\ by /= q.signer

\* check_command_time: the window of the request that a decision is about
check_command_time(q) == Live(q.until, instant)

\* check_live: what every decision about a model catalog needs first
CheckLive(q) == /\ ProductionRelease
                /\ model.trust /= Absent
                /\ Rooted(model.trust)
                /\ check_command_time(q)

\* bind_model_intent: the decision of a custodian, stamped with their assignment
bind_model_intent(q, c) ==
    {[request |-> q, by |-> d.by, activity |-> d.activity] :
        d \in {d \in {c} : Custodian(d.by, d.activity)}}

\* The receipt of the event names the decision, so it is recorded once
RecordModelCatalogApproval ==
    \E q \in ModelRequest, c \in assigned : \E a \in bind_model_intent(q, c) :
        /\ CheckLive(q)
        /\ CheckRequest(q, a.by, a.activity)
        /\ Accounts({a.by})
        /\ a \notin approvals
        /\ approvals' = approvals \union {a}
        /\ Changed
        /\ Untouched
        /\ UNCHANGED <<os, model, signings, assigned, drifted, skill>>

\* Envelope::validate: one independent principal per required activity
Quorum(q, as) ==
    /\ {a.activity : a \in as} = approval_activities
    /\ Cardinality({a.by : a \in as}) = Cardinality(as)
    /\ Cardinality(as) = Cardinality(approval_activities)
    /\ \A a \in as : a.request = q /\ CheckRequest(q, a.by, a.activity)

\* check_signing_approvals: every approval of the request, and no more than
\* the quorum, each by a custodian who still is one
check_signing_approvals(q, as) ==
    /\ as = {a \in approvals : a.request = q}
    /\ Quorum(q, as)
    /\ \A a \in as : Custodian(a.by, a.activity)

\* The statement that is signed names the request and the approvals there are of it
Statement(q) == [request |-> q, approvals |-> {a \in approvals : a.request = q}]

Custodians(s) == {s.request.signer} \union {a.by : a \in s.approvals}

RecordModelCatalogSigning ==
    \E q \in ModelRequest :
        LET statement == Statement(q)
        IN  /\ CheckLive(q)
            /\ KeyLive(q.key)
            /\ Custodian(q.signer, signing_activity)
            /\ Accounts(Custodians(statement))
            /\ check_signing_approvals(q, statement.approvals)
            /\ statement \notin signings
            /\ signings' = signings \union {statement}
            /\ Changed
            /\ Untouched
            /\ UNCHANGED <<os, model, approvals, assigned, drifted, skill>>

-----------------------------------------------------------------------------
(* A catalog is admitted, and used, only while all of this holds. *)

\* check_catalog_time, check_key_time and check_custodian, at this instant
TimeProof(s) ==
    /\ Live(RootUntil, instant)
    /\ Live(model.trust.until, instant)
    /\ Live(s.request.until, instant)
    /\ KeyLive(s.request.key)
    /\ \A a \in s.approvals : Custodian(a.by, a.activity)
    /\ Custodian(s.request.signer, signing_activity)

\* verify_catalog_with_policy: the packs of its profiles verify under the
\* anchored trust as well (their keys are keys of the same bundle)
VerifyCatalog(s, trusted) ==
    /\ trusted = model.trust.seq
    /\ Rooted(model.trust)
    /\ s.request.release = os.acknowledged
    /\ Quorum(s.request, s.approvals)
    /\ s.approvals \subseteq approvals
    /\ s \in signings
    /\ TimeProof(s)

AboveFloor(q) ==
    /\ q.seq >= model.floor
    /\ model.floor = 0 => q.seq = 1
    /\ q.seq = model.floor => model.current.statement.request.content = q.content

AdmitModelCatalog ==
    \E s \in signings :
        /\ CheckLive(s.request)
        /\ VerifyCatalog(s, model.trust.seq)
        /\ Accounts(Custodians(s))
        /\ AboveFloor(s.request)
        /\ model' = [model EXCEPT !.floor = s.request.seq,
                                  !.current = [statement |-> s, trust |-> model.trust.seq]]
        /\ Changed
        /\ Untouched
        /\ UNCHANGED <<os, approvals, signings, assigned, drifted, skill>>

-----------------------------------------------------------------------------
(* Skill trust. *)

\* SignedTrust::root, check_time: of the provisioned root, in its window
SkillRoot == Live(skill.trust.until, instant)

\* publish: the exact successor; a revoked signer stays revoked
PublishSkillTrust ==
    \E revoked \in SUBSET Key, until \in 1..RootUntil :
        LET version == IF skill.trust = Absent THEN 0 ELSE skill.trust.version
        IN  /\ domain = "skill" /\ ProductionRelease
            /\ version < MaxTrust
            /\ Live(until, instant)
            /\ skill.trust /= Absent => skill.trust.revoked \subseteq revoked
            /\ skill' = [skill EXCEPT !.trust = [version |-> version + 1, revoked |-> revoked, until |-> until]]
            /\ Changed
            /\ Untouched
            /\ UNCHANGED <<os, model, approvals, signings, assigned, drifted>>

\* Admission::binding and verify: signed by an unrevoked key of this very bundle
Binding(a) == a.trust = skill.trust.version /\ a.key \notin skill.trust.revoked

\* Admission::check_time
SkillLive(a) == SkillRoot /\ Live(a.until, instant)

\* immutable_content: the registry and the graph of the image that runs
ImmutableContent(a) == a.content = os.running

\* The admissions that are made for the bundle and the image there are
Admission ==
    {[seq |-> seq, key |-> k, until |-> until, trust |-> skill.trust.version, content |-> os.running] :
        seq \in 1..MaxSequence, k \in Key, until \in 1..MaxInstant}

\* skill_trust::check_live
check_live(a) == ProductionRelease /\ Binding(a) /\ ImmutableContent(a) /\ SkillLive(a)

\* admit: the review names the floor, which never falls, and a sequence has
\* one admission
AdmitSkillRegistry ==
    /\ skill.trust /= Absent
    /\ \E a \in Admission :
          /\ check_live(a)
          /\ a.seq >= skill.floor
          /\ a.seq = skill.floor => skill.current = a
          /\ skill' = [skill EXCEPT !.floor = a.seq, !.current = a]
    /\ Changed
    /\ Untouched
    /\ UNCHANGED <<os, model, approvals, signings, assigned, drifted>>

-----------------------------------------------------------------------------
(* What else the anchored catalog records meanwhile. *)

RevokeAssignment ==
    \E c \in assigned :
        /\ assigned' = assigned \ {c}
        /\ Changed
        /\ Untouched
        /\ UNCHANGED <<os, model, approvals, signings, drifted, skill>>

ResolveRelease ==
    /\ os.running > os.acknowledged
    /\ os' = [os EXCEPT !.acknowledged = os.running]
    /\ Changed
    /\ Untouched
    /\ UNCHANGED <<model, approvals, signings, assigned, drifted, skill>>

\* An account's password or lock rows change, and are checkpointed
ChangePassword ==
    /\ drifted = Absent
    /\ drifted' \in {c.by : c \in assigned}
    /\ Untouched
    /\ UNCHANGED <<os, model, approvals, signings, assigned, skill, reader>>

CheckpointAccounts ==
    /\ drifted /= Absent
    /\ drifted' = Absent
    /\ Changed
    /\ Untouched
    /\ UNCHANGED <<os, model, approvals, signings, assigned, skill>>

\* A reboot into either slot ends the reader
Boot ==
    \E r \in Release :
        /\ os' = [os EXCEPT !.running = r]
        /\ r /= os.running
        /\ reader' = [pc |-> "idle", current |-> FALSE]
        /\ Untouched
        /\ UNCHANGED <<model, approvals, signings, assigned, drifted, skill>>

Tick ==
    /\ instant < MaxInstant
    /\ instant' = instant + 1
    /\ UNCHANGED <<domain, environment, os, model, approvals, signings, assigned, drifted, skill, reader, granted>>

-----------------------------------------------------------------------------
(* The authorities. *)

Others == UNCHANGED <<domain, environment, os, model, approvals, signings, assigned, drifted, skill, instant>>

\* model_authority reads the catalog and lets go of the journal
ModelCapture ==
    /\ reader.pc = "idle"
    /\ model.trust /= Absent
    /\ ProductionRelease
    /\ Rooted(model.trust)
    /\ reader' = [pc |-> "model", current |-> TRUE]
    /\ UNCHANGED granted /\ Others

current_catalog ==
    /\ model.current.statement.request.seq = model.floor
    /\ VerifyCatalog(model.current.statement, model.current.trust)

\* model_authority verifies the catalog it read, with the packs it scanned
ModelVerify ==
    /\ reader.pc = "model"
    /\ model.current /= Absent
    /\ reader.current =>
          /\ current_catalog
          /\ Accounts(Custodians(model.current.statement))
    /\ reader' = [reader EXCEPT !.pc = "verified"]
    /\ UNCHANGED granted /\ Others

\* The preparation of a pack, or its qualification, needs the trust alone
PreparationVerify ==
    /\ reader.pc = "model" /\ domain = "preparation"
    /\ reader' = [reader EXCEPT !.pc = "prepared"]
    /\ UNCHANGED granted /\ Others

SameAuthority_Assumed == TRUE

\* The journal is opened again: head, deployment and events are those it read
SameAuthority == reader.current

ModelAuthority ==
    /\ reader.pc = "verified"
    /\ SameAuthority
    /\ Accounts(Custodians(model.current.statement))
    /\ TimeProof(model.current.statement)
    /\ granted' = [granted EXCEPT !.model = model.current]
    /\ reader' = [pc |-> "idle", current |-> FALSE]
    /\ Others

PreparationAuthority ==
    /\ reader.pc = "prepared"
    /\ SameAuthority
    /\ Rooted(model.trust)
    /\ granted' = [granted EXCEPT !.preparation = model.trust.seq]
    /\ reader' = [pc |-> "idle", current |-> FALSE]
    /\ Others

\* verify_installed: the first skill_authority and the checks on what it read
SkillVerify ==
    /\ reader.pc = "idle"
    /\ skill.trust /= Absent /\ skill.current /= Absent
    /\ ProductionRelease
    /\ skill.current.seq = skill.floor
    /\ Binding(skill.current) /\ ImmutableContent(skill.current)
    /\ reader' = [pc |-> "skill", current |-> TRUE]
    /\ UNCHANGED granted /\ Others

\* The second one returned the same skill and release state, at a later time
SkillAuthority ==
    /\ reader.pc = "skill"
    /\ SameAuthority
    /\ SkillLive(skill.current)
    /\ granted' = [granted EXCEPT !.skill = skill.current]
    /\ reader' = [pc |-> "idle", current |-> FALSE]
    /\ Others

\* Any check that fails is an error to the caller
AuthorityDenied ==
    /\ reader.pc /= "idle"
    /\ reader' = [pc |-> "idle", current |-> FALSE]
    /\ UNCHANGED granted /\ Others

-----------------------------------------------------------------------------
ContentInit ==
    /\ domain \in {"model", "preparation", "skill"}
    /\ environment \in {"lab", "production"}
    /\ os = [acknowledged |-> 0, running |-> 1]
    /\ model = [trust |-> Absent, floor |-> 0, current |-> Absent]
    /\ approvals = {} /\ signings = {}
    /\ assigned = {c \in Custody : domain = "model" /\ c.activity \in approval_activities \union {signing_activity}}
    /\ drifted = Absent
    /\ skill = [trust |-> Absent, floor |-> 0, current |-> Absent]
    /\ reader = [pc |-> "idle", current |-> FALSE]
    /\ granted = [model |-> Absent, preparation |-> Absent, skill |-> Absent]
    /\ instant = 0

ContentNext ==
    \/ PublishModelTrust \/ RecordModelCatalogApproval \/ RecordModelCatalogSigning \/ AdmitModelCatalog
    \/ PublishSkillTrust \/ AdmitSkillRegistry
    \/ RevokeAssignment \/ ChangePassword \/ CheckpointAccounts \/ ResolveRelease \/ Boot \/ Tick
    \/ ModelCapture \/ ModelVerify \/ ModelAuthority \/ PreparationVerify \/ PreparationAuthority
    \/ SkillVerify \/ SkillAuthority \/ AuthorityDenied

ContentSpec == ContentInit /\ [][ContentNext]_contentVars

-----------------------------------------------------------------------------
(* Properties. *)

\* Authority is current.  model_authority verifies a catalog, and scans its
\* packs, without holding the journal; verify_installed reads the registry
\* between two reads of the journal.  Whatever is published, revoked,
\* approved, acknowledged or expires meanwhile, an authority is only ever
\* returned for what is admitted at that moment: bound to the anchored trust
\* and to the acknowledged release, in its window, under a live key, with
\* the decision of one independent custodian per activity, who all still are.
GivesCurrent ==
    /\ granted'.model /= granted.model =>
         LET s == granted'.model.statement
             custodians == {<<a.by, a.activity>> : a \in s.approvals} \union {<<s.request.signer, signing_activity>>}
         IN  /\ granted'.model = model.current
             /\ granted'.model.trust = model.trust.seq
             /\ s.request.release = os.acknowledged
             /\ instant < s.request.until
             /\ instant < model.trust.until /\ instant < model.trust.ends[s.request.key]
             /\ \A c \in custodians : c[1] /= drifted
             /\ Cardinality({c[1] : c \in custodians}) = Cardinality(approval_activities) + 1
             /\ {c[2] : c \in custodians} = approval_activities \union {signing_activity}
             /\ \A c \in custodians : \E h \in assigned : <<h.by, h.activity>> = c /\ instant < h.until
    /\ granted'.preparation /= granted.preparation => instant < model.trust.until
    /\ granted'.skill /= granted.skill =>
             /\ granted'.skill = skill.current
             /\ granted'.skill.trust = skill.trust.version
             /\ granted'.skill.key \notin skill.trust.revoked
             /\ granted'.skill.content = os.running
             /\ instant < skill.trust.until /\ instant < granted'.skill.until

\* Every authority that is returned is current at that moment, as GivesCurrent says of a step.
AuthorityIsCurrent == [][GivesCurrent]_contentVars

=============================================================================
