----------------------------- MODULE PackProofs -----------------------------
(* The broker's physical proofs of installed model packs (model/pack_store.rs): a background
   thread hashes a published pack and keeps the descriptors that it hashed, and a request that
   needs the pack rechecks their identities instead of hashing again.  The cache is locked for
   moments only, and not while members are hashed; a QA request may hash beside the thread.

   The members are the blobs of one pack and the runtime's cached weights.  A member has an
   identity (device, inode, size and times) that is new whenever its bytes are. *)
EXTENDS Naturals, FiniteSets

CONSTANTS Member, Absent,
          MaxChanges,   \* bound: changes to members after publication
          MaxFaults     \* bound: restarts, and moments at which the cache is busy

Hasher == {"verifier", "qa"}

VARIABLES place,      \* the bytes and the identity of each member
          changes,
          proofs,     \* PROOFS: the identities of the hashed descriptors
          attempted,  \* the verifier's last witness
          at, witness, pins,  \* of each hasher
          answered,   \* the answer to a request that needs the pack as it is
          faults

proofVars == <<place, changes, proofs, attempted, at, witness, pins, answered, faults>>

ProofsTypeOK ==
    /\ \/ place = Absent
       \/ place \in [Member -> [good : BOOLEAN, id : 0..MaxChanges]]
    /\ changes \in 0..MaxChanges /\ faults \in 0..MaxFaults
    /\ proofs = Absent \/ proofs \in [Member -> 0..MaxChanges]
    /\ attempted = Absent \/ attempted \in [Member -> 0..MaxChanges]
    /\ at \in [Hasher -> {"off", "begin", "hash", "publish"}]
    /\ \A h \in Hasher : witness[h] = Absent \/ witness[h] \in [Member -> 0..MaxChanges]
    /\ \A h \in Hasher : DOMAIN pins[h] \subseteq Member
    /\ answered \in {"none", "verified", "refused"}

Fault == faults < MaxFaults /\ faults' = faults + 1

ProofsInit ==
    /\ place = Absent /\ changes = 0 /\ proofs = Absent /\ attempted = Absent
    /\ at = [h \in Hasher |-> "off"] /\ witness = [h \in Hasher |-> Absent]
    /\ pins = [h \in Hasher |-> <<>>] /\ answered = "none" /\ faults = 0

\* physical_witness
physical_witness == [m \in Member |-> place[m].id]

\* RetainedPack::recheck
recheck(p) == \A m \in Member : p[m] = place[m].id
-----------------------------------------------------------------------------
(* The pack: published whole by an import; its bytes may be damaged or restored later *)

ImportPack ==
    /\ place = Absent /\ place' = [m \in Member |-> [good |-> TRUE, id |-> 0]]
    /\ UNCHANGED <<changes, proofs, attempted, at, witness, pins, answered, faults>>

ChangeMember(m) ==
    /\ place # Absent /\ changes < MaxChanges /\ changes' = changes + 1
    /\ \E good \in BOOLEAN : place' = [place EXCEPT ![m] = [good |-> good, id |-> changes + 1]]
    /\ answered' = "none"
    /\ UNCHANGED <<proofs, attempted, at, witness, pins, faults>>
-----------------------------------------------------------------------------
(* Hashing *)

Set(h, pc) == at' = [at EXCEPT ![h] = pc]

\* The witness that the verifier took before it began.
Attempt(h) == IF h = "verifier" THEN witness[h] ELSE attempted

\* An attempt that ends otherwise than by a transient refusal is not repeated.
Ended(h) ==
    /\ Set(h, "off") /\ attempted' = Attempt(h) /\ pins' = [pins EXCEPT ![h] = <<>>]

\* One that the cache was too busy for is.
Transient(h) == Set(h, "off") /\ UNCHANGED attempted /\ pins' = [pins EXCEPT ![h] = <<>>]

\* start_pack_verifier: a pack whose witness was not yet attempted.
Observe ==
    /\ at["verifier"] = "off" /\ place # Absent /\ attempted # physical_witness
    /\ Set("verifier", "begin") /\ witness' = [witness EXCEPT !["verifier"] = physical_witness]
    /\ UNCHANGED <<place, changes, proofs, attempted, pins, answered, faults>>

\* verify_qa_physical
QaRequest ==
    /\ at["qa"] = "off" /\ place # Absent /\ Set("qa", "begin")
    /\ UNCHANGED <<place, changes, proofs, attempted, witness, pins, answered, faults>>

\* retained_pack: a proof that is there is rechecked and never renewed.
Begin(h) ==
    /\ at[h] = "begin"
    /\ \/ proofs # Absent /\ Ended(h) /\ UNCHANGED faults
       \/ proofs = Absent /\ Set(h, "hash") /\ UNCHANGED <<attempted, pins, faults>>
       \/ Fault /\ Transient(h)
    /\ UNCHANGED <<place, changes, proofs, witness, answered>>

\* Mutant: the identity is that of whatever has the name when all members are hashed.
Pins_Late(h) == physical_witness

Pins(h) == pins[h]

\* hash_member, and the identity of the descriptor that was hashed.
hash_member(h, m) ==
    /\ at[h] = "hash" /\ m \notin DOMAIN pins[h]
    /\ IF place[m].good
       THEN /\ pins' = [pins EXCEPT ![h] = [k \in DOMAIN pins[h] \cup {m} |->
                                              IF k = m THEN place[m].id ELSE pins[h][k]]]
            /\ UNCHANGED <<at, attempted>>
       ELSE Ended(h)
    /\ UNCHANGED <<place, changes, proofs, witness, answered, faults>>

\* The tokenizer and template that are embedded in the weights, read again from their names: those
\* of the pack if all bytes are as they were signed, and otherwise perhaps.
sidecars == IF \A m \in Member : place[m].good THEN {TRUE} ELSE BOOLEAN

\* All members hashed: the sidecars are compared and the identities rechecked.
Recheck(h) ==
    /\ at[h] = "hash" /\ DOMAIN pins[h] = Member
    /\ \E same \in sidecars :
         IF same /\ recheck(Pins(h)) THEN Set(h, "publish") /\ UNCHANGED <<attempted, pins>>
         ELSE Ended(h)
    /\ UNCHANGED <<place, changes, proofs, witness, answered, faults>>

\* The lock is taken again, and another's proof is not replaced.
Publish(h) ==
    /\ at[h] = "publish"
    /\ \/ proofs = Absent /\ proofs' = Pins(h) /\ Ended(h) /\ UNCHANGED faults
       \/ proofs # Absent /\ Transient(h) /\ UNCHANGED <<proofs, faults>>
       \/ Fault /\ Transient(h) /\ UNCHANGED proofs
    /\ UNCHANGED <<place, changes, witness, answered>>

\* What a profile may claim to be, and the record that each claim needs besides those below it.
Level == [imported |-> 2, execution |-> 3, interactive |-> 4]

\* CertificationRecord::apply: a record raises the state of a pack by exactly its own level.
apply(state, l) ==
    IF state >= 2 /\ Level[l] > state /\ (Level[l] = 4 => state >= 3) THEN Level[l] ELSE 0

\* The records that back a profile: a claimed level needs its own and every lower one, each of
\* them signed and for this manifest, and nothing undeclared may lie beside them.
certified(claim, records, undeclared) ==
    LET raise(state, l) ==
            IF Level[claim] < Level[l] THEN state ELSE IF l \in records THEN apply(state, l) ELSE 0
    IN  /\ raise(raise(2, "execution"), "interactive") = Level[claim]
        /\ Level[claim] >= 3 => ~undeclared

Certifications ==
    {certified(claim, records, undeclared) :
        claim \in DOMAIN Level, records \in SUBSET {"execution", "interactive"},
        undeclared \in BOOLEAN}

\* verify_catalog_packs, which never hashes while the background thread runs.
VerifyCatalog ==
    /\ \E backed \in Certifications :
         answered' = IF place # Absent /\ proofs # Absent /\ backed
                     THEN IF recheck(proofs) THEN "verified" ELSE "refused" ELSE "refused"
    /\ UNCHANGED <<place, changes, proofs, attempted, at, witness, pins, faults>>

\* The broker ends: its verifier is cancelled, and the proofs go with the process.
Restart ==
    /\ Fault /\ proofs' = Absent /\ attempted' = Absent /\ at' = [h \in Hasher |-> "off"]
    /\ pins' = [h \in Hasher |-> <<>>] /\ answered' = "none"
    /\ UNCHANGED <<place, changes, witness>>
-----------------------------------------------------------------------------
Hash(h) == Begin(h) \/ Recheck(h) \/ Publish(h) \/ \E m \in Member : hash_member(h, m)

ProofsNext ==
    \/ ImportPack \/ Observe \/ QaRequest \/ VerifyCatalog \/ Restart
    \/ \E m \in Member : ChangeMember(m)
    \/ \E h \in Hasher : Hash(h)

\* The background thread looks at every profile each second, and hashes without waiting.
ProofsFairness == WF_proofVars(Observe) /\ WF_proofVars(Hash("verifier"))

ProofsSpec == ProofsInit /\ [][ProofsNext]_proofVars /\ ProofsFairness

\* A request is told that a pack is verified only while every member in place has the bytes that
\* were hashed, whatever changed while or after they were.
VerifiedIsInPlace == answered = "verified" => \A m \in Member : place[m].good

Whole == IF place = Absent THEN FALSE ELSE \A m \in Member : place[m].good

=============================================================================
