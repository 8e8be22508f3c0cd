-------------------------- MODULE PairedCheckpoint --------------------------
(* The paired resource authority of resources/checkpoint.rs: the broker's resource ledger and
   request journal are published together under a TPM NV index of their own.  A publication
   stages backups of the new closure (objects), an immutable record of its manifest (records)
   and a preparation (prepared.json), extends the index, replaces the one member that changed,
   and confirms (head.json).  Whatever interrupts it is repaired only by the reviewed recovery,
   which restores the closure that the index selects.

   A manifest is identified with its digest, here a number, and the value of the index with the
   manifest extended last.  Archives are members that never change, and are left out. *)
EXTENDS Integers, Sequences, FiniteSets, TLAPS

CONSTANTS Ledgers,       \* what ledger.json can hold
          Requests,      \* what requests.json can hold
          Genesis,       \* the pair that was enrolled
          Damaged,       \* bytes of a member that no manifest names
          None,
          MaxManifests,  \* bound: manifests staged, the enrolled one included
          MaxFaults      \* bound: damages and rollbacks of the stopped broker's files

File == {"ledger", "requests"}
Content == Ledgers \cup Requests
Pair == [ledger : Ledgers, requests : Requests]

ASSUME PairAssumption ==
    /\ Genesis \in Pair /\ Ledgers \cap Requests = {}
    /\ Damaged \notin Content
    /\ MaxManifests \in Nat \ {0} /\ MaxFaults \in Nat

Id == 1 .. MaxManifests

\* A created file: open with create_new, write, sync the file and its directory.  What was
\* written and not synced is read back by any process until the power fails.
Settled == {"absent", "partial", "durable"}
FileState == Settled \cup {"cached", "unlinked"}
Visible(state) == state \in {"partial", "cached", "durable"}
Complete(state) == state \in {"cached", "durable"}
AfterPowerLoss(state) ==
    CASE state = "partial" -> {"absent", "partial"}
      [] state \in {"cached", "unlinked"} -> Settled
      [] OTHER -> {state}

\* Only what was not settled can change.
AllAfterPowerLoss(files) ==
    LET open == {f \in DOMAIN files : files[f] \notin {"absent", "durable"}}
        left == {s \in [open -> Settled] : \A f \in open : s[f] \in AfterPowerLoss(files[f])}
    IN  {[f \in DOMAIN files |-> IF f \in open THEN s[f] ELSE files[f]] : s \in left}

\* The next state of a file that create is working on.
Created(state) ==
    CASE state = "partial" -> "cached"
      [] state = "cached" -> "durable"
      [] OTHER -> "partial"

VARIABLES pair, pairs,   \* ledger.json and requests.json, and what a power loss may leave
          head, heads,   \* head.json, and what a power loss may leave
          prepared,      \* prepared.json
          objects,       \* the backups, by content
          records,       \* the immutable records, by manifest
          members,       \* what each manifest says
          nv, extended,  \* the manifest extended last, and all that were
          pc,            \* where the holder of ledger.lock is
          current,       \* the manifest its authority is bound to; 0: offline repair
          next,          \* the manifest being published or restored
          trusted,       \* backups taken for durable because they could be read
          faults         \* damages and rollbacks so far

vars == <<pair, pairs, head, heads, prepared, objects, records, members, nv, extended,
          pc, current, next, trusted, faults>>
disk == <<pair, pairs, head, heads, prepared, objects, records>>
tpm == <<nv, extended, faults>>
holder == <<current, next>>

Steps == {"down", "ready", "object", "record", "prepare", "advance", "publish", "published",
          "confirm", "confirmed", "remove", "removed", "repair", "repairing", "deleted"}

Found == [File -> Content \cup {Damaged}]

\* The types of the state: what is published or restored is a manifest that was staged.
TypeOK ==
    /\ pair \in Found /\ pairs \in SUBSET Found
    /\ head \in Id /\ heads \in SUBSET Id
    /\ prepared \in [id : 0 .. MaxManifests, state : FileState]
    /\ objects \in [Content -> FileState] /\ records \in [Id -> FileState]
    /\ members \in Seq(Pair) /\ Len(members) \in Id
    /\ nv \in extended /\ extended \in SUBSET (1 .. Len(members))
    /\ pc \in Steps
    /\ current \in 0 .. MaxManifests /\ next \in 0 .. Len(members)
    /\ trusted \in SUBSET Content /\ faults \in 0 .. MaxFaults

Closure(id) == {members[id][f] : f \in File}

\* The enrolled state: prepare_genesis, the index provisioned, complete_genesis.
Init ==
    /\ pair = Genesis /\ pairs = {pair}
    /\ head = 1 /\ heads = {1}
    /\ prepared = [id |-> 0, state |-> "absent"]
    /\ objects = [c \in Content |->
                     IF \E f \in File : Genesis[f] = c THEN "durable" ELSE "absent"]
    /\ records = [id \in Id |-> IF id = 1 THEN "durable" ELSE "absent"]
    /\ members = <<Genesis>>
    /\ nv = 1 /\ extended = {1}
    /\ pc = "down" /\ current = 0 /\ next = 0
    /\ trusted = {} /\ faults = 0
-----------------------------------------------------------------------------
(* The broker's session *)

Open_Unanchored ==
    /\ pc = "down" /\ pc' = "ready"
    /\ ~Visible(prepared.state)
    /\ pair = members[head]
    /\ current' = head
    /\ UNCHANGED <<disk, members, tpm, next, trusted>>

Open ==
    /\ pc = "down" /\ pc' = "ready"
    /\ ~Visible(prepared.state)
    /\ nv = head
    /\ pair = members[head]
    /\ current' = head
    /\ UNCHANGED <<disk, members, tpm, next, trusted>>

\* verify: the files are still what the authority is bound to.
Verified == head = current /\ nv = current /\ pair = members[current]

Stage(f, c) ==
    /\ pc = "ready"
    /\ Verified
    /\ c # pair[f]
    /\ \A o \in Content : objects[o] # "partial"
    /\ Len(members) < MaxManifests
    /\ members' = Append(members, [pair EXCEPT ![f] = c])
    /\ next' = Len(members')
    /\ pc' = IF Visible(objects[c]) THEN "record" ELSE "object"
    /\ trusted' = IF objects[c] = "cached" THEN trusted \cup {c} ELSE trusted
    /\ UNCHANGED <<disk, tpm, current>>

\* The one backup that stage has to create.
Target == CHOOSE c \in Closure(next) : \A f \in File : pair[f] # c

CreateObject_Unsynced ==
    /\ pc = "object"
    /\ objects' = [objects EXCEPT ![Target] = Created(@)]
    /\ pc' = IF objects[Target] = "partial" THEN "record" ELSE "object"
    /\ UNCHANGED <<pair, pairs, head, heads, prepared, records, members, tpm, holder, trusted>>

CreateObject ==
    /\ pc = "object"
    /\ objects' = [objects EXCEPT ![Target] = Created(@)]
    /\ pc' = IF objects[Target] = "cached" THEN "record" ELSE "object"
    /\ trusted' = IF objects[Target] = "cached" THEN trusted \ {Target} ELSE trusted
    /\ UNCHANGED <<pair, pairs, head, heads, prepared, records, members, tpm, holder>>

CreateRecord ==
    /\ pc = "record"
    /\ records' = [records EXCEPT ![next] = Created(@)]
    /\ pc' = IF records[next] = "cached" THEN "prepare" ELSE "record"
    /\ UNCHANGED <<pair, pairs, head, heads, prepared, objects, members, tpm, holder, trusted>>

\* The sync of the directory is also one of head.json.
CreatePrepared ==
    /\ pc = "prepare"
    /\ prepared' = [id |-> next, state |-> Created(prepared.state)]
    /\ pc' = IF prepared.state = "cached" THEN "advance" ELSE "prepare"
    /\ heads' = IF prepared.state = "cached" THEN {head} ELSE heads
    /\ UNCHANGED <<pair, pairs, head, objects, records, members, tpm, holder, trusted>>

\* verify again, and the extension.  A reply that is lost is an Advance and then a Fail.
Advance ==
    /\ pc = "advance" /\ pc' = "publish"
    /\ Verified
    /\ nv' = next /\ extended' = extended \cup {next}
    /\ UNCHANGED <<disk, members, holder, trusted, faults>>

PublishMember ==
    /\ pc = "publish" /\ pc' = "published"
    /\ pair' = members[next] /\ pairs' = pairs \cup {pair'}
    /\ UNCHANGED <<head, heads, prepared, objects, records, members, tpm, holder, trusted>>

SyncMember ==
    /\ pc = "published" /\ pc' = "confirm"
    /\ pairs' = {pair}
    /\ UNCHANGED <<pair, head, heads, prepared, objects, records, members, tpm, holder, trusted>>

ConfirmHead ==
    /\ \/ pc = "confirm"
       \/ pc = "repair" /\ pair = members[next]
    /\ pc' = "confirmed"
    /\ head' = next /\ heads' = heads \cup {next}
    /\ UNCHANGED <<pair, pairs, prepared, objects, records, members, tpm, holder, trusted>>

SyncHead ==
    /\ pc = "confirmed" /\ pc' = "remove"
    /\ heads' = {head}
    /\ UNCHANGED <<pair, pairs, head, prepared, objects, records, members, tpm, holder, trusted>>

RemovePrepared ==
    /\ pc = "remove" /\ pc' = "removed"
    /\ prepared' = IF Visible(prepared.state) THEN [prepared EXCEPT !.state = "unlinked"]
                   ELSE prepared
    /\ UNCHANGED <<pair, pairs, head, heads, objects, records, members, tpm, holder, trusted>>

\* The answer of publish, or of recover, which ends with the broker still stopped.
SyncRemoved ==
    /\ pc = "removed" /\ pc' = IF current = 0 THEN "down" ELSE "ready"
    /\ prepared' = [id |-> 0, state |-> "absent"]
    /\ current' = IF current = 0 THEN 0 ELSE next
    /\ next' = 0
    /\ UNCHANGED <<pair, pairs, head, heads, objects, records, members, tpm, trusted>>

\* transaction with nothing to change: an acknowledged retry syncs what it found.
Acknowledge ==
    /\ pc = "ready"
    /\ pairs' = {pair}
    /\ UNCHANGED <<pair, head, heads, prepared, objects, records, members, tpm, pc, holder,
                   trusted>>
-----------------------------------------------------------------------------
(* Retention and recovery *)

\* delete_unreferenced: neither the current closure nor a backup that a record names.
DeleteObject(c) ==
    /\ pc = "ready" /\ pc' = "deleted"
    /\ Verified
    /\ Complete(objects[c])
    /\ c \notin Closure(current)
    /\ \A id \in Id : /\ records[id] # "partial"
                      /\ Complete(records[id]) => c \notin Closure(id)
    /\ objects' = [objects EXCEPT ![c] = "unlinked"]
    /\ UNCHANGED <<pair, pairs, head, heads, prepared, records, members, tpm, holder, trusted>>

DeleteRecord(id) ==
    /\ pc = "ready" /\ pc' = "deleted"
    /\ Verified
    /\ Complete(records[id])
    /\ id # current
    /\ records' = [records EXCEPT ![id] = "unlinked"]
    /\ UNCHANGED <<pair, pairs, head, heads, prepared, objects, members, tpm, holder, trusted>>

SyncDeleted ==
    /\ pc = "deleted" /\ pc' = "ready"
    /\ objects' = [c \in Content |-> IF objects[c] = "unlinked" THEN "absent" ELSE objects[c]]
    /\ records' = [id \in Id |-> IF records[id] = "unlinked" THEN "absent" ELSE records[id]]
    /\ UNCHANGED <<pair, pairs, head, heads, prepared, members, tpm, holder, trusted>>

\* selected: some manifest on the disk has the digest that the index holds.
Selectable ==
    \/ head = nv
    \/ prepared.id = nv /\ Complete(prepared.state)
    \/ Complete(records[nv])

\* recover: the grant names the digest of the review that recovery_review computes, and recover
\* computes it again, so an approval is of the state that it is used in.  Both select the
\* manifest and check its backups (validate_backups).  The incident directory is created in the
\* resource directory, and the sync that follows is one of the members too.
Recover ==
    /\ pc = "down" /\ pc' = "repair"
    /\ Selectable
    /\ \A c \in Closure(nv) : Complete(objects[c])
    /\ next' = nv
    /\ pairs' = {pair}
    /\ UNCHANGED <<pair, head, heads, prepared, objects, records, members, tpm, current, trusted>>

RepairMember(f) ==
    /\ pc = "repair" /\ pc' = "repairing"
    /\ pair[f] # members[next][f]
    /\ pair' = [pair EXCEPT ![f] = members[next][f]] /\ pairs' = pairs \cup {pair'}
    /\ UNCHANGED <<head, heads, prepared, objects, records, members, tpm, holder, trusted>>

SyncRepair ==
    /\ pc = "repairing" /\ pc' = "repair"
    /\ pairs' = {pair}
    /\ UNCHANGED <<pair, head, heads, prepared, objects, records, members, tpm, holder, trusted>>
-----------------------------------------------------------------------------
(* The environment *)

\* An error fences the session for good, and a death ends it.
Fail ==
    /\ pc # "down" /\ pc' = "down"
    /\ current' = 0 /\ next' = 0
    /\ UNCHANGED <<disk, members, tpm, trusted>>

PowerLoss ==
    /\ pc' = "down" /\ current' = 0 /\ next' = 0
    /\ pair' \in pairs /\ pairs' = {pair'}
    /\ head' \in heads /\ heads' = {head'}
    /\ \E state \in AfterPowerLoss(prepared.state) : prepared' = [prepared EXCEPT !.state = state]
    /\ objects' \in AllAfterPowerLoss(objects)
    /\ records' \in AllAfterPowerLoss(records)
    /\ UNCHANGED <<members, tpm, trusted>>

\* While the broker is stopped, a member loses its bytes, or the directories get the mutable
\* files of an older time back.
Damage(f) ==
    /\ pc = "down" /\ faults < MaxFaults /\ faults' = faults + 1
    /\ pair' = [pair EXCEPT ![f] = Damaged] /\ pairs' = {pair'}
    /\ UNCHANGED <<head, heads, prepared, objects, records, members, nv, extended, pc, holder,
                   trusted>>

RollBack(id) ==
    /\ pc = "down" /\ faults < MaxFaults /\ faults' = faults + 1
    /\ id \in extended
    /\ head' = id /\ heads' = {id}
    /\ pair' = members[id] /\ pairs' = {pair'}
    /\ prepared' = [id |-> 0, state |-> "absent"]
    /\ UNCHANGED <<objects, records, members, nv, extended, pc, holder, trusted>>

Next ==
    \/ Open \/ \E c \in Ledgers : Stage("ledger", c)
    \/ \E c \in Requests : Stage("requests", c)
    \/ CreateObject \/ CreateRecord \/ CreatePrepared \/ Advance \/ PublishMember \/ SyncMember
    \/ ConfirmHead \/ SyncHead \/ RemovePrepared \/ SyncRemoved \/ Acknowledge
    \/ \E c \in Content : DeleteObject(c)
    \/ \E id \in Id : DeleteRecord(id) \/ RollBack(id)
    \/ SyncDeleted \/ Recover
    \/ \E f \in File : RepairMember(f) \/ Damage(f)
    \/ SyncRepair \/ Fail \/ PowerLoss

Spec == Init /\ [][Next]_vars
-----------------------------------------------------------------------------
(* What the authority keeps *)

\* Whatever was interrupted, deleted, damaged or put back, the manifest that the index selects
\* can be found, and every backup it names is whole, except one that stage took over from an
\* interrupted publication without a sync of its own.
PairIsRecoverable ==
    /\ Selectable
    /\ \A c \in Closure(nv) : c \notin trusted => Complete(objects[c])

\* "The durable prepared closure precedes NV": once the index is extended, no power loss can take
\* a backup of the closure that it selects.
DurableClosurePrecedesNV ==
    pc = "publish" => \A c \in Closure(next) : objects[c] = "durable"

\* The session as its holder sees it: between the extension and the answer it promises nothing.
Answering == pc \in {"publish", "published", "confirm", "confirmed", "remove", "removed"}
Session ==
    IF pc \in {"down", "repair", "repairing"} \/ current = 0 THEN "closed"
    ELSE IF Answering THEN "unanswered" ELSE "open"

Selected == members[nv]
Seen == IF Session = "open" THEN pair ELSE None

Promised == INSTANCE ProtectedPair
    WITH Initial <- Genesis, value <- Selected, session <- Session, seen <- Seen

\* The files and the index together are one protected pair: a session reads what the index
\* selects, only its own extension changes that, and no rollback or repair shows an older pair.
ImplementsProtectedPair == Promised!Spec
-----------------------------------------------------------------------------
(* PairIsRecoverable and ImplementsProtectedPair, for any contents and any number of manifests and
   faults.  The argument is the order of a publication: backups, then the record, then the
   extension.  So the record of the manifest that the index selects is durable, and so is each of
   its backups that stage did not take on trust; retention keeps both because a session only
   deletes after it found the index at its own manifest. *)

Staging == {"object", "record", "prepare", "advance"}

\* The backups of a manifest are durable, but for those taken on trust.
Backed(id) == \A c \in Closure(id) : c \notin trusted => objects[c] = "durable"

SelectedIsDurable == records[nv] = "durable" /\ Backed(nv)

\* What is staged is new, and differs from the selected pair in one member.
StagedIsNew ==
    pc \in Staging =>
        /\ next = Len(members) /\ next \notin extended
        /\ pair = members[nv]
        /\ \E c \in Closure(next) : /\ \A f \in File : pair[f] # c
                                   /\ Closure(next) \subseteq Closure(nv) \cup {c}

\* The order of a publication.
StagedInOrder ==
    /\ pc \in {"record", "prepare", "advance"} => Backed(next)
    /\ pc \in {"prepare", "advance"} => records[next] = "durable"

\* Who holds the lock, and what was published before the answer.
HolderIsKnown ==
    /\ pc \in {"down", "repair", "repairing"} => current = 0
    /\ pc \in Staging \cup {"ready", "publish", "published", "confirm", "deleted"} => current # 0
    /\ Answering \/ pc \in Staging \cup {"repair", "repairing"} => next # 0
    /\ Answering /\ current # 0 => nv = next
    /\ Answering /\ current # 0 /\ pc # "publish" => pair = members[next]

IInv == TypeOK /\ SelectedIsDurable /\ StagedIsNew /\ StagedInOrder /\ HolderIsKnown

LEMMA PairFound ==
    ASSUME NEW p \in Pair
    PROVE  p \in Found /\ \A f \in File : p[f] \in Content
BY DEF Pair, Found, File, Content

LEMMA Facts ==
    ASSUME TypeOK
    PROVE  /\ nv \in 1 .. Len(members) /\ Len(members) \in Id /\ Len(members) \in Nat
           /\ \A id \in 1 .. Len(members) : /\ members[id] \in Pair /\ members[id] \in Found
                                           /\ Closure(id) \subseteq Content
                                           /\ id \in Id
<1>1. /\ nv \in 1 .. Len(members) /\ Len(members) \in Id /\ Len(members) \in Nat
      /\ members \in Seq(Pair) /\ MaxManifests \in Nat
  BY PairAssumption DEF TypeOK, Id
<1>2. ASSUME NEW id \in 1 .. Len(members)
      PROVE  members[id] \in Pair /\ members[id] \in Found /\ Closure(id) \subseteq Content /\ id \in Id
  <2>1. members[id] \in Pair /\ id \in Id
    BY <1>1, <1>2 DEF Id
  <2>2. QED
    BY <2>1, PairFound DEF Closure
<1>3. QED
  BY <1>1, <1>2

LEMMA CreatedState ==
    ASSUME NEW state \in FileState
    PROVE  Created(state) \in FileState /\ (state = "cached" => Created(state) = "durable")
BY DEF FileState, Settled, Created

\* A power loss takes nothing that is durable.
LEMMA PowerLossKeepsDurable ==
    ASSUME NEW D, NEW files \in [D -> FileState], NEW left \in AllAfterPowerLoss(files)
    PROVE  left \in [D -> FileState] /\ \A f \in D : files[f] = "durable" => left[f] = "durable"
<1> DEFINE open == {f \in D : files[f] \notin {"absent", "durable"}}
<1>1. PICK s \in [open -> Settled] : left = [f \in D |-> IF f \in open THEN s[f] ELSE files[f]]
  BY DEF AllAfterPowerLoss
<1>2. \A f \in D : left[f] \in FileState
  BY <1>1 DEF FileState, Settled
<1>3. QED
  BY <1>1, <1>2

\* Steps that stage, extend and delete nothing, and end or do not begin a publication.
LEMMA SettledStep ==
    ASSUME IInv, UNCHANGED <<objects, records, members, nv, extended, trusted>>
    PROVE  SelectedIsDurable'
BY DEF IInv, SelectedIsDurable, Backed, Closure

LEMMA CloseStep ==
    ASSUME IInv, UNCHANGED <<objects, records, members, nv, extended, trusted>>,
           pc' = "down", current' = 0
    PROVE  SelectedIsDurable' /\ StagedIsNew' /\ StagedInOrder' /\ HolderIsKnown'
<1>1. SelectedIsDurable'
  BY SettledStep
<1>2. StagedIsNew' /\ StagedInOrder' /\ HolderIsKnown'
  BY DEF StagedIsNew, StagedInOrder, HolderIsKnown, Staging, Answering
<1>3. QED
  BY <1>1, <1>2

LEMMA OpenStep == ASSUME IInv, Open PROVE IInv'
<1>1. TypeOK'
  BY PairAssumption DEF IInv, TypeOK, Open, disk, tpm, Steps, Id
<1>2. SelectedIsDurable'
  BY SettledStep DEF Open, disk, tpm
<1>3. StagedIsNew' /\ StagedInOrder'
  BY DEF Open, StagedIsNew, StagedInOrder, Staging
<1>4. HolderIsKnown'
  BY PairAssumption DEF IInv, TypeOK, HolderIsKnown, Open, Staging, Answering, Id
<1>5. QED
  BY <1>1, <1>2, <1>3, <1>4 DEF IInv

LEMMA FailStep == ASSUME IInv, Fail PROVE IInv'
<1>1. TypeOK'
  BY PairAssumption, Facts DEF IInv, TypeOK, Fail, disk, tpm, Steps
<1>2. QED
  BY <1>1, CloseStep DEF IInv, Fail, disk, tpm

LEMMA FaultStep ==
    ASSUME IInv, \/ \E f \in File : Damage(f)
                 \/ \E id \in Id : RollBack(id)
    PROVE  IInv'
<1>1. ASSUME NEW f \in File, Damage(f) PROVE IInv'
  <2>1. pair' \in Found /\ pairs' \in SUBSET Found /\ faults' \in 0 .. MaxFaults
    BY <1>1, PairAssumption DEF IInv, TypeOK, Damage, Found
  <2>2. TypeOK'
    BY <1>1, <2>1 DEF IInv, TypeOK, Damage, holder
  <2>3. QED
    BY <1>1, <2>2, CloseStep DEF IInv, HolderIsKnown, Damage, holder
<1>2. ASSUME NEW id \in Id, RollBack(id) PROVE IInv'
  <2>1. id \in 1 .. Len(members) /\ members[id] \in Found
    BY <1>2, Facts DEF IInv, TypeOK, RollBack
  <2>2. pair' \in Found /\ pairs' \in SUBSET Found /\ faults' \in 0 .. MaxFaults
    BY <1>2, <2>1, PairAssumption DEF IInv, TypeOK, RollBack
  <2>3. prepared' \in [id : 0 .. MaxManifests, state : FileState]
    BY <1>2, PairAssumption DEF RollBack, FileState, Settled
  <2>4. TypeOK'
    BY <1>2, <2>2, <2>3 DEF IInv, TypeOK, RollBack, holder
  <2>5. QED
    BY <1>2, <2>4, CloseStep DEF IInv, HolderIsKnown, RollBack, holder
<1>3. QED
  BY <1>1, <1>2

LEMMA PowerLossStep == ASSUME IInv, PowerLoss PROVE IInv'
<1>1. /\ objects' \in [Content -> FileState] /\ records' \in [Id -> FileState]
      /\ \A c \in Content : objects[c] = "durable" => objects'[c] = "durable"
      /\ \A id \in Id : records[id] = "durable" => records'[id] = "durable"
  BY PowerLossKeepsDurable DEF IInv, TypeOK, PowerLoss
<1>2. prepared' \in [id : 0 .. MaxManifests, state : FileState]
  <2>1. PICK state \in AfterPowerLoss(prepared.state) : prepared' = [prepared EXCEPT !.state = state]
    BY DEF PowerLoss
  <2>2. state \in FileState
    BY <2>1 DEF AfterPowerLoss, FileState, Settled, IInv, TypeOK
  <2>3. QED
    BY <2>1, <2>2 DEF IInv, TypeOK
<1>3. TypeOK'
  BY <1>1, <1>2, PairAssumption, Facts DEF IInv, TypeOK, PowerLoss, tpm, Steps
<1>4. SelectedIsDurable'
  BY <1>1, Facts DEF IInv, SelectedIsDurable, Backed, Closure, PowerLoss, tpm
<1>5. StagedIsNew' /\ StagedInOrder' /\ HolderIsKnown'
  BY DEF PowerLoss, StagedIsNew, StagedInOrder, HolderIsKnown, Staging, Answering
<1>6. QED
  BY <1>3, <1>4, <1>5 DEF IInv

\* From the extension to the answer, the repair, and a retry that was acknowledged.
LEMMA FinishStep ==
    ASSUME IInv, \/ PublishMember \/ SyncMember \/ ConfirmHead \/ SyncHead \/ RemovePrepared
                 \/ SyncRemoved \/ Acknowledge \/ Recover \/ SyncRepair
                 \/ \E f \in File : RepairMember(f)
    PROVE  IInv'
<1>1. UNCHANGED <<objects, records, members, nv, extended, trusted, faults>>
  BY DEF PublishMember, SyncMember, ConfirmHead, SyncHead, RemovePrepared, SyncRemoved, Acknowledge,
         Recover, SyncRepair, RepairMember, tpm
<1>2. SelectedIsDurable'
  BY <1>1, SettledStep
<1>3. pc' \in Steps \ Staging
  BY DEF PublishMember, SyncMember, ConfirmHead, SyncHead, RemovePrepared, SyncRemoved, Acknowledge,
         Recover, SyncRepair, RepairMember, Steps, Staging
<1>4. StagedIsNew' /\ StagedInOrder'
  BY <1>3 DEF StagedIsNew, StagedInOrder, Staging
<1>5. /\ pair \in Found /\ pairs \in SUBSET Found /\ head \in Id /\ heads \in SUBSET Id
      /\ prepared \in [id : 0 .. MaxManifests, state : FileState] /\ next \in 0 .. Len(members)
      /\ current \in 0 .. MaxManifests /\ MaxManifests \in Nat
  BY PairAssumption DEF IInv, TypeOK
<1>6. next # 0 => members[next] \in Pair /\ members[next] \in Found /\ next \in Id
  BY <1>5, Facts DEF IInv
<1>7. ASSUME /\ pair' \in Found /\ pairs' \in SUBSET Found /\ head' \in Id /\ heads' \in SUBSET Id
             /\ prepared' \in [id : 0 .. MaxManifests, state : FileState]
             /\ next' \in 0 .. Len(members) /\ current' \in 0 .. MaxManifests,
             HolderIsKnown'
      PROVE  IInv'
  BY <1>1, <1>2, <1>3, <1>4, <1>7 DEF IInv, TypeOK
<1>8. CASE PublishMember
  <2>1. next # 0
    BY <1>8 DEF IInv, HolderIsKnown, Answering, PublishMember
  <2>2. HolderIsKnown'
    BY <1>8, <2>1 DEF IInv, HolderIsKnown, Answering, Staging, PublishMember, tpm, holder
  <2>3. QED
    BY <1>5, <1>6, <1>7, <1>8, <2>1, <2>2 DEF PublishMember, holder
<1>9. CASE SyncMember
  <2>1. HolderIsKnown'
    BY <1>9 DEF IInv, HolderIsKnown, Answering, Staging, SyncMember, tpm, holder
  <2>2. QED
    BY <1>5, <1>7, <1>9, <2>1 DEF SyncMember, holder
<1>10. CASE ConfirmHead
  <2>1. next # 0 /\ (current # 0 => pc = "confirm")
    BY <1>10 DEF IInv, HolderIsKnown, Answering, ConfirmHead
  <2>2. HolderIsKnown'
    BY <1>10, <2>1 DEF IInv, HolderIsKnown, Answering, Staging, ConfirmHead, tpm, holder
  <2>3. QED
    BY <1>5, <1>6, <1>7, <1>10, <2>1, <2>2 DEF ConfirmHead, holder
<1>11. CASE SyncHead
  <2>1. HolderIsKnown'
    BY <1>11 DEF IInv, HolderIsKnown, Answering, Staging, SyncHead, tpm, holder
  <2>2. QED
    BY <1>5, <1>7, <1>11, <2>1 DEF SyncHead, holder
<1>12. CASE RemovePrepared
  <2>1. HolderIsKnown'
    BY <1>12 DEF IInv, HolderIsKnown, Answering, Staging, RemovePrepared, tpm, holder
  <2>2. prepared' \in [id : 0 .. MaxManifests, state : FileState]
    BY <1>5, <1>12 DEF RemovePrepared, FileState
  <2>3. QED
    BY <1>5, <1>7, <1>12, <2>1, <2>2 DEF RemovePrepared, holder
<1>13. CASE SyncRemoved
  <2>1. next # 0
    BY <1>13 DEF IInv, HolderIsKnown, Answering, SyncRemoved
  <2>2. HolderIsKnown'
    BY <1>13, <2>1 DEF HolderIsKnown, Answering, Staging, SyncRemoved
  <2>3. prepared' \in [id : 0 .. MaxManifests, state : FileState]
    BY <1>5, <1>13 DEF SyncRemoved, FileState, Settled
  <2>4. current' \in 0 .. MaxManifests /\ next' \in 0 .. Len(members)
    BY <1>5, <1>6, <1>13, <2>1, Facts DEF SyncRemoved, Id, IInv
  <2>5. QED
    BY <1>5, <1>7, <1>13, <2>2, <2>3, <2>4 DEF SyncRemoved
<1>14. CASE Acknowledge
  <2>1. HolderIsKnown'
    BY <1>14 DEF IInv, HolderIsKnown, Answering, Staging, Acknowledge, tpm, holder
  <2>2. QED
    BY <1>5, <1>7, <1>14, <2>1 DEF Acknowledge, holder
<1>15. CASE Recover
  <2>1. nv \in 1 .. Len(members) /\ Len(members) \in Nat
    BY Facts DEF IInv
  <2>2. HolderIsKnown'
    BY <1>15, <2>1 DEF IInv, HolderIsKnown, Answering, Staging, Recover, tpm
  <2>3. QED
    BY <1>5, <1>7, <1>15, <2>1, <2>2 DEF Recover
<1>16. CASE SyncRepair
  <2>1. HolderIsKnown'
    BY <1>16 DEF IInv, HolderIsKnown, Answering, Staging, SyncRepair, tpm, holder
  <2>2. QED
    BY <1>5, <1>7, <1>16, <2>1 DEF SyncRepair, holder
<1>17. ASSUME NEW f \in File, RepairMember(f) PROVE IInv'
  <2>1. next # 0
    BY <1>17 DEF IInv, HolderIsKnown, RepairMember
  <2>2. HolderIsKnown'
    BY <1>17 DEF IInv, HolderIsKnown, Answering, Staging, RepairMember, tpm, holder
  <2>3. pair' \in Found
    BY <1>5, <1>6, <1>17, <2>1, PairFound DEF RepairMember, Found
  <2>4. QED
    BY ZenonT(30), <1>5, <1>7, <1>17, <2>2, <2>3 DEF RepairMember, holder
<1>18. QED
  BY <1>8, <1>9, <1>10, <1>11, <1>12, <1>13, <1>14, <1>15, <1>16, <1>17

\* Retention spares the manifest that the index selects and the backups it names.
LEMMA DeleteStep ==
    ASSUME IInv, \/ \E c \in Content : DeleteObject(c)
                 \/ \E id \in Id : DeleteRecord(id)
                 \/ SyncDeleted
    PROVE  IInv'
<1>1. /\ UNCHANGED <<pair, pairs, head, heads, prepared, members, nv, extended, current, next, trusted,
                     faults>>
      /\ pc' \in {"ready", "deleted"} /\ pc \in {"ready", "deleted"}
  BY DEF DeleteObject, DeleteRecord, SyncDeleted, tpm, holder
<1>2. /\ objects' \in [Content -> FileState] /\ records' \in [Id -> FileState]
      /\ \A c \in Closure(nv) : objects[c] = "durable" => objects'[c] = "durable"
      /\ records[nv] = "durable" => records'[nv] = "durable"
  <2>0. /\ objects \in [Content -> FileState] /\ records \in [Id -> FileState]
        /\ nv \in Id /\ Closure(nv) \subseteq Content
    BY Facts DEF IInv, TypeOK
  <2>1. ASSUME NEW c \in Content, DeleteObject(c) PROVE <1>2!:
    BY <2>0, <2>1 DEF DeleteObject, Verified, FileState
  <2>2. ASSUME NEW id \in Id, DeleteRecord(id) PROVE <1>2!:
    BY <2>0, <2>2 DEF DeleteRecord, Verified, FileState
  <2>3. CASE SyncDeleted
    BY <2>0, <2>3 DEF SyncDeleted, FileState, Settled
  <2>4. QED
    BY <2>1, <2>2, <2>3
<1>3. TypeOK'
  BY <1>1, <1>2 DEF IInv, TypeOK, Steps
<1>4. SelectedIsDurable'
  BY <1>1, <1>2 DEF IInv, SelectedIsDurable, Backed, Closure
<1>5. StagedIsNew' /\ StagedInOrder'
  BY <1>1 DEF StagedIsNew, StagedInOrder, Staging
<1>6. HolderIsKnown'
  BY <1>1 DEF IInv, HolderIsKnown, Staging, Answering
<1>7. QED
  BY <1>3, <1>4, <1>5, <1>6 DEF IInv

\* A manifest that is staged changes one member, to contents that neither member has.
LEMMA StagedPair ==
    ASSUME NEW old \in Pair, NEW f \in File, NEW c, c # old[f],
           \/ f = "ledger" /\ c \in Ledgers
           \/ f = "requests" /\ c \in Requests
    PROVE  /\ [old EXCEPT ![f] = c] \in Pair /\ [old EXCEPT ![f] = c][f] = c
           /\ c \in Content /\ \A g \in File : old[g] # c
           /\ \A g \in File : [old EXCEPT ![f] = c][g] \in {c, old[g]}
BY PairAssumption DEF Pair, File, Content

LEMMA StageStep ==
    ASSUME IInv, NEW f \in File, NEW c, Stage(f, c),
           \/ f = "ledger" /\ c \in Ledgers
           \/ f = "requests" /\ c \in Requests
    PROVE  IInv'
<1> DEFINE staged == [pair EXCEPT ![f] = c]
           n == Len(members) + 1
<1>1. /\ pair = members[nv] /\ pair \in Pair /\ c # pair[f] /\ nv \in 1 .. Len(members)
      /\ Len(members) \in Nat /\ members \in Seq(Pair) /\ MaxManifests \in Nat
      /\ Len(members) < MaxManifests /\ current # 0 /\ extended \in SUBSET (1 .. Len(members))
  BY Facts, PairAssumption DEF IInv, TypeOK, HolderIsKnown, Stage, Verified
<1>2. /\ staged \in Pair /\ staged[f] = c /\ c \in Content /\ \A g \in File : pair[g] # c
      /\ \A g \in File : staged[g] \in {c, pair[g]}
  <2>1. pair \in Pair /\ c # pair[f]
    BY ZenonT(30), <1>1
  <2>2. QED
    BY <2>1, StagedPair
<1>3. /\ members' = Append(members, staged) /\ next' = Len(members')
      /\ UNCHANGED <<pair, pairs, head, heads, prepared, objects, records, nv, extended, faults, current>>
  BY DEF Stage, disk, tpm
<1> HIDE DEF staged
<1>4. /\ members' \in Seq(Pair) /\ Len(members') = n /\ members'[n] = staged
      /\ \A id \in 1 .. Len(members) : members'[id] = members[id]
  BY <1>1, <1>2, <1>3
<1>5. pc' \in {"object", "record"} /\ trusted' \in SUBSET Content /\ trusted \subseteq trusted'
  BY <1>2 DEF Stage, IInv, TypeOK
<1>6. TypeOK'
  <2>1. next' \in 0 .. Len(members') /\ Len(members') \in Id
    BY <1>1, <1>3, <1>4 DEF Id
  <2>2. nv' \in extended' /\ extended' \in SUBSET (1 .. Len(members'))
    BY <1>1, <1>3, <1>4 DEF IInv, TypeOK
  <2>3. QED
    BY <1>3, <1>4, <1>5, <2>1, <2>2 DEF IInv, TypeOK, Steps
<1>7. (Closure(nv))' = Closure(nv) /\ Closure(nv) = {pair[g] : g \in File}
  BY <1>1, <1>3, <1>4 DEF Closure
<1>8. SelectedIsDurable'
  BY <1>3, <1>5, <1>7 DEF IInv, SelectedIsDurable, Backed
<1>9. (Closure(next))' = {staged[g] : g \in File}
  BY <1>3, <1>4 DEF Closure
<1>10. c \in (Closure(next))' /\ (Closure(next))' \subseteq (Closure(nv))' \cup {c}
  BY <1>2, <1>7, <1>9
<1>11. StagedIsNew'
  <2>1. next' = Len(members') /\ next' \notin extended'
    BY <1>1, <1>3, <1>4
  <2>2. pair' = members'[nv']
    BY <1>1, <1>3, <1>4
  <2>3. QED
    BY ZenonT(30), <1>2, <1>3, <1>10, <2>1, <2>2 DEF StagedIsNew
<1>12. StagedInOrder'
  <2>1. SUFFICES ASSUME pc' = "record" PROVE (Backed(next))'
    BY <1>5 DEF StagedInOrder
  <2>2. objects[c] = "durable" \/ c \in trusted'
    BY <1>2, <2>1 DEF Stage, Visible
  <2>3. \A d \in (Closure(nv))' : d \notin trusted' => objects'[d] = "durable"
    BY <1>8 DEF SelectedIsDurable, Backed
  <2>4. QED
    BY <1>3, <1>10, <2>2, <2>3 DEF Backed
<1>13. HolderIsKnown'
  BY <1>1, <1>3, <1>4, <1>5 DEF HolderIsKnown, Staging, Answering
<1>14. QED
  BY <1>6, <1>8, <1>11, <1>12, <1>13 DEF IInv

\* The backup that is created is not one of the selected manifest.
LEMMA TargetFacts ==
    ASSUME IInv, pc = "object"
    PROVE  /\ Target \in Content /\ Target \notin Closure(nv)
           /\ Closure(next) \subseteq Closure(nv) \cup {Target}
<1>1. next \in 1 .. Len(members) /\ pair = members[nv] /\ Closure(next) \subseteq Content
  BY Facts DEF IInv, TypeOK, HolderIsKnown, StagedIsNew, Staging
<1>2. PICK c \in Closure(next) : /\ \A f \in File : pair[f] # c
                                 /\ Closure(next) \subseteq Closure(nv) \cup {c}
  BY DEF IInv, StagedIsNew, Staging
<1>3. Target \in Closure(next) /\ \A f \in File : pair[f] # Target
  BY <1>2 DEF Target
<1>4. Target \notin Closure(nv)
  BY <1>1, <1>3 DEF Closure
<1>5. QED
  BY <1>1, <1>2, <1>3, <1>4

LEMMA CreateObjectStep == ASSUME IInv, CreateObject PROVE IInv'
<1> DEFINE t == Target
<1>1. /\ t \in Content /\ t \notin Closure(nv) /\ Closure(next) \subseteq Closure(nv) \cup {t}
  BY TargetFacts DEF CreateObject
<1>2. /\ UNCHANGED <<pair, pairs, head, heads, prepared, records, members, nv, extended, current, next,
                     faults>>
      /\ pc = "object" /\ objects' = [objects EXCEPT ![t] = Created(@)]
      /\ pc' = IF objects[t] = "cached" THEN "record" ELSE "object"
      /\ trusted' = IF objects[t] = "cached" THEN trusted \ {t} ELSE trusted
  BY DEF CreateObject, tpm, holder
<1> HIDE DEF t
<1>3. /\ objects' \in [Content -> FileState] /\ \A c \in Content \ {t} : objects'[c] = objects[c]
      /\ objects[t] = "cached" => objects'[t] = "durable"
  BY <1>1, <1>2, CreatedState DEF IInv, TypeOK
<1>4. TypeOK'
  BY <1>2, <1>3 DEF IInv, TypeOK, Steps
<1>5. Closure(nv) \subseteq Content /\ (Closure(nv))' = Closure(nv) /\ (Closure(next))' = Closure(next)
  BY <1>2, Facts DEF IInv, Closure
<1>6. SelectedIsDurable'
  BY <1>1, <1>2, <1>3, <1>5 DEF IInv, SelectedIsDurable, Backed
<1>7. StagedIsNew'
  BY ZenonT(30), <1>2 DEF IInv, StagedIsNew, Staging, Closure
<1>8. StagedInOrder'
  <2>1. SUFFICES ASSUME pc' = "record" PROVE (Backed(next))'
    BY <1>2 DEF StagedInOrder
  <2>2. QED
    BY <1>1, <1>2, <1>3, <1>5, <1>6, <2>1 DEF Backed, SelectedIsDurable
<1>9. HolderIsKnown'
  BY <1>2 DEF IInv, HolderIsKnown, Staging, Answering
<1>10. QED
  BY <1>4, <1>6, <1>7, <1>8, <1>9 DEF IInv

LEMMA CreateRecordStep == ASSUME IInv, CreateRecord PROVE IInv'
<1>1. /\ UNCHANGED <<pair, pairs, head, heads, prepared, objects, members, nv, extended, current, next,
                     trusted, faults>>
      /\ pc = "record" /\ records' = [records EXCEPT ![next] = Created(@)]
      /\ pc' = IF records[next] = "cached" THEN "prepare" ELSE "record"
  BY DEF CreateRecord, tpm, holder
<1>2. next \in Id /\ next # nv /\ nv \in Id
  BY <1>1, Facts DEF IInv, TypeOK, StagedIsNew, Staging
<1>3. /\ records' \in [Id -> FileState] /\ records'[nv] = records[nv]
      /\ records[next] = "cached" => records'[next] = "durable"
  BY <1>1, <1>2, CreatedState DEF IInv, TypeOK
<1>4. TypeOK'
  BY <1>1, <1>3 DEF IInv, TypeOK, Steps
<1>5. SelectedIsDurable' /\ StagedIsNew'
  BY ZenonT(30), <1>1, <1>3 DEF IInv, SelectedIsDurable, StagedIsNew, Backed, Closure, Staging
<1>6. StagedInOrder'
  BY <1>1, <1>3 DEF IInv, StagedInOrder, Backed, Closure
<1>7. HolderIsKnown'
  BY <1>1 DEF IInv, HolderIsKnown, Staging, Answering
<1>8. QED
  BY <1>4, <1>5, <1>6, <1>7 DEF IInv

LEMMA CreatePreparedStep == ASSUME IInv, CreatePrepared PROVE IInv'
<1>1. /\ UNCHANGED <<pair, pairs, head, objects, records, members, nv, extended, current, next, trusted,
                     faults>>
      /\ pc = "prepare" /\ pc' \in {"prepare", "advance"}
      /\ prepared' = [id |-> next, state |-> Created(prepared.state)]
      /\ heads' \in {{head}, heads}
  BY DEF CreatePrepared, tpm, holder
<1>2. prepared' \in [id : 0 .. MaxManifests, state : FileState]
  BY <1>1, CreatedState, Facts, PairAssumption DEF IInv, TypeOK, Id
<1>3. TypeOK'
  BY ZenonT(30), <1>1, <1>2 DEF IInv, TypeOK, Steps
<1>4. SelectedIsDurable' /\ StagedIsNew'
  BY ZenonT(30), <1>1 DEF IInv, SelectedIsDurable, StagedIsNew, Backed, Closure, Staging
<1>5. StagedInOrder'
  BY <1>1 DEF IInv, StagedInOrder, Backed, Closure
<1>6. HolderIsKnown'
  BY <1>1 DEF IInv, HolderIsKnown, Staging, Answering
<1>7. QED
  BY <1>3, <1>4, <1>5, <1>6 DEF IInv

\* The index is extended to what is backed.
LEMMA AdvanceStep == ASSUME IInv, Advance PROVE IInv'
<1>1. /\ UNCHANGED <<pair, pairs, head, heads, prepared, objects, records, members, current, next,
                     trusted, faults>>
      /\ pc = "advance" /\ pc' = "publish" /\ nv' = next /\ extended' = extended \cup {next}
  BY DEF Advance, disk, holder
<1>2. next \in 1 .. Len(members)
  BY <1>1, Facts DEF IInv, TypeOK, HolderIsKnown, StagedIsNew, Staging
<1>3. TypeOK'
  BY <1>1, <1>2 DEF IInv, TypeOK, Steps
<1>4. SelectedIsDurable'
  BY <1>1 DEF IInv, StagedInOrder, SelectedIsDurable, Backed, Closure
<1>5. StagedIsNew' /\ StagedInOrder'
  BY <1>1 DEF StagedIsNew, StagedInOrder, Staging
<1>6. HolderIsKnown'
  BY <1>1 DEF IInv, HolderIsKnown, Staging, Answering
<1>7. QED
  BY <1>3, <1>4, <1>5, <1>6 DEF IInv

LEMMA InitIInv == ASSUME Init PROVE IInv
<1>1. /\ Genesis \in Pair /\ Genesis \in Found /\ 1 \in Id /\ MaxManifests \in Nat /\ MaxFaults \in Nat
      /\ \A f \in File : Genesis[f] \in Content
  BY PairAssumption, PairFound DEF Id
<1>2. /\ members \in Seq(Pair) /\ Len(members) = 1 /\ members[1] = Genesis
  BY <1>1 DEF Init
<1>3. objects \in [Content -> FileState] /\ records \in [Id -> FileState]
  BY DEF Init, FileState, Settled
<1>4. prepared \in [id : 0 .. MaxManifests, state : FileState]
  BY <1>1 DEF Init, FileState, Settled
<1>5. TypeOK
  BY <1>1, <1>2, <1>3, <1>4 DEF Init, TypeOK, Steps
<1>6. SelectedIsDurable
  BY <1>1, <1>2 DEF Init, SelectedIsDurable, Backed, Closure
<1>7. StagedIsNew /\ StagedInOrder /\ HolderIsKnown
  BY DEF Init, StagedIsNew, StagedInOrder, HolderIsKnown, Staging, Answering
<1>8. QED
  BY <1>5, <1>6, <1>7 DEF IInv

LEMMA StutterIInv == ASSUME IInv, UNCHANGED vars PROVE IInv'
<1>1. TypeOK' /\ SelectedIsDurable' /\ StagedInOrder'
  BY DEF vars, IInv, TypeOK, SelectedIsDurable, StagedInOrder, Backed, Closure
<1>2. StagedIsNew' /\ HolderIsKnown'
  BY ZenonT(30) DEF vars, IInv, StagedIsNew, HolderIsKnown, Closure, Answering
<1>3. QED
  BY <1>1, <1>2 DEF IInv

LEMMA NextIInv == ASSUME IInv, [Next]_vars PROVE IInv'
<1>1. CASE \/ \E c \in Ledgers : Stage("ledger", c)
           \/ \E c \in Requests : Stage("requests", c)
  BY <1>1, StageStep DEF File
<1>2. CASE Open \/ CreateObject \/ CreateRecord \/ CreatePrepared \/ Advance \/ Fail \/ PowerLoss
  BY <1>2, OpenStep, CreateObjectStep, CreateRecordStep, CreatePreparedStep, AdvanceStep, FailStep,
     PowerLossStep
<1>3. CASE \/ PublishMember \/ SyncMember \/ ConfirmHead \/ SyncHead \/ RemovePrepared
           \/ SyncRemoved \/ Acknowledge \/ Recover \/ SyncRepair
           \/ \E f \in File : RepairMember(f)
  BY <1>3, FinishStep
<1>4. CASE \/ \E c \in Content : DeleteObject(c)
           \/ \E id \in Id : DeleteRecord(id)
           \/ SyncDeleted
  BY <1>4, DeleteStep
<1>5. CASE \/ \E f \in File : Damage(f)
           \/ \E id \in Id : RollBack(id)
  BY <1>5, FaultStep
<1>6. CASE UNCHANGED vars
  BY <1>6, StutterIInv
<1>7. QED
  BY <1>1, <1>2, <1>3, <1>4, <1>5, <1>6 DEF Next

\* The inductive invariant of the paired authority, over every interruption, power loss, rollback and
\* deletion.
THEOREM PairInvariance == Spec => []IInv
<1>1. Init => IInv
  BY InitIInv
<1>2. IInv /\ [Next]_vars => IInv'
  BY NextIInv
<1>3. QED
  BY <1>1, <1>2, PTL DEF Spec

\* What recovery_review needs is there: the record of the selected manifest, and its backups but for
\* those that stage took over unsynced.
THEOREM PairIsRecoverableHolds == Spec => []PairIsRecoverable
<1>1. IInv => PairIsRecoverable
  BY DEF IInv, SelectedIsDurable, Backed, PairIsRecoverable, Selectable, Complete
<1>2. QED
  BY <1>1, PairInvariance, PTL
-----------------------------------------------------------------------------
(* The refinement, step by step: every step but the opening, the extension, the answer and the end of a
   session leaves the promised pair, the session and what it sees as they are. *)

LEMMA SessionIs ==
    /\ Session = "closed" <=> pc \in {"down", "repair", "repairing"} \/ current = 0
    /\ Session = "unanswered" <=> Answering /\ current # 0
    /\ Session \in {"closed", "unanswered", "open"}
BY DEF Session, Answering

\* A step that leaves the index, the manifests that there were and what a session reads alone.
LEMMA SameSession ==
    ASSUME Selected' = Selected, Session' = Session, Session = "open" => pair' = pair
    PROVE  UNCHANGED Promised!vars
BY DEF Promised!vars, Seen

LEMMA EndSession ==
    ASSUME Selected' = Selected, Session' = "closed"
    PROVE  [Promised!Next]_Promised!vars
BY SessionIs DEF Promised!Next, Promised!Close, Promised!vars, Seen

LEMMA OpenRefines == ASSUME IInv, Open PROVE Promised!Open
<1>1. Session = "closed"
  BY SessionIs DEF Open
<1>2. Session' = "open"
  <2>1. current' # 0 /\ pc' = "ready"
    BY PairAssumption DEF Open, IInv, TypeOK, Id
  <2>2. QED
    BY <2>1 DEF Session, Answering
<1>3. Selected' = Selected /\ pair' = Selected
  BY DEF Open, Selected, disk, tpm
<1>4. QED
  BY <1>1, <1>2, <1>3 DEF Promised!Open, Seen

LEMMA AdvanceRefines == ASSUME IInv, Advance PROVE Promised!Change
<1>1. pc = "advance" /\ pc' = "publish" /\ current # 0 /\ current' = current /\ nv' = next
      /\ members' = members
  BY DEF IInv, HolderIsKnown, Staging, Advance, holder
<1>2. Session = "open" /\ Session' = "unanswered"
  BY <1>1 DEF Session, Answering
<1>3. next \in 1 .. Len(members)
  BY <1>1, Facts DEF IInv, TypeOK, HolderIsKnown, StagedIsNew, Staging
<1>4. Selected' \in Pair
  BY <1>1, <1>3, Facts DEF IInv, Selected
<1>5. QED
  BY <1>2, <1>4 DEF Promised!Change, Seen

\* SyncRemoved answers a publication, or ends a repair.
LEMMA SyncRemovedRefines == ASSUME IInv, SyncRemoved PROVE [Promised!Next]_Promised!vars
<1>1. /\ pc = "removed" /\ UNCHANGED <<pair, members, nv>> /\ next # 0
      /\ current # 0 => nv = next /\ pair = members[next]
      /\ pc' = IF current = 0 THEN "down" ELSE "ready"
      /\ current' = IF current = 0 THEN 0 ELSE next
  BY DEF IInv, HolderIsKnown, Answering, SyncRemoved, tpm
<1>2. Selected' = Selected
  BY <1>1 DEF Selected
<1>3. CASE current = 0
  <2>1. Session' = "closed"
    BY <1>1, <1>3 DEF Session
  <2>2. QED
    BY <1>2, <2>1, EndSession
<1>4. CASE current # 0
  <2>1. Session = "unanswered" /\ Session' = "open"
    BY <1>1, <1>4 DEF Session, Answering
  <2>2. Seen' = Selected
    BY <1>1, <1>4, <2>1 DEF Seen, Selected
  <2>3. QED
    BY <1>2, <2>1, <2>2 DEF Promised!Next, Promised!Answer
<1>5. QED
  BY <1>3, <1>4

LEMMA StageRefines ==
    ASSUME IInv, NEW f \in File, NEW c, Stage(f, c),
           \/ f = "ledger" /\ c \in Ledgers
           \/ f = "requests" /\ c \in Requests
    PROVE  UNCHANGED Promised!vars
<1>1. /\ pc = "ready" /\ pc' \in {"object", "record"} /\ UNCHANGED <<current, pair, nv>>
      /\ members' = Append(members, [pair EXCEPT ![f] = c])
  BY DEF Stage, disk, tpm
<1>2. nv \in 1 .. Len(members) /\ members \in Seq(Pair) /\ pair \in Pair /\ c # pair[f]
  BY ZenonT(30), Facts DEF IInv, TypeOK, Stage, Verified
<1>3. [pair EXCEPT ![f] = c] \in Pair
  BY ZenonT(30), <1>2, StagedPair
<1>4. members'[nv] = members[nv]
  BY <1>1, <1>2, <1>3
<1>5. Session' = Session
  BY <1>1 DEF Session, Answering
<1>6. QED
  BY ZenonT(30), <1>1, <1>4, <1>5, SameSession DEF Selected

\* The other steps of the holder.
LEMMA QuietRefines ==
    ASSUME IInv,
           \/ CreateObject \/ CreateRecord \/ CreatePrepared \/ PublishMember \/ SyncMember
           \/ ConfirmHead \/ SyncHead \/ RemovePrepared \/ Acknowledge \/ Recover \/ SyncRepair
           \/ SyncDeleted \/ (\E f \in File : RepairMember(f) \/ Damage(f))
           \/ (\E c \in Content : DeleteObject(c))
           \/ (\E id \in Id : DeleteRecord(id) \/ RollBack(id))
           \/ UNCHANGED vars
    PROVE  UNCHANGED Promised!vars
<1>1. UNCHANGED <<members, nv, current>>
  BY DEF CreateObject, CreateRecord, CreatePrepared, PublishMember, SyncMember, ConfirmHead, SyncHead,
         RemovePrepared, Acknowledge, Recover, SyncRepair, SyncDeleted, RepairMember, Damage,
         DeleteObject, DeleteRecord, RollBack, vars, tpm, holder
<1>2. \/ pc' = pc
      \/ {pc, pc'} \subseteq Staging \cup {"ready", "deleted"}
      \/ {pc, pc'} \subseteq {"publish", "published", "confirm", "confirmed", "remove", "removed"}
      \/ {pc, pc'} \subseteq {"down", "repair", "repairing"}
      \/ current = 0
  BY DEF CreateObject, CreateRecord, CreatePrepared, PublishMember, SyncMember, ConfirmHead, SyncHead,
         RemovePrepared, Acknowledge, Recover, SyncRepair, SyncDeleted, RepairMember, Damage,
         DeleteObject, DeleteRecord, RollBack, vars, Staging, IInv, HolderIsKnown
<1>3. Session' = Session
  BY <1>1, <1>2 DEF Session, Answering, Staging
<1>4. Session = "open" => pair' = pair
  BY SessionIs
     DEF Answering, CreateObject, CreateRecord, CreatePrepared, PublishMember, SyncMember, ConfirmHead, SyncHead,
         RemovePrepared, Acknowledge, Recover, SyncRepair, SyncDeleted, RepairMember, Damage,
         DeleteObject, DeleteRecord, RollBack, vars, IInv, HolderIsKnown
<1>5. QED
  BY <1>1, <1>3, <1>4, SameSession DEF Selected

LEMMA EndRefines == ASSUME Fail \/ PowerLoss PROVE [Promised!Next]_Promised!vars
<1>1. Selected' = Selected /\ Session' = "closed"
  BY DEF Fail, PowerLoss, Selected, Session, tpm
<1>2. QED
  BY <1>1, EndSession

LEMMA NextRefines == ASSUME IInv, [Next]_vars PROVE [Promised!Next]_Promised!vars
<1>1. CASE Open \/ Advance
  BY <1>1, OpenRefines, AdvanceRefines DEF Promised!Next
<1>2. CASE SyncRemoved \/ Fail \/ PowerLoss
  BY <1>2, SyncRemovedRefines, EndRefines
<1>3. CASE \/ \E c \in Ledgers : Stage("ledger", c)
           \/ \E c \in Requests : Stage("requests", c)
  <2>1. UNCHANGED Promised!vars
    BY <1>3, StageRefines DEF File
  <2>2. QED
    BY <2>1
<1>4. CASE ~(\/ Open \/ Advance \/ SyncRemoved \/ Fail \/ PowerLoss
             \/ \E c \in Ledgers : Stage("ledger", c)
             \/ \E c \in Requests : Stage("requests", c))
  <2>1. UNCHANGED Promised!vars
    BY <1>4, QuietRefines DEF Next
  <2>2. QED
    BY <2>1
<1>5. QED
  BY <1>1, <1>2, <1>3, <1>4

\* The files, the index and the lock implement the protected pair: publish, recover and retention show a
\* session only what the index selects, whatever was interrupted, lost or put back.
THEOREM PairImplementsProtectedPair == Spec => ImplementsProtectedPair
<1>1. Init => Promised!Init
  BY SessionIs DEF Init, Promised!Init, Selected, Seen
<1>2. IInv /\ [Next]_vars => [Promised!Next]_Promised!vars
  BY NextRefines
<1>3. QED
  BY <1>1, <1>2, PairInvariance, PTL DEF Spec, ImplementsProtectedPair, Promised!Spec
=============================================================================
