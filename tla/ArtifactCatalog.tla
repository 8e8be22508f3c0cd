--------------------------- MODULE ArtifactCatalog ---------------------------
(***************************************************************************)
(* artifact_catalog.rs and artifact_catalog/gc.rs: one principal's catalog *)
(* of published artifacts.  Receipts live in SQLite; their bytes live in   *)
(* pending/, objects/ and retained/, the evidence of deletions in gc/.     *)
(*                                                                         *)
(* One process at a time holds the root's flock, from open_domain until    *)
(* the Catalog is dropped.  A directory change is visible at once and      *)
(* durable after the next sync of the file system, so disks holds what a   *)
(* power loss can leave.  A committed transaction is durable (WAL,         *)
(* synchronous=FULL).                                                      *)
(***************************************************************************)
EXTENDS Integers, Sequences, FiniteSets, FiniteSetTheorems, TLAPS

CONSTANTS
    Request, Artifact, Content,
    MaxRecords,   \* MAX_RECORDS
    MaxFiles,     \* MAX_FILES
    MaxMarks,     \* MAX_MARKS
    MaxInode,     \* bound: files ever created
    Grace,        \* grace_seconds of every mark
    Width,        \* the widest interval protected time may report
    MaxTime,      \* bound: the end of time
    None, Torn

Receipt == [request : Request, artifact : Artifact, version : 1 .. MaxRecords, content : Content]
File == [bytes : Content \cup {Torn}, inode : 1 .. MaxInode]
Target == [area : {"object"}, name : Content] \cup [area : {"retained"}, name : Request]
\* at is the true time of the observation, which the file does not record.
Mark == [target : Target, inode : 1 .. MaxInode, not_before : Nat, at : Nat]
Intent == [mark : Mark, head : 0 .. MaxRecords]

ASSUME CatalogAssumption ==
    /\ {MaxRecords, MaxFiles, MaxMarks, MaxInode, Grace, Width, MaxTime} \subseteq Nat
    /\ Request \cap Content = {} /\ {None, Torn} \cap (Request \cup Content) = {}
    /\ None \notin File

VARIABLES
    disk,      \* pending, objects, retained and gc as a reader finds them
    disks,     \* what a power loss can leave of them
    receipts,  \* the receipts table, in sequence
    step,      \* where the process holding the root's lock is
    job,       \* what it was asked to do
    inode,     \* files created so far
    now,       \* true time
    answered   \* receipts some caller was told are committed

files == <<disk, disks, inode>>
catalogVars == <<disk, disks, receipts, step, job, inode, now, answered>>

NoEvidence == [marks |-> {}, intents |-> {}, outcomes |-> {}, torn |-> FALSE]

\* initialize_domain has created the empty members and the schema.
CatalogInit ==
    /\ disk = [pending |-> [r \in Request |-> None], objects |-> [c \in Content |-> None],
               retained |-> [r \in Request |-> None], gc |-> NoEvidence]
    /\ disks = {disk}
    /\ receipts = <<>> /\ step = "idle" /\ job = None
    /\ inode = 0 /\ now = 0
    /\ answered = {}
-----------------------------------------------------------------------------
\* A change of the namespace is visible at once, and may be lost.
Change(d) == disk' = d /\ disks' = disks \cup {d}
\* One sync_all makes every earlier change durable: the journal is ordered.
SyncFiles == disk' = disk /\ disks' = {disk}

Names(directory) == {n \in DOMAIN directory : directory[n] # None}
Committed == {receipts[i] : i \in DOMAIN receipts}
Current(a) == Cardinality({r \in Committed : r.artifact = a})
Referenced == {r.content : r \in Committed}
FileAt(d, t) == IF t.area = "object" THEN d.objects[t.name] ELSE d.retained[t.name]

\* validate_sidecar: evidence parses, each intent continues a mark and each outcome an intent.
ValidateSidecar(gc) ==
    /\ ~gc.torn
    /\ \A i \in gc.intents : i.mark \in gc.marks
    /\ gc.outcomes \subseteq gc.intents
    /\ \A s \in {gc.marks, gc.intents, gc.outcomes} : Cardinality(s) <= MaxMarks

\* inventory, over the directories d: versions are a chain, every receipt has
\* its bytes, objects are what their name says, preparations belong to no receipt.
Inventory(d) ==
    /\ \A a \in Artifact :
          {r.version : r \in {c \in Committed : c.artifact = a}} = 1 .. Current(a)
    /\ \A c \in Names(d.objects) : d.objects[c].bytes = c
    /\ Referenced \subseteq Names(d.objects)
    /\ Names(d.pending) \cap Names(d.retained) = {}
    /\ (Names(d.pending) \cup Names(d.retained)) \cap {r.request : r \in Committed} = {}
    /\ Cardinality(Names(d.objects)) + Cardinality(Names(d.pending))
          + Cardinality(Names(d.retained)) <= MaxFiles

\* open_domain: the lock is free, layout accepts gc/, inventory accepts the rest.
Opens == step = "idle" /\ ValidateSidecar(disk.gc) /\ Inventory(disk)

Go(s) == step' = s /\ UNCHANGED job
Leave == step' = "idle" /\ job' = None
-----------------------------------------------------------------------------
(* publish_with_hook.  job is the proposed receipt.                        *)

Replayed(r) == \E c \in Committed : c.request = r.request
RoomFor(d) == Cardinality(Names(d.objects)) + Cardinality(Names(d.pending))
                 + Cardinality(Names(d.retained)) < MaxFiles

\* A publication that is not a replay goes on only for a fresh request of the
\* version that follows the current one, with room for it.
Admissible(r) ==
    /\ ~Replayed(r)
    /\ disk.retained[r.request] = None
    /\ r.version = Current(r.artifact) + 1
    /\ Len(receipts) < MaxRecords

PublishStep(r) ==
    IF Replayed(r) THEN "replay"
    ELSE IF disk.objects[r.content] # None THEN "object"
    ELSE IF disk.pending[r.request] # None THEN "prepared"
    ELSE "write"

BeginPublish(r) ==
    /\ Opens
    /\ \/ r \in Committed
       \/ /\ Admissible(r)
          /\ disk.objects[r.content] # None => disk.pending[r.request] = None
          /\ disk.objects[r.content] = None /\ disk.pending[r.request] = None => RoomFor(disk)
    /\ step' = PublishStep(r) /\ job' = r
    /\ UNCHANGED <<files, receipts, now, answered>>

\* write_member creates the file, then writes it: it exists before it is whole.
CreatePreparation ==
    /\ step = "write" /\ inode < MaxInode
    /\ inode' = inode + 1
    /\ Change([disk EXCEPT !.pending[job.request] = [bytes |-> Torn, inode |-> inode']])
    /\ Go("writing") /\ UNCHANGED <<receipts, now, answered>>

WritePreparation ==
    /\ step = "writing"
    /\ disk' = [disk EXCEPT !.pending[job.request].bytes = job.content]
    /\ disks' = {disk'}
    /\ Go("prepared") /\ UNCHANGED <<inode, receipts, now, answered>>

\* The preparation is read back, synced, and renamed over no existing object.
RenameIn ==
    /\ step = "prepared"
    /\ disk.pending[job.request].bytes = job.content
    /\ disk.objects[job.content] = None
    /\ LET renamed == [disk EXCEPT !.objects[job.content] = disk.pending[job.request],
                                   !.pending[job.request] = None]
       IN disk' = renamed /\ disks' = {disk, renamed}
    /\ Go("renamed") /\ UNCHANGED <<inode, receipts, now, answered>>

\* rename's three syncs.
SyncRename ==
    /\ step = "renamed" /\ SyncFiles
    /\ Go("object") /\ UNCHANGED <<inode, receipts, now, answered>>

SyncObject_NoSync ==
    /\ step = "object"
    /\ disk.objects[job.content] # None /\ disk.objects[job.content].bytes = job.content
    /\ Go("commit") /\ UNCHANGED <<files, receipts, now, answered>>
\* The object is read back and synced before the transaction begins.
SyncObject ==
    /\ step = "object"
    /\ disk.objects[job.content] # None /\ disk.objects[job.content].bytes = job.content
    /\ SyncFiles
    /\ Go("commit") /\ UNCHANGED <<inode, receipts, now, answered>>

\* artifacts, versions and receipts change in one transaction, which compares
\* the version again.
CommitReceipt ==
    /\ step = "commit" /\ Current(job.artifact) + 1 = job.version
    /\ receipts' = Append(receipts, job)
    /\ Go("committed") /\ UNCHANGED <<files, now, answered>>

\* A replay syncs the object again; a commit syncs the root.  Then the caller hears.
AnswerPublish ==
    /\ step \in {"replay", "committed"}
    /\ SyncFiles /\ answered' = answered \cup {job}
    /\ Leave /\ UNCHANGED <<inode, receipts, now>>
-----------------------------------------------------------------------------
(* retain_checked: a preparation nobody will finish is set aside.          *)

BeginRetain(q) ==
    /\ Opens /\ \/ disk.pending[q] # None
                \/ disk.retained[q] # None
    /\ step' = IF disk.retained[q] # None THEN "retained" ELSE "retain"
    /\ job' = [request |-> q]
    /\ UNCHANGED <<files, receipts, now, answered>>

RenameAside ==
    /\ step = "retain"
    /\ Change([disk EXCEPT !.retained[job.request] = disk.pending[job.request],
                           !.pending[job.request] = None])
    /\ Go("retained") /\ UNCHANGED <<inode, receipts, now, answered>>

SyncRetained ==
    /\ step = "retained" /\ SyncFiles
    /\ Leave /\ UNCHANGED <<inode, receipts, now, answered>>
-----------------------------------------------------------------------------
(* gc.rs: mark an unreferenced file, wait out its grace, delete it.        *)

\* gc_plan: what may be collected at all.
Collectable(t) ==
    /\ FileAt(disk, t) # None
    /\ t.area = "object" => t.name \notin Referenced
    /\ t.area = "retained" => t.name \notin {r.request : r \in Committed}

\* Protected time reports an interval around the true time, Width wide at most.
ObservedLower == {lower \in 0 .. now : now - lower <= Width}
ObservedUpper == now .. now + Width

\* publish refuses a full kind of evidence, and creates the file before writing it.
TornEvidence == [disk EXCEPT !.gc.torn = TRUE]

\* gc_mark_checked: the deadline counts from the latest time it can be now.
BeginMark(t) ==
    /\ Opens /\ Collectable(t) /\ Cardinality(disk.gc.marks) < MaxMarks
    /\ \E upper \in ObservedUpper :
          job' = [target |-> t, inode |-> FileAt(disk, t).inode,
                  not_before |-> upper + Grace, at |-> now]
    /\ job' \notin disk.gc.marks
    /\ Change(TornEvidence) /\ step' = "marking"
    /\ UNCHANGED <<inode, receipts, now, answered>>

WriteMark ==
    /\ step = "marking"
    /\ disk' = [disk EXCEPT !.gc.torn = FALSE, !.gc.marks = @ \cup {job}]
    /\ disks' = {disk'}
    /\ Leave /\ UNCHANGED <<inode, receipts, now, answered>>

\* gc_deletion: the target is still collectable and still the marked inode.
Deletable(m) == Collectable(m.target) /\ FileAt(disk, m.target).inode = m.inode
Elapsed(m) == \E lower \in ObservedLower : lower >= m.not_before

BeginDelete(m) ==
    /\ Opens /\ m \in disk.gc.marks
    /\ Deletable(m) /\ Elapsed(m)
    /\ Cardinality(disk.gc.intents) < MaxMarks
    /\ job' = [mark |-> m, head |-> Len(receipts)]
    /\ job' \notin disk.gc.intents
    /\ Change(TornEvidence) /\ step' = "intending"
    /\ UNCHANGED <<inode, receipts, now, answered>>

WriteIntent ==
    /\ step = "intending"
    /\ disk' = [disk EXCEPT !.gc.torn = FALSE, !.gc.intents = @ \cup {job}]
    /\ disks' = {disk'}
    /\ Go("unlink") /\ UNCHANGED <<inode, receipts, now, answered>>

\* The cut is checked again after the intent is durable, then the file goes.
Unlink ==
    /\ step = "unlink" /\ Deletable(job.mark) /\ Elapsed(job.mark)
    /\ Change(IF job.mark.target.area = "object"
              THEN [disk EXCEPT !.objects[job.mark.target.name] = None]
              ELSE [disk EXCEPT !.retained[job.mark.target.name] = None])
    /\ Go("unlinked") /\ UNCHANGED <<inode, receipts, now, answered>>

\* The removal is synced and re-inspected before its outcome is written.
BeginOutcome ==
    /\ step = "unlinked"
    /\ FileAt(disk, job.mark.target) = None /\ Inventory(disk) /\ Len(receipts) = job.head
    /\ Cardinality(disk.gc.outcomes) < MaxMarks
    /\ disk' = TornEvidence /\ disks' = {disk, TornEvidence}
    /\ Go("concluding") /\ UNCHANGED <<inode, receipts, now, answered>>

WriteOutcome ==
    /\ step = "concluding"
    /\ disk' = [disk EXCEPT !.gc.torn = FALSE, !.gc.outcomes = @ \cup {job}]
    /\ disks' = {disk'}
    /\ Leave /\ UNCHANGED <<inode, receipts, now, answered>>
-----------------------------------------------------------------------------
Stop_LosesCommit ==
    /\ step # "idle" /\ Leave
    /\ receipts' = IF step = "committed" THEN SubSeq(receipts, 1, Len(receipts) - 1) ELSE receipts
    /\ UNCHANGED <<files, now, answered>>
\* An authority check refuses between any two steps, or the process dies: the
\* transaction rolls back, the lock goes, the directories stay as they are.
Stop == step # "idle" /\ Leave /\ UNCHANGED <<files, receipts, now, answered>>

\* Power fails: the machine comes back with one of the possible directories.
PowerLoss ==
    /\ disk' \in disks /\ disks' = {disk'}
    /\ Leave /\ UNCHANGED <<inode, receipts, now, answered>>

Tick == now < MaxTime /\ now' = now + 1 /\ UNCHANGED <<files, receipts, step, job, answered>>

CatalogNext ==
    \/ \E r \in Receipt : BeginPublish(r)
    \/ CreatePreparation \/ WritePreparation \/ RenameIn \/ SyncRename \/ SyncObject
    \/ CommitReceipt \/ AnswerPublish
    \/ \E q \in Request : BeginRetain(q)
    \/ RenameAside \/ SyncRetained
    \/ \E t \in Target : BeginMark(t)
    \/ WriteMark
    \/ \E m \in disk.gc.marks : BeginDelete(m)
    \/ WriteIntent \/ Unlink \/ BeginOutcome \/ WriteOutcome
    \/ Stop \/ PowerLoss \/ Tick

CatalogSpec == CatalogInit /\ [][CatalogNext]_catalogVars
-----------------------------------------------------------------------------
\* Whatever a power loss leaves, every receipt still has its whole object, the
\* versions still form a chain, and no receipt's request is also a preparation:
\* inventory accepts the directories and the catalog is not lost.
AlwaysOpens == \A d \in disks : Inventory(d)

Service == INSTANCE CatalogService WITH Promised <- Receipt, published <- Committed, told <- answered

\* What the workflows rely on: through crashes, power losses and deletions every
\* step of the catalog publishes one fresh receipt, tells one it holds, or neither.
ImplementsCatalogService == Service!ServiceSpec
-----------------------------------------------------------------------------
(* AlwaysOpens, and the promise to the workflows, for any number of requests, artifacts and files.
   The invariant ties the directories to the step of the process that holds the lock: a receipt
   may be committed only where every directory a power loss can leave already has its object. *)

Entry == File \cup {None}
Shape(d) ==
    /\ d = [pending |-> d.pending, objects |-> d.objects, retained |-> d.retained, gc |-> d.gc]
    /\ d.pending \in [Request -> Entry]
    /\ d.objects \in [Content -> Entry]
    /\ d.retained \in [Request -> Entry]

Load(d) == Cardinality(Names(d.objects)) + Cardinality(Names(d.pending))
              + Cardinality(Names(d.retained))
Finite(d) ==
    /\ IsFiniteSet(Names(d.objects)) /\ IsFiniteSet(Names(d.pending))
    /\ IsFiniteSet(Names(d.retained))

Requested == {r.request : r \in Committed}
Chained ==
    \A a \in Artifact : {r.version : r \in {c \in Committed : c.artifact = a}} = 1 .. Current(a)

\* What inventory asks of one state of the directories.
Held(d) ==
    /\ \A c \in Names(d.objects) : d.objects[c].bytes = c
    /\ Referenced \subseteq Names(d.objects)
    /\ Names(d.pending) \cap Names(d.retained) = {}
    /\ (Names(d.pending) \cup Names(d.retained)) \cap Requested = {}
    /\ Load(d) <= MaxFiles

Sound(d) == Shape(d) /\ Finite(d) /\ Held(d)

\* A publication under way is of a fresh request; what it has done so far is in the directories.
Publishing == {"write", "writing", "prepared", "renamed", "object", "commit"}
Working ==
    /\ step \in Publishing =>
          job \in Receipt /\ job.request \notin Requested /\ disk.retained[job.request] = None
    /\ step = "write" => disk.pending[job.request] = None /\ Load(disk) < MaxFiles
    /\ step = "writing" => disk.pending[job.request] \in File
    /\ step \in {"renamed", "object", "commit"} => disk.pending[job.request] = None
    /\ step = "commit" => disks = {disk} /\ disk.objects[job.content] # None
    /\ step \in {"replay", "committed"} => job \in Committed
    /\ step \in {"retain", "retained"} => job.request \in Request

CatalogInv ==
    /\ receipts \in Seq(Receipt) /\ IsFiniteSet(Committed) /\ inode \in Nat
    /\ disk \in disks
    /\ Chained
    /\ \A d \in disks : Sound(d)
    /\ Working

\* A name given to a file, and a name taken away.
LEMMA NameGiven ==
    ASSUME NEW S, NEW f \in [S -> Entry], NEW x \in S, NEW v \in File
    PROVE  /\ [f EXCEPT ![x] = v] \in [S -> Entry]
           /\ Names([f EXCEPT ![x] = v]) = Names(f) \cup {x}
BY CatalogAssumption DEF Entry, Names

LEMMA NameTaken ==
    ASSUME NEW S, NEW f \in [S -> Entry], NEW x
    PROVE  /\ [f EXCEPT ![x] = None] \in [S -> Entry]
           /\ Names([f EXCEPT ![x] = None]) = Names(f) \ {x}
BY ZenonT(30) DEF Entry, Names

\* inventory accepts the directories when the versions are a chain and each is as it should be.
LEMMA InventoryHolds ==
    ASSUME NEW d, Chained, Held(d)
    PROVE  Inventory(d)
BY DEF Chained, Held, Inventory, Load, Requested

\* A step that leaves the receipts alone and adds at most one state of the directories.
LEMMA FilesStep ==
    ASSUME CatalogInv, receipts' = receipts, inode' \in Nat,
           disk' \in disks', disks' \subseteq disks \cup {disk'}, Sound(disk'), Working'
    PROVE  CatalogInv'
<1>1. /\ Committed' = Committed /\ Referenced' = Referenced /\ Requested' = Requested
  BY DEF Committed, Referenced, Requested
<1>2. \A d : Sound(d)' = Sound(d)
  BY <1>1 DEF Sound, Shape, Finite, Held, Load, Names
<1>3. \A d \in disks' : Sound(d)
  BY DEF CatalogInv
<1>4. (\A d \in disks : Sound(d))'
  BY <1>2, <1>3
<1>5. Chained'
  BY ZenonT(30), <1>1 DEF CatalogInv, Chained, Current
<1> QED
  BY <1>1, <1>4, <1>5 DEF CatalogInv

\* A step that leaves the directories alone as well.
LEMMA QuietStep ==
    ASSUME CatalogInv, receipts' = receipts, inode' = inode, disk' = disk,
           disks' = disks \/ disks' = {disk}, Working'
    PROVE  CatalogInv'
<1>1. disk' \in disks' /\ disks' \subseteq disks \cup {disk'} /\ Sound(disk') /\ inode' \in Nat
  BY DEF CatalogInv
<1> QED
  BY <1>1, FilesStep

\* The lock is free, or its holder is at a step of which nothing is said.
LEMMA ElsewhereWorks ==
    ASSUME step' \notin Publishing \cup {"replay", "committed", "retain", "retained"}
    PROVE  Working'
BY DEF Working, Publishing

\* What a publication finds when it begins.
LEMMA BeginPublishStep ==
    ASSUME CatalogInv, NEW r \in Receipt, BeginPublish(r)
    PROVE  CatalogInv'
<1>1. /\ receipts' = receipts /\ inode' = inode /\ disk' = disk /\ disks' = disks
      /\ job' = r /\ step' = PublishStep(r)
  BY DEF BeginPublish, files
<1>2. Committed' = Committed /\ Requested' = Requested
  BY <1>1 DEF Committed, Requested
<1>3. CASE r \in Committed
  <2>1. step' = "replay"
    BY <1>1, <1>3 DEF PublishStep, Replayed
  <2>2. Working'
    BY ZenonT(30), <2>1, <1>1, <1>2, <1>3 DEF Working, Publishing
  <2> QED
    BY <1>1, <2>2, QuietStep
<1>4. CASE r \notin Committed
  <2>1. /\ Admissible(r)
        /\ disk.objects[r.content] # None => disk.pending[r.request] = None
        /\ disk.objects[r.content] = None /\ disk.pending[r.request] = None => RoomFor(disk)
    BY <1>4 DEF BeginPublish
  <2>2. ~Replayed(r) /\ disk.retained[r.request] = None
    BY <2>1 DEF Admissible
  <2>3. r.request \notin Requested
    BY <2>2 DEF Replayed, Requested
  <2>4. /\ step' \in {"object", "prepared", "write"}
        /\ step' = "object" => disk.objects[r.content] # None
        /\ step' = "write" => disk.objects[r.content] = None /\ disk.pending[r.request] = None
    BY <1>1, <2>2 DEF PublishStep
  <2>5. RoomFor(disk) => Load(disk') < MaxFiles
    BY <1>1 DEF RoomFor, Load
  <2>6. Load(disk') = Load(disk)'
    BY DEF Load, Names
  <2>7. Working'
    BY ZenonT(30), <1>1, <1>2, <2>1, <2>2, <2>3, <2>4, <2>5, <2>6 DEF Working, Publishing
  <2> QED
    BY <1>1, <2>7, QuietStep
<1> QED
  BY <1>3, <1>4

\* The numbers of names are numbers.
LEMMA Counts ==
    ASSUME NEW d, Finite(d)
    PROVE  /\ Cardinality(Names(d.objects)) \in Nat
           /\ Cardinality(Names(d.pending)) \in Nat
           /\ Cardinality(Names(d.retained)) \in Nat
BY FS_CardinalityType DEF Finite

\* A new preparation: there was room for it.
LEMMA CreatePreparationStep ==
    ASSUME CatalogInv, CreatePreparation
    PROVE  CatalogInv'
<1> DEFINE q == job.request
           v == [bytes |-> Torn, inode |-> inode']
<1>1. /\ receipts' = receipts /\ inode' = inode + 1 /\ inode < MaxInode
      /\ disk' = [disk EXCEPT !.pending[q] = v] /\ disks' = disks \cup {disk'}
      /\ step = "write" /\ step' = "writing" /\ job' = job
  BY DEF CreatePreparation, Change, Go
<1>2. Sound(disk) /\ Working /\ inode \in Nat /\ MaxInode \in Nat /\ MaxFiles \in Nat
  BY CatalogAssumption DEF CatalogInv
<1>3. /\ job \in Receipt /\ q \in Request /\ q \notin Requested /\ disk.retained[q] = None
      /\ disk.pending[q] = None /\ Load(disk) < MaxFiles
  BY <1>1, <1>2 DEF Working, Publishing, Receipt
<1>4. v \in File
  BY <1>1, <1>2 DEF File
<1>5. Shape(disk) /\ Finite(disk) /\ Held(disk)
  BY <1>2 DEF Sound
<1>6. /\ disk'.pending = [disk.pending EXCEPT ![q] = v] /\ disk'.objects = disk.objects
      /\ disk'.retained = disk.retained
      /\ disk' = [pending |-> disk'.pending, objects |-> disk'.objects,
                  retained |-> disk'.retained, gc |-> disk'.gc]
  BY <1>1, <1>5 DEF Shape
<1>7. disk'.pending \in [Request -> Entry] /\ Names(disk'.pending) = Names(disk.pending) \cup {q}
  BY <1>3, <1>4, <1>5, <1>6, NameGiven DEF Shape
<1>8. Shape(disk')
  BY <1>5, <1>6, <1>7 DEF Shape
<1>9. q \notin Names(disk.pending) /\ q \notin Names(disk.retained)
  BY <1>3 DEF Names
<1>10. /\ IsFiniteSet(Names(disk'.pending))
       /\ Cardinality(Names(disk'.pending)) = Cardinality(Names(disk.pending)) + 1
  BY ZenonT(30), <1>5, <1>7, <1>9, FS_AddElement DEF Finite
<1>11. Finite(disk')
  BY <1>5, <1>6, <1>10 DEF Finite
<1>12. Load(disk') = Load(disk) + 1 /\ Load(disk) \in Nat
  BY <1>5, <1>6, <1>10, Counts DEF Load
<1>13. Held(disk')
  BY <1>2, <1>3, <1>5, <1>6, <1>7, <1>9, <1>12 DEF Held
<1>14. Requested' = Requested
  BY <1>1 DEF Requested, Committed
<1>15. disk'.pending[q] = v
  BY <1>3, <1>5, <1>6 DEF Shape
<1>16. Working'
  BY ZenonT(30), <1>1, <1>3, <1>4, <1>6, <1>14, <1>15 DEF Working, Publishing
<1> QED
  BY <1>1, <1>2, <1>8, <1>11, <1>13, <1>16, FilesStep DEF Sound

\* The preparation is written: no name changes.
LEMMA WritePreparationStep ==
    ASSUME CatalogInv, WritePreparation
    PROVE  CatalogInv'
<1> DEFINE q == job.request
           v == [disk.pending[q] EXCEPT !.bytes = job.content]
<1>1. /\ receipts' = receipts /\ inode' = inode
      /\ disk' = [disk EXCEPT !.pending[q].bytes = job.content] /\ disks' = {disk'}
      /\ step = "writing" /\ step' = "prepared" /\ job' = job
  BY DEF WritePreparation, Go
<1>2. Sound(disk) /\ Working /\ inode \in Nat
  BY DEF CatalogInv
<1>3. /\ job \in Receipt /\ q \in Request /\ job.content \in Content
      /\ q \notin Requested /\ disk.retained[q] = None /\ disk.pending[q] \in File
  BY <1>1, <1>2 DEF Working, Publishing, Receipt
<1>4. v \in File
  BY <1>3 DEF File
<1>5. Shape(disk) /\ Finite(disk) /\ Held(disk)
  BY <1>2 DEF Sound
<1>6. /\ disk'.pending = [disk.pending EXCEPT ![q] = v] /\ disk'.objects = disk.objects
      /\ disk'.retained = disk.retained
      /\ disk' = [pending |-> disk'.pending, objects |-> disk'.objects,
                  retained |-> disk'.retained, gc |-> disk'.gc]
  BY <1>1, <1>5 DEF Shape
<1>7. disk'.pending \in [Request -> Entry] /\ Names(disk'.pending) = Names(disk.pending) \cup {q}
  BY <1>3, <1>4, <1>5, <1>6, NameGiven DEF Shape
<1>8. q \in Names(disk.pending)
  BY <1>3, <1>5, CatalogAssumption DEF Names, Shape
<1>9. Names(disk'.pending) = Names(disk.pending)
  BY ZenonT(30), <1>7, <1>8
<1>10. Shape(disk') /\ Finite(disk') /\ Held(disk')
  BY ZenonT(30), <1>5, <1>6, <1>7, <1>9 DEF Shape, Finite, Held, Load
<1>11. Requested' = Requested
  BY ZenonT(30), <1>1 DEF Requested, Committed
<1>12. Working'
  BY ZenonT(30), <1>1, <1>3, <1>6, <1>11 DEF Working, Publishing
<1> QED
  BY <1>1, <1>2, <1>10, <1>12, FilesStep DEF Sound

\* The preparation is renamed in: one name goes, one comes, and the bytes are what the name says.
LEMMA RenameInStep ==
    ASSUME CatalogInv, RenameIn
    PROVE  CatalogInv'
<1> DEFINE q == job.request
           c == job.content
           v == disk.pending[q]
<1>1. /\ receipts' = receipts /\ inode' = inode
      /\ disk' = [disk EXCEPT !.objects[c] = v, !.pending[q] = None] /\ disks' = {disk, disk'}
      /\ v.bytes = c /\ disk.objects[c] = None
      /\ step = "prepared" /\ step' = "renamed" /\ job' = job
  BY DEF RenameIn, Go
<1>2. Sound(disk) /\ Working /\ inode \in Nat /\ disk \in disks /\ MaxFiles \in Nat
  BY CatalogAssumption DEF CatalogInv
<1>3. /\ job \in Receipt /\ q \in Request /\ c \in Content
      /\ q \notin Requested /\ disk.retained[q] = None
  BY <1>1, <1>2 DEF Working, Publishing, Receipt
<1>4. Shape(disk) /\ Finite(disk) /\ Held(disk)
  BY <1>2 DEF Sound
<1>5. /\ disk'.pending = [disk.pending EXCEPT ![q] = None]
      /\ disk'.objects = [disk.objects EXCEPT ![c] = v]
      /\ disk'.retained = disk.retained
      /\ disk' = [pending |-> disk'.pending, objects |-> disk'.objects,
                  retained |-> disk'.retained, gc |-> disk'.gc]
  BY ZenonT(30), <1>1, <1>4 DEF Shape
<1>6. disk'.pending \in [Request -> Entry] /\ Names(disk'.pending) = Names(disk.pending) \ {q}
  BY <1>4, <1>5, NameTaken DEF Shape
<1>7. v \in Entry
  BY <1>3, <1>4 DEF Shape
<1>8. c \notin Names(disk.objects)
  BY <1>1 DEF Names
<1>9. /\ disk'.objects \in [Content -> Entry] /\ Finite(disk') /\ Load(disk') <= MaxFiles
      /\ Names(disk.objects) \subseteq Names(disk'.objects)
      /\ Names(disk'.objects) \subseteq Names(disk.objects) \cup {c}
  <2>1. CASE v = None
    <3>1. disk'.objects \in [Content -> Entry] /\ Names(disk'.objects) = Names(disk.objects)
      <4>1. disk'.objects = [disk.objects EXCEPT ![c] = None] /\ disk.objects \in [Content -> Entry]
        BY <2>1, <1>4, <1>5 DEF Shape
      <4>2. /\ disk'.objects \in [Content -> Entry]
            /\ Names(disk'.objects) = Names(disk.objects) \ {c}
        BY <4>1, NameTaken
      <4> QED
        BY <4>2, <1>8
    <3>2. q \notin Names(disk.pending)
      BY <2>1 DEF Names
    <3>3. Names(disk'.pending) = Names(disk.pending)
      BY <3>2, <1>6
    <3>4. Finite(disk')
      BY ZenonT(30), <3>1, <3>3, <1>4, <1>5 DEF Finite
    <3>5. Load(disk') = Load(disk)
      BY ZenonT(30), <3>1, <3>3, <1>5 DEF Load
    <3> QED
      BY <3>1, <3>4, <3>5, <1>4 DEF Held
  <2>2. CASE v # None
    <3>1. v \in File
      BY ZenonT(30), <2>2, <1>7 DEF Entry
    <3>2. disk'.objects \in [Content -> Entry] /\ Names(disk'.objects) = Names(disk.objects) \cup {c}
      BY <3>1, <1>3, <1>4, <1>5, NameGiven DEF Shape
    <3>3. q \in Names(disk.pending)
      BY ZenonT(30), <2>2, <1>3, <1>4 DEF Names, Shape
    <3>4. /\ IsFiniteSet(Names(disk'.objects))
          /\ Cardinality(Names(disk'.objects)) = Cardinality(Names(disk.objects)) + 1
      BY ZenonT(30), <3>2, <1>4, <1>8, FS_AddElement DEF Finite
    <3>5. /\ IsFiniteSet(Names(disk'.pending))
          /\ Cardinality(Names(disk'.pending)) = Cardinality(Names(disk.pending)) - 1
      BY ZenonT(30), <3>3, <1>4, <1>6, FS_RemoveElement DEF Finite
    <3>6. Load(disk') = Load(disk)
      BY <3>4, <3>5, <1>4, <1>5, Counts DEF Load
    <3> QED
      BY ZenonT(30), <3>2, <3>4, <3>5, <3>6, <1>4, <1>5 DEF Finite, Held
  <2> QED
    BY <2>1, <2>2
<1>10. disk'.objects[c] = v /\ \A o \in Content \ {c} : disk'.objects[o] = disk.objects[o]
  BY ZenonT(30), <1>3, <1>4, <1>5 DEF Shape
<1>11. \A o \in Names(disk'.objects) : disk'.objects[o].bytes = o
  BY ZenonT(30), <1>1, <1>4, <1>9, <1>10 DEF Held, Names, Shape
<1>12. Held(disk')
  BY ZenonT(30), <1>4, <1>5, <1>6, <1>9, <1>11 DEF Held
<1>13. Shape(disk')
  BY ZenonT(30), <1>4, <1>5, <1>6, <1>9 DEF Shape
<1>14. Requested' = Requested /\ disk'.pending[q] = None
  BY <1>1, <1>3, <1>4, <1>5 DEF Requested, Committed, Shape
<1>15. Working'
  BY ZenonT(30), <1>1, <1>3, <1>5, <1>14 DEF Working, Publishing
<1> QED
  BY <1>1, <1>2, <1>9, <1>12, <1>13, <1>15, FilesStep DEF Sound

\* The syncs of a publication.
LEMMA SyncStep ==
    ASSUME CatalogInv, SyncRename \/ SyncObject
    PROVE  CatalogInv'
<1>1. /\ receipts' = receipts /\ inode' = inode /\ disk' = disk /\ disks' = {disk} /\ job' = job
      /\ step \in {"renamed", "object"} /\ step' \in {"object", "commit"}
      /\ step' = "commit" => disk.objects[job.content] # None
  BY DEF SyncRename, SyncObject, SyncFiles, Go
<1>2. /\ job \in Receipt /\ job.request \notin Requested /\ disk.retained[job.request] = None
      /\ disk.pending[job.request] = None
  BY <1>1 DEF CatalogInv, Working, Publishing
<1>3. Requested' = Requested
  BY <1>1 DEF Requested, Committed
<1>4. Working'
  BY <1>1, <1>2, <1>3 DEF Working, Publishing
<1> QED
  BY ZenonT(30), <1>1, <1>4, QuietStep

\* One more receipt at the end of the table.
LEMMA Appended ==
    ASSUME receipts \in Seq(Receipt), NEW r \in Receipt, receipts' = Append(receipts, r)
    PROVE  receipts' \in Seq(Receipt) /\ Committed' = Committed \cup {r}
<1>1. /\ receipts' \in Seq(Receipt) /\ DOMAIN receipts' = 1 .. Len(receipts) + 1
      /\ \A i \in 1 .. Len(receipts) : receipts'[i] = receipts[i]
      /\ receipts'[Len(receipts) + 1] = r
      /\ DOMAIN receipts = 1 .. Len(receipts) /\ Len(receipts) \in Nat
  OBVIOUS
<1>2. \A i \in 1 .. Len(receipts) + 1 : i \in 1 .. Len(receipts) \/ i = Len(receipts) + 1
  BY <1>1
<1>3. 1 .. Len(receipts) \subseteq 1 .. Len(receipts) + 1 /\ Len(receipts) + 1 \in 1 .. Len(receipts) + 1
  BY <1>1
<1>4. Committed' \subseteq Committed \cup {r}
  BY <1>1, <1>2 DEF Committed
<1>5. Committed \cup {r} \subseteq Committed'
  BY <1>1, <1>3 DEF Committed
<1> QED
  BY <1>1, <1>4, <1>5

\* The version that follows the current one continues the chain.
LEMMA ChainGrows ==
    ASSUME IsFiniteSet(Committed), Chained, NEW r \in Receipt, r \notin Committed,
           Current(r.artifact) + 1 = r.version, Committed' = Committed \cup {r}
    PROVE  Chained'
<1> DEFINE Of(a) == {c \in Committed : c.artifact = a}
<1> SUFFICES ASSUME NEW a \in Artifact
             PROVE  {c.version : c \in Of(a)'} = 1 .. Cardinality(Of(a)')
  BY ZenonT(30) DEF Chained, Current
<1>1. /\ IsFiniteSet(Of(a)) /\ Cardinality(Of(a)) \in Nat
      /\ {c.version : c \in Of(a)} = 1 .. Cardinality(Of(a))
  <2>1. IsFiniteSet(Of(a))
    BY FS_Subset
  <2> QED
    BY <2>1, FS_CardinalityType DEF Chained, Current
<1>2. CASE r.artifact = a
  <2>1. Of(a)' = Of(a) \cup {r} /\ r \notin Of(a)
    BY <1>2
  <2>2. Cardinality(Of(a)') = Cardinality(Of(a)) + 1
    BY ZenonT(30), <1>1, <2>1, FS_AddElement
  <2>3. r.version = Cardinality(Of(a)) + 1
    BY <1>2 DEF Current
  <2>4. {c.version : c \in Of(a)'} = {c.version : c \in Of(a)} \cup {r.version}
    BY <2>1
  <2> HIDE DEF Of
  <2>5. 1 .. Cardinality(Of(a)) + 1 = (1 .. Cardinality(Of(a))) \cup {Cardinality(Of(a)) + 1}
    BY <1>1
  <2> QED
    BY ZenonT(30), <1>1, <2>2, <2>3, <2>4, <2>5
<1>3. CASE r.artifact # a
  <2>1. Of(a)' = Of(a)
    BY <1>3
  <2> QED
    BY <1>1, <2>1
<1> QED
  BY <1>2, <1>3

\* The receipt is committed over directories that all have its object.
LEMMA CommitStep ==
    ASSUME CatalogInv, CommitReceipt
    PROVE  CatalogInv' /\ Committed' = Committed \cup {job} /\ job \in Receipt /\ answered' = answered
<1>1. /\ receipts' = Append(receipts, job) /\ inode' = inode /\ disk' = disk /\ disks' = disks
      /\ job' = job /\ step = "commit" /\ step' = "committed"
      /\ Current(job.artifact) + 1 = job.version /\ answered' = answered
  BY ZenonT(30) DEF CommitReceipt, files, Go
<1>2. /\ job \in Receipt /\ job.request \notin Requested /\ disk.retained[job.request] = None
      /\ disk.pending[job.request] = None /\ disks = {disk} /\ disk.objects[job.content] # None
  BY ZenonT(30), <1>1 DEF CatalogInv, Working, Publishing
<1>3. receipts' \in Seq(Receipt) /\ Committed' = Committed \cup {job}
  BY ZenonT(30), <1>1, <1>2, Appended DEF CatalogInv
<1>4. job \notin Committed
  BY ZenonT(30), <1>2 DEF Requested
<1>5. Chained' /\ IsFiniteSet(Committed')
  BY ZenonT(30), <1>1, <1>2, <1>3, <1>4, ChainGrows, FS_AddElement DEF CatalogInv
<1>6. Referenced' = Referenced \cup {job.content} /\ Requested' = Requested \cup {job.request}
  BY <1>3 DEF Referenced, Requested
<1>7. Shape(disk) /\ Finite(disk) /\ Held(disk)
  BY DEF CatalogInv, Sound
<1>8. /\ job.content \in Names(disk.objects)
      /\ job.request \notin Names(disk.pending) /\ job.request \notin Names(disk.retained)
  BY ZenonT(30), <1>2, <1>7 DEF Names, Shape, Receipt
<1>9. Sound(disk)'
  <2>1. Shape(disk)' /\ Finite(disk)'
    BY <1>1, <1>7 DEF Shape, Finite, Names
  <2>2. /\ Names(disk.objects)' = Names(disk.objects) /\ Names(disk.pending)' = Names(disk.pending)
        /\ Names(disk.retained)' = Names(disk.retained)
    BY <1>1 DEF Names
  <2>3. Load(disk)' = Load(disk)
    BY <1>1 DEF Load, Names
  <2>4. Held(disk)'
    BY ZenonT(30), <1>1, <1>6, <1>7, <1>8, <2>2, <2>3 DEF Held
  <2> QED
    BY <2>1, <2>4 DEF Sound
<1>10. Working'
  BY ZenonT(30), <1>1, <1>3 DEF Working, Publishing
<1>11. (\A d \in disks : Sound(d))'
  BY ZenonT(30), <1>1, <1>2, <1>9
<1> QED
  BY ZenonT(30), <1>1, <1>2, <1>3, <1>5, <1>10, <1>11 DEF CatalogInv

\* The caller hears of a receipt that is committed.
LEMMA AnswerStep ==
    ASSUME CatalogInv, AnswerPublish
    PROVE  /\ CatalogInv'
           /\ receipts' = receipts /\ job \in Committed /\ answered' = answered \cup {job}
<1>1. /\ receipts' = receipts /\ inode' = inode /\ disk' = disk /\ disks' = {disk}
      /\ answered' = answered \cup {job} /\ step' = "idle" /\ step \in {"replay", "committed"}
  BY DEF AnswerPublish, SyncFiles, Leave
<1>2. job \in Committed
  BY <1>1 DEF CatalogInv, Working
<1>3. Working'
  BY <1>1, ElsewhereWorks DEF Publishing
<1> QED
  BY ZenonT(30), <1>1, <1>2, <1>3, QuietStep

\* retain_checked begins, and ends.
LEMMA RetainStep ==
    ASSUME CatalogInv, (\E q \in Request : BeginRetain(q)) \/ SyncRetained
    PROVE  CatalogInv'
<1>1. CASE SyncRetained
  <2>1. /\ receipts' = receipts /\ inode' = inode /\ disk' = disk /\ disks' = {disk}
        /\ step' = "idle"
    BY <1>1 DEF SyncRetained, SyncFiles, Leave
  <2>2. Working'
    BY <2>1, ElsewhereWorks DEF Publishing
  <2> QED
    BY ZenonT(30), <2>1, <2>2, QuietStep
<1>2. ASSUME NEW q \in Request, BeginRetain(q) PROVE CatalogInv'
  <2>1. /\ receipts' = receipts /\ inode' = inode /\ disk' = disk /\ disks' = disks
        /\ step' \in {"retain", "retained"} /\ job' = [request |-> q]
    BY ZenonT(30), <1>2 DEF BeginRetain, files
  <2>2. Working'
    BY <2>1 DEF Working, Publishing
  <2> QED
    BY ZenonT(30), <2>1, <2>2, QuietStep
<1> QED
  BY <1>1, <1>2

\* A preparation is set aside: one name goes, and the same name comes.
LEMMA RenameAsideStep ==
    ASSUME CatalogInv, RenameAside
    PROVE  CatalogInv'
<1> DEFINE q == job.request
           v == disk.pending[q]
<1>1. /\ receipts' = receipts /\ inode' = inode
      /\ disk' = [disk EXCEPT !.retained[q] = v, !.pending[q] = None]
      /\ disks' = disks \cup {disk'}
      /\ step = "retain" /\ step' = "retained" /\ job' = job
  BY DEF RenameAside, Change, Go
<1>2. Sound(disk) /\ q \in Request /\ inode \in Nat /\ MaxFiles \in Nat
  BY ZenonT(30), <1>1, CatalogAssumption DEF CatalogInv, Working
<1>3. Shape(disk) /\ Finite(disk) /\ Held(disk)
  BY ZenonT(30), <1>2 DEF Sound
<1>4. /\ disk'.pending = [disk.pending EXCEPT ![q] = None]
      /\ disk'.retained = [disk.retained EXCEPT ![q] = v]
      /\ disk'.objects = disk.objects
      /\ disk' = [pending |-> disk'.pending, objects |-> disk'.objects,
                  retained |-> disk'.retained, gc |-> disk'.gc]
  BY ZenonT(30), <1>1, <1>3 DEF Shape
<1>5. /\ disk'.pending \in [Request -> Entry] /\ Names(disk'.pending) = Names(disk.pending) \ {q}
      /\ disk.retained \in [Request -> Entry] /\ v \in Entry
  BY <1>2, <1>3, <1>4, NameTaken DEF Shape
<1>6. Working'
  BY <1>1, <1>2 DEF Working, Publishing
<1>7. CASE v = None
  <2>1. disk'.retained = [disk.retained EXCEPT ![q] = None] /\ q \notin Names(disk.pending)
    BY <1>4, <1>7 DEF Names
  <2>2. /\ disk'.retained \in [Request -> Entry]
        /\ Names(disk'.retained) = Names(disk.retained) \ {q}
    BY <2>1, <1>5, NameTaken
  <2>3. Names(disk'.pending) = Names(disk.pending) /\ Names(disk'.objects) = Names(disk.objects)
    BY <2>1, <1>4, <1>5
  <2>4. /\ IsFiniteSet(Names(disk'.retained))
        /\ Cardinality(Names(disk'.retained)) <= Cardinality(Names(disk.retained))
        /\ Cardinality(Names(disk'.retained)) \in Nat
    BY ZenonT(30), <2>2, <1>3, FS_Subset, FS_CardinalityType DEF Finite
  <2>5. Finite(disk')
    BY ZenonT(30), <2>3, <2>4, <1>3 DEF Finite
  <2>6. Load(disk') <= MaxFiles
    BY <2>3, <2>4, <1>2, <1>3, Counts DEF Load, Held
  <2>7. Shape(disk') /\ Held(disk')
    BY ZenonT(30), <2>2, <2>3, <2>6, <1>3, <1>4, <1>5 DEF Shape, Held
  <2> QED
    BY <1>1, <1>2, <1>6, <2>5, <2>7, FilesStep DEF Sound
<1>8. CASE v # None
  <2>1. v \in File /\ q \in Names(disk.pending)
    BY ZenonT(30), <1>2, <1>3, <1>5, <1>8 DEF Entry, Names, Shape
  <2>2. /\ disk'.retained \in [Request -> Entry]
        /\ Names(disk'.retained) = Names(disk.retained) \cup {q}
    BY <2>1, <1>2, <1>4, <1>5, NameGiven
  <2>3. q \notin Names(disk.retained) /\ q \notin Requested
    BY ZenonT(30), <2>1, <1>3 DEF Held
  <2>4. /\ IsFiniteSet(Names(disk'.retained))
        /\ Cardinality(Names(disk'.retained)) = Cardinality(Names(disk.retained)) + 1
    BY ZenonT(30), <2>2, <2>3, <1>3, FS_AddElement DEF Finite
  <2>5. /\ IsFiniteSet(Names(disk'.pending))
        /\ Cardinality(Names(disk'.pending)) = Cardinality(Names(disk.pending)) - 1
    BY ZenonT(30), <2>1, <1>3, <1>5, FS_RemoveElement DEF Finite
  <2>6. Finite(disk')
    BY <2>4, <2>5, <1>3, <1>4 DEF Finite
  <2>7. Load(disk') = Load(disk)
    BY <2>4, <2>5, <1>3, <1>4, Counts DEF Load
  <2>8. Held(disk')
    BY <2>2, <2>3, <2>7, <1>3, <1>4, <1>5 DEF Held
  <2>9. Shape(disk')
    BY ZenonT(30), <2>2, <1>3, <1>4, <1>5 DEF Shape
  <2> QED
    BY <1>1, <1>2, <1>6, <2>6, <2>8, <2>9, FilesStep DEF Sound
<1> QED
  BY <1>7, <1>8

\* The evidence of a deletion is no part of what inventory reads.
LEMMA EvidenceStep ==
    ASSUME CatalogInv,
           \/ \E t \in Target : BeginMark(t)
           \/ \E m \in disk.gc.marks : BeginDelete(m)
           \/ WriteMark \/ WriteIntent \/ BeginOutcome \/ WriteOutcome
    PROVE  CatalogInv'
<1>1. /\ receipts' = receipts /\ inode' = inode
      /\ step' \in {"marking", "intending", "concluding", "unlink", "idle"}
      /\ disk' \in disks' /\ disks' \subseteq disks \cup {disk'}
  BY DEF BeginMark, BeginDelete, WriteMark, WriteIntent, BeginOutcome, WriteOutcome, Change, Leave,
         Go, CatalogInv
<1>2. PICK g : disk' = [disk EXCEPT !.gc = g]
  BY ZenonT(30) DEF BeginMark, BeginDelete, WriteMark, WriteIntent, BeginOutcome, WriteOutcome, Change,
         TornEvidence
<1>3. Sound(disk) /\ inode \in Nat
  BY DEF CatalogInv
<1>4. /\ disk'.pending = disk.pending /\ disk'.objects = disk.objects
      /\ disk'.retained = disk.retained
      /\ disk' = [pending |-> disk'.pending, objects |-> disk'.objects,
                  retained |-> disk'.retained, gc |-> disk'.gc]
  BY <1>2, <1>3 DEF Sound, Shape
<1>5. Sound(disk')
  BY <1>3, <1>4 DEF Sound, Shape, Finite, Held, Load
<1>6. Working'
  BY <1>1, ElsewhereWorks DEF Publishing
<1> QED
  BY ZenonT(30), <1>1, <1>3, <1>5, <1>6, FilesStep

\* A file goes that no receipt refers to.
LEMMA UnlinkStep ==
    ASSUME CatalogInv, Unlink
    PROVE  CatalogInv'
<1> DEFINE n == job.mark.target.name
<1>1. /\ receipts' = receipts /\ inode' = inode /\ step' = "unlinked"
      /\ disks' = disks \cup {disk'}
  BY DEF Unlink, Change, Go
<1>2. Sound(disk) /\ inode \in Nat /\ MaxFiles \in Nat
  BY CatalogAssumption DEF CatalogInv
<1>3. Shape(disk) /\ Finite(disk) /\ Held(disk)
  BY <1>2 DEF Sound
<1>4. Working'
  BY <1>1, ElsewhereWorks DEF Publishing
<1>5. CASE job.mark.target.area = "object"
  <2>1. disk' = [disk EXCEPT !.objects[n] = None] /\ n \notin Referenced
    BY <1>5 DEF Unlink, Change, Deletable, Collectable
  <2>2. /\ disk'.objects = [disk.objects EXCEPT ![n] = None] /\ disk'.pending = disk.pending
        /\ disk'.retained = disk.retained
        /\ disk' = [pending |-> disk'.pending, objects |-> disk'.objects,
                    retained |-> disk'.retained, gc |-> disk'.gc]
    BY ZenonT(30), <2>1, <1>3 DEF Shape
  <2>3. /\ disk'.objects \in [Content -> Entry]
        /\ Names(disk'.objects) = Names(disk.objects) \ {n}
    <3>1. disk.objects \in [Content -> Entry]
      BY <1>3 DEF Shape
    <3> HIDE DEF n
    <3> QED
      BY <2>2, <3>1, NameTaken
  <2>4. /\ IsFiniteSet(Names(disk'.objects))
        /\ Cardinality(Names(disk'.objects)) <= Cardinality(Names(disk.objects))
        /\ Cardinality(Names(disk'.objects)) \in Nat
    BY ZenonT(30), <2>3, <1>3, FS_Subset, FS_CardinalityType DEF Finite
  <2>5. Load(disk') <= MaxFiles
    BY <2>2, <2>4, <1>2, <1>3, Counts DEF Load, Held
  <2>6. \A c \in Names(disk'.objects) : disk'.objects[c] = disk.objects[c]
    BY ZenonT(30), <2>2, <2>3, <1>3 DEF Shape, Names
  <2>7. Held(disk')
    BY ZenonT(30), <2>1, <2>2, <2>3, <2>5, <2>6, <1>3 DEF Held
  <2>8. Shape(disk') /\ Finite(disk')
    BY ZenonT(30), <2>2, <2>3, <2>4, <1>3 DEF Shape, Finite
  <2> QED
    BY ZenonT(30), <1>1, <1>2, <1>4, <2>7, <2>8, FilesStep DEF Sound
<1>6. CASE job.mark.target.area # "object"
  <2>1. disk' = [disk EXCEPT !.retained[n] = None]
    BY <1>6 DEF Unlink, Change
  <2>2. /\ disk'.retained = [disk.retained EXCEPT ![n] = None] /\ disk'.pending = disk.pending
        /\ disk'.objects = disk.objects
        /\ disk' = [pending |-> disk'.pending, objects |-> disk'.objects,
                    retained |-> disk'.retained, gc |-> disk'.gc]
    BY <2>1, <1>3 DEF Shape
  <2>3. /\ disk'.retained \in [Request -> Entry]
        /\ Names(disk'.retained) = Names(disk.retained) \ {n}
    <3>1. disk.retained \in [Request -> Entry]
      BY ZenonT(30), <1>3 DEF Shape
    <3> HIDE DEF n
    <3> QED
      BY <2>2, <3>1, NameTaken
  <2>4. /\ IsFiniteSet(Names(disk'.retained))
        /\ Cardinality(Names(disk'.retained)) <= Cardinality(Names(disk.retained))
        /\ Cardinality(Names(disk'.retained)) \in Nat
    BY ZenonT(30), <2>3, <1>3, FS_Subset, FS_CardinalityType DEF Finite
  <2>5. Load(disk') <= MaxFiles
    BY <2>2, <2>4, <1>2, <1>3, Counts DEF Load, Held
  <2>6. Held(disk')
    BY ZenonT(30), <2>2, <2>3, <2>5, <1>3 DEF Held
  <2>7. Shape(disk') /\ Finite(disk')
    BY ZenonT(30), <2>2, <2>3, <2>4, <1>3 DEF Shape, Finite
  <2> QED
    BY <1>1, <1>2, <1>4, <2>6, <2>7, FilesStep DEF Sound
<1> QED
  BY <1>5, <1>6

\* The holder of the lock stops, the power fails, time passes.
LEMMA EndStep ==
    ASSUME CatalogInv, Stop \/ PowerLoss \/ Tick \/ UNCHANGED catalogVars
    PROVE  CatalogInv'
<1>1. CASE Stop
  <2>1. /\ receipts' = receipts /\ inode' = inode /\ disk' = disk /\ disks' = disks
        /\ step' = "idle"
    BY <1>1 DEF Stop, Leave, files
  <2>2. Working'
    BY <2>1, ElsewhereWorks DEF Publishing
  <2> QED
    BY <2>1, <2>2, QuietStep
<1>2. CASE PowerLoss
  <2>1. /\ receipts' = receipts /\ inode' = inode /\ disk' \in disks /\ disks' = {disk'}
        /\ step' = "idle"
    BY <1>2 DEF PowerLoss, Leave
  <2>2. Sound(disk') /\ inode' \in Nat
    BY <2>1 DEF CatalogInv
  <2>3. Working'
    BY <2>1, ElsewhereWorks DEF Publishing
  <2> QED
    BY ZenonT(30), <2>1, <2>2, <2>3, FilesStep
<1>3. CASE Tick \/ UNCHANGED catalogVars
  <2>1. /\ receipts' = receipts /\ inode' = inode /\ disk' = disk /\ disks' = disks
        /\ step' = step /\ job' = job
    BY ZenonT(30), <1>3 DEF Tick, files, catalogVars
  <2>2. Working'
    BY ZenonT(30), <2>1 DEF CatalogInv, Working, Requested, Committed, Load, Names
  <2> QED
    BY ZenonT(30), <2>1, <2>2, QuietStep
<1> QED
  BY ZenonT(30), <1>1, <1>2, <1>3

\* Every step of the catalog keeps the invariant.
LEMMA CatalogStep ==
    ASSUME CatalogInv, [CatalogNext]_catalogVars
    PROVE  CatalogInv'
BY ZenonT(30), BeginPublishStep, CreatePreparationStep, WritePreparationStep, RenameInStep, SyncStep,
   CommitStep, AnswerStep, RetainStep, RenameAsideStep, EvidenceStep, UnlinkStep, EndStep
   DEF CatalogNext

\* The empty catalog.
LEMMA CatalogStart ==
    ASSUME CatalogInit
    PROVE  CatalogInv
<1>1. /\ receipts = <<>> /\ step = "idle" /\ inode = 0 /\ disks = {disk}
      /\ disk = [pending |-> [r \in Request |-> None], objects |-> [c \in Content |-> None],
                 retained |-> [r \in Request |-> None], gc |-> NoEvidence]
  BY DEF CatalogInit
<1>2. Committed = {} /\ receipts \in Seq(Receipt)
  BY <1>1 DEF Committed
<1>3. /\ Names(disk.pending) = {} /\ Names(disk.objects) = {} /\ Names(disk.retained) = {}
  BY ZenonT(30), <1>1 DEF Names
<1>4. Shape(disk)
  BY ZenonT(30), <1>1 DEF Shape, Entry
<1>5. Finite(disk) /\ Load(disk) = 0
  BY <1>3, FS_EmptySet DEF Finite, Load
<1>6. Held(disk)
  BY <1>2, <1>3, <1>5, CatalogAssumption DEF Held, Referenced, Requested
<1>7. Chained
  <2> SUFFICES ASSUME NEW a \in Artifact
               PROVE  {r.version : r \in {c \in Committed : c.artifact = a}} = 1 .. Current(a)
    BY DEF Chained
  <2>1. {c \in Committed : c.artifact = a} = {}
    BY <1>2
  <2>2. Current(a) = 0
    BY <2>1, FS_EmptySet DEF Current
  <2>3. 1 .. 0 = {}
    OBVIOUS
  <2> QED
    BY ZenonT(30), <2>1, <2>2, <2>3
<1>8. Working
  BY <1>1 DEF Working, Publishing
<1> QED
  BY ZenonT(30), <1>1, <1>2, <1>4, <1>5, <1>6, <1>7, <1>8, FS_EmptySet DEF CatalogInv, Sound

\* The invariant of the catalog.
THEOREM CatalogInvariance == CatalogSpec => []CatalogInv
<1>1. CatalogInit => CatalogInv
  BY CatalogStart
<1>2. CatalogInv /\ [CatalogNext]_catalogVars => CatalogInv'
  BY CatalogStep
<1> QED
  BY <1>1, <1>2, PTL DEF CatalogSpec

\* The catalog always opens (artifact_catalog.rs, inventory): through publications, retained
\* preparations, deletions, processes that die at any point and power losses, whatever
\* directories the machine comes back with are ones that inventory accepts.
THEOREM AlwaysOpensHolds == CatalogSpec => []AlwaysOpens
<1>1. CatalogInv => AlwaysOpens
  BY InventoryHolds DEF CatalogInv, Sound, AlwaysOpens
<1> QED
  BY <1>1, CatalogInvariance, PTL

\* A committed receipt is of a fresh request and continues its artifact's versions.
LEMMA CommitPublishes ==
    ASSUME CatalogInv, CommitReceipt
    PROVE  Service!ServiceNext
<1>1. Committed' = Committed \cup {job} /\ job \in Receipt /\ answered' = answered
  BY ZenonT(30), CommitStep
<1>2. /\ job.request \notin Requested /\ Current(job.artifact) + 1 = job.version
      /\ Chained /\ IsFiniteSet(Committed) /\ job.artifact \in Artifact
  BY <1>1 DEF CatalogInv, Working, Publishing, CommitReceipt, Receipt
<1>3. \A p \in Committed : p.request # job.request
  BY <1>2 DEF Requested
<1>4. Service!Versions(job.artifact) = 1 .. Current(job.artifact)
  BY <1>2 DEF Service!Versions, Chained
<1>5. Current(job.artifact) \in Nat
  <2>1. IsFiniteSet({r \in Committed : r.artifact = job.artifact})
    BY <1>2, FS_Subset
  <2> QED
    BY ZenonT(30), <2>1, FS_CardinalityType DEF Current
<1>6. Current(job.artifact) = job.version - 1
  BY <1>2, <1>5
<1>7. Service!Fresh(job)
  BY ZenonT(30), <1>2, <1>3, <1>4, <1>6 DEF Service!Fresh
<1>8. Service!PublishEffect(job)
  BY <1>1, <1>7 DEF Service!PublishEffect
<1> QED
  BY <1>1, <1>8 DEF Service!ServiceNext

\* Every other step tells of a committed receipt, or is not seen.
LEMMA OtherSteps ==
    ASSUME CatalogInv, [CatalogNext]_catalogVars, ~CommitReceipt
    PROVE  [Service!ServiceNext]_<<Committed, answered>>
<1>1. CASE AnswerPublish
  <2>1. receipts' = receipts /\ job \in Committed /\ answered' = answered \cup {job}
    BY ZenonT(30), <1>1, AnswerStep
  <2>2. Committed' = Committed /\ Committed \subseteq Receipt
    BY <2>1 DEF Committed, CatalogInv
  <2>3. Service!TellEffect(job)
    BY ZenonT(30), <2>1, <2>2 DEF Service!TellEffect
  <2> QED
    BY ZenonT(30), <2>1, <2>2, <2>3 DEF Service!ServiceNext
<1>2. CASE ~AnswerPublish
  <2>1. receipts' = receipts /\ answered' = answered
    BY ZenonT(30), <1>2 DEF CatalogNext, BeginPublish, CreatePreparation, WritePreparation, RenameIn,
         SyncRename, SyncObject, BeginRetain, RenameAside, SyncRetained, BeginMark, WriteMark,
         BeginDelete, WriteIntent, Unlink, BeginOutcome, WriteOutcome, Stop, PowerLoss, Tick,
         catalogVars
  <2> QED
    BY ZenonT(30), <2>1 DEF Committed
<1> QED
  BY <1>1, <1>2

\* Every behaviour of the catalog is one of the service the workflows rely on: a request publishes
\* at most one version, the versions of an artifact form a chain, and what a caller was told stays,
\* through crashes, power losses and deletions.
THEOREM CatalogImplementsService == CatalogSpec => ImplementsCatalogService
<1>1. CatalogInit => Service!ServiceInit
  BY DEF CatalogInit, Service!ServiceInit, Committed
<1>2. CatalogInv /\ [CatalogNext]_catalogVars => [Service!ServiceNext]_<<Committed, answered>>
  BY CommitPublishes, OtherSteps
<1> QED
  BY <1>1, <1>2, CatalogInvariance, PTL
     DEF CatalogSpec, ImplementsCatalogService, Service!ServiceSpec, Service!serviceVars

=============================================================================
