----------------------------- MODULE PolicyArchive -----------------------------
(***************************************************************************)
(* policy_decisions.rs and policy_decisions/history.rs: a closed operation *)
(* is retained as one archive, its records are unlinked, and the archive   *)
(* is exported, marked, deleted after its grace, and its history cleaned   *)
(* up, each by a command with a grant of its own.  A refused grant, a full *)
(* disk or a lost process ends a command at any step; a power loss ends    *)
(* all of them.  Directory changes are visible at once and durable, in     *)
(* their order, at the next sync of any directory; the bytes of a file are *)
(* durable only after a sync of the file itself, and until then a power    *)
(* loss may leave it torn.                                                 *)
(***************************************************************************)
EXTENDS Naturals, FiniteSets

CONSTANTS
    Command,      \* the processes running a command on the operation
    Member,       \* the records of the closed operation
    ArchiveGrace, ArchiveWidth, MaxInstant

VARIABLES
    store,        \* the evidence directory as a reader finds it
    stores,       \* what a power loss can leave of it
    resolved,     \* the operation and its effects ended, none of them uncertain
    cmd,          \* what each process runs, where it is and the file it writes
    instant,      \* true time; an observation is within ArchiveWidth of it
    exported,     \* ghost: when the archive's first delivery had ended
    retaken       \* ghost: a deletion went on with an intent nobody had synced

archiveVars == <<store, stores, resolved, cmd, instant, exported, retaken>>
ghosts == <<resolved, instant, exported, retaken>>

\* The files of the history's domain, in the order cleanup removes the first four,
\* and the proposal of the archive.  "torn" bytes are not the ones a command would
\* write, "written" ones are but were not synced, "whole" ones were.
Files == {"ack", "done", "intent", "mark", "cleanup"}
Rank == [ack |-> 1, done |-> 2, intent |-> 3, mark |-> 4]
NoCommand == [verb |-> "none", at |-> "none", file |-> "none"]

ArchiveInit ==
    /\ store = [root |-> Member, retained |-> "none", archive |-> "none", domain |-> "none",
                file |-> [f \in Files \cup {"proposal"} |-> "none"], due |-> 0]
    /\ stores = {store}
    /\ resolved \in BOOLEAN
    /\ cmd = [p \in Command |-> NoCommand]
    /\ instant = 0 /\ exported = MaxInstant + 1 /\ retaken = FALSE
-----------------------------------------------------------------------------
\* inventory: records that no archive holds are a whole closed operation.
Inventory(d) == d.archive = "none" => d.root \in {{}, Member}
\* target: the archive is there, and nothing in it is pending or uncertain.
TargetThere(d) == d.archive = "whole" /\ resolved
NoOriginals_Assumed(d) == TRUE
NoOriginals(d) == d.root = {}
\* canonical, and the comparisons of publish and archive
Readable(d, S) == \A f \in S : d.file[f] \in {"written", "whole"}
Missing(d, S) == \A f \in S : d.file[f] = "none"

Goto(p, at) == cmd' = [cmd EXCEPT ![p] = IF at = "end" THEN NoCommand
                                         ELSE [@ EXCEPT !.at = at, !.file = "none"]]
Writes(p, at, f) == cmd' = [cmd EXCEPT ![p].at = at, ![p].file = f]
Run(p, verb, at) == cmd' = [cmd EXCEPT ![p] = [verb |-> verb, at |-> at, file |-> "none"]]
Change(d) == store' = d /\ stores' = stores \cup {d}
Synced(d) == store' = d /\ stores' = {d}
Keep == UNCHANGED <<store, stores>>
\* The sync_all of the directories that a step has changed
SyncStep(p, from, to) == cmd[p].at = from /\ Synced(store) /\ Goto(p, to) /\ UNCHANGED ghosts

\* The store's lock is held through an archive's publication and for each record's
\* unlinking; a history command holds the flock of its domain.
StoreFree == \A p \in Command : cmd[p].file # "proposal" /\ cmd[p].at # "unlinking"
Domain == {"export", "mark", "delete", "cleanup"}
DomainFree == \A p \in Command : cmd[p].verb \notin Domain
-----------------------------------------------------------------------------
(* Files.                                                                  *)
\* What follows the sync of each file
AfterSync == [ack |-> "end", mark |-> "end", intent |-> "dispatch",
              done |-> "end", cleanup |-> "retire"]

Create(p, f, d) == Change([d EXCEPT !.file[f] = "torn"]) /\ Writes(p, "write", f)
\* write_member: the bytes are written to the file, and then synced.
WriteMember(p) ==
    /\ cmd[p].at = "write"
    /\ Change([store EXCEPT !.file[cmd[p].file] = "written"]) /\ Writes(p, "sync", cmd[p].file)
    /\ UNCHANGED ghosts
SyncMember(p) ==
    /\ cmd[p].at = "sync"
    /\ Synced([store EXCEPT !.file[cmd[p].file] = "whole"])
    /\ IF cmd[p].file = "proposal" THEN Writes(p, "archived", "proposal")
       ELSE Goto(p, AfterSync[cmd[p].file])
    /\ UNCHANGED ghosts

\* publish: a file with the same bytes is taken as it is, without a sync, and one
\* with others refused.
Publish(p, f) ==
    \/ Missing(store, {f}) /\ Create(p, f, store)
    \/ Readable(store, {f}) /\ Keep /\ Goto(p, AfterSync[f])
-----------------------------------------------------------------------------
(* retain                                                                  *)
Retain(p) ==
    /\ cmd[p] = NoCommand /\ StoreFree /\ Inventory(store)
    /\ store.archive = "whole" \/ store.root = Member
    /\ Run(p, "retain", "archive") /\ Keep /\ UNCHANGED ghosts
\* archive: an equal proposal of an earlier call is synced and taken up, a torn one is not.
ArchiveProposal(p) ==
    /\ cmd[p].at = "archive" /\ StoreFree
    /\ \/ store.archive = "whole" /\ Keep /\ Goto(p, "unlink")
       \/ /\ store.archive = "none" /\ store.root = Member
          /\ \/ Missing(store, {"proposal"}) /\ Create(p, "proposal", store)
             \/ Readable(store, {"proposal"}) /\ Keep /\ Writes(p, "sync", "proposal")
    /\ UNCHANGED ghosts
ArchiveRenamed(p) ==
    /\ cmd[p].at = "archived"
    /\ Change([store EXCEPT !.file["proposal"] = "none", !.archive = "whole"])
    /\ Writes(p, "placing", "proposal") /\ UNCHANGED ghosts
ArchivePlaced(p) == SyncStep(p, "placing", "unlink")
\* unlink_archived: only what the archive that is there holds is unlinked.
UnlinkArchived(p) ==
    /\ cmd[p].at = "unlink" /\ StoreFree /\ store.archive = "whole"
    /\ \/ \E m \in store.root : Change([store EXCEPT !.root = @ \ {m}]) /\ Goto(p, "unlinking")
       \/ store.root = {} /\ Keep /\ Goto(p, "end")
    /\ UNCHANGED ghosts
MemberUnlinked(p) == SyncStep(p, "unlinking", "unlink")
\* pending_retain: a proposal is moved out of the way, its bytes kept.
PendingRetain(p) ==
    /\ cmd[p] = NoCommand /\ StoreFree /\ Inventory(store)
    /\ \/ /\ ~Missing(store, {"proposal"}) /\ store.retained = "none"
          /\ LET d == [store EXCEPT !.retained = "kept", !.file["proposal"] = "none"]
             IN  Change(d) \/ Synced(d)
       \/ Missing(store, {"proposal"}) /\ store.retained = "kept" /\ Synced(store)
    /\ UNCHANGED <<cmd, ghosts>>
-----------------------------------------------------------------------------
(* The commands of the archive's history.                                  *)
\* History::open makes the domain of the operation's first export.
Export(p) ==
    /\ cmd[p] = NoCommand /\ DomainFree /\ StoreFree /\ TargetThere(store)
    /\ \/ store.domain = "none" /\ Change([store EXCEPT !.domain = "active"])
          /\ Run(p, "export", "opening")
       \/ store.domain = "active" /\ Missing(store, {"mark", "intent"})
          /\ Keep /\ Run(p, "export", "stream")
    /\ UNCHANGED ghosts
DomainOpened(p) == SyncStep(p, "opening", "stream")
\* The acknowledgement follows the delivery of every byte; an older one is kept.
ExportDelivered(p) ==
    /\ cmd[p].at = "stream" /\ store.archive = "whole" /\ Publish(p, "ack")
    /\ exported' = IF exported > MaxInstant THEN instant ELSE exported
    /\ UNCHANGED <<resolved, instant, retaken>>

\* dispose-mark: the grace starts at the latest instant the observation allows.
NotBefore == instant + ArchiveWidth + ArchiveGrace
MarkArchive(p) ==
    /\ cmd[p] = NoCommand /\ DomainFree /\ StoreFree
    /\ TargetThere(store) /\ NoOriginals(store)
    /\ store.domain = "active" /\ Readable(store, {"ack"})
    /\ Run(p, "mark", "mark") /\ Keep /\ UNCHANGED ghosts
\* A mark names the observation and the command it was made by: none equals another.
MarkPublished(p) ==
    /\ cmd[p].at = "mark" /\ TargetThere(store) /\ NoOriginals(store)
    /\ Missing(store, {"mark"}) /\ Create(p, "mark", [store EXCEPT !.due = NotBefore])
    /\ UNCHANGED ghosts

\* History::plan
Plan(d) == d.domain = "active" /\ Readable(d, {"ack", "mark"})
\* delete_checked: the grace has elapsed at the earliest instant observed, both
\* before the intent is published and after.
GraceElapsed == instant >= store.due + ArchiveWidth
DeleteArchive(p) ==
    /\ cmd[p] = NoCommand /\ DomainFree /\ StoreFree
    /\ Plan(store) /\ TargetThere(store) /\ NoOriginals(store)
    /\ Missing(store, {"done"}) /\ GraceElapsed
    /\ Run(p, "delete", "intent") /\ Keep /\ UNCHANGED ghosts
IntentPublished(p) ==
    /\ cmd[p].at = "intent" /\ Publish(p, "intent")
    /\ retaken' = (retaken \/ store.file["intent"] = "written")
    /\ UNCHANGED <<resolved, instant, exported>>
UnlinkArchive(p) ==
    /\ cmd[p].at = "dispatch"
    /\ Plan(store) /\ TargetThere(store) /\ NoOriginals(store) /\ GraceElapsed
    /\ Change([store EXCEPT !.archive = "none"]) /\ Goto(p, "unlinked")
    /\ UNCHANGED ghosts
ArchiveGone(p) == SyncStep(p, "unlinked", "outcome")
DonePublished(p) == cmd[p].at = "outcome" /\ Publish(p, "done") /\ UNCHANGED ghosts
-----------------------------------------------------------------------------
\* cleanup_plan: a finished deletion, or a cleanup that was interrupted
CleanupPlan(d) ==
    \/ /\ Missing(d, {"cleanup"}) /\ d.domain = "active" /\ d.archive = "none"
       /\ Readable(d, DOMAIN Rank)
    \/ /\ Readable(d, {"cleanup"}) /\ d.archive = "none"
       /\ \A f \in DOMAIN Rank : Readable(d, {f}) \/ (d.domain = "retired" /\ Missing(d, {f}))
    \/ d.domain = "retired" /\ Missing(d, Files)
Cleanup(p) ==
    /\ cmd[p] = NoCommand /\ DomainFree /\ StoreFree /\ CleanupPlan(store)
    /\ Run(p, "cleanup", IF Missing(store, Files) THEN "remove" ELSE "plan")
    /\ Keep /\ UNCHANGED ghosts
PlanPublished(p) == cmd[p].at = "plan" /\ Publish(p, "cleanup") /\ UNCHANGED ghosts
\* cleanup_checked: what is removed is removed from the retired namespace only.
RetireDomain(p) ==
    /\ cmd[p].at = "retire"
    /\ \/ store.domain = "active"
          /\ Change([store EXCEPT !.domain = "retired"]) /\ Goto(p, "retiring")
       \/ store.domain = "retired" /\ Keep /\ Goto(p, "drain")
    /\ UNCHANGED ghosts
DomainRetired(p) == SyncStep(p, "retiring", "drain")
DrainDomain(p) ==
    /\ cmd[p].at = "drain"
    /\ \E f \in DOMAIN Rank :
        /\ Readable(store, {f}) /\ Missing(store, {g \in DOMAIN Rank : Rank[g] < Rank[f]})
        /\ Change([store EXCEPT !.file[f] = "none"]) /\ Goto(p, "draining")
    /\ UNCHANGED ghosts
MemberDrained(p) == SyncStep(p, "draining", "drain")
\* cleanup_finalize
FinalizeCleanup(p) ==
    /\ cmd[p].at = "drain" /\ Missing(store, DOMAIN Rank)
    /\ Change([store EXCEPT !.file["cleanup"] = "none"]) /\ Goto(p, "finalizing")
    /\ UNCHANGED ghosts
PlanDrained(p) == SyncStep(p, "finalizing", "remove")
RemoveDomain(p) ==
    /\ cmd[p].at = "remove" /\ store.domain = "retired" /\ Missing(store, Files)
    /\ Change([store EXCEPT !.domain = "none", !.due = 0]) /\ Goto(p, "removing")
    /\ UNCHANGED ghosts
DomainRemoved(p) == SyncStep(p, "removing", "end")
-----------------------------------------------------------------------------
CommandStops(p) == cmd[p] # NoCommand /\ Goto(p, "end") /\ Keep /\ UNCHANGED ghosts
\* Bytes that were written and not synced may be lost, and are durable if they are not.
Left(d, torn) == [d EXCEPT !.file = [f \in DOMAIN @ |-> IF @[f] # "written" THEN @[f]
                                                        ELSE IF f \in torn THEN "torn" ELSE "whole"]]
PowerLoss == /\ \E d \in stores : \E torn \in SUBSET {f \in DOMAIN d.file : d.file[f] = "written"} :
                   Synced(Left(d, torn))
             /\ cmd' = [p \in Command |-> NoCommand]
             /\ UNCHANGED ghosts
Elapse == /\ instant < MaxInstant /\ instant' = instant + 1
          /\ UNCHANGED <<store, stores, resolved, cmd, exported, retaken>>

ArchiveNext ==
    \/ \E p \in Command :
         \/ WriteMember(p) \/ SyncMember(p)
         \/ Retain(p) \/ ArchiveProposal(p) \/ ArchiveRenamed(p) \/ ArchivePlaced(p)
         \/ UnlinkArchived(p) \/ MemberUnlinked(p) \/ PendingRetain(p)
         \/ Export(p) \/ DomainOpened(p) \/ ExportDelivered(p) \/ MarkArchive(p) \/ MarkPublished(p)
         \/ DeleteArchive(p) \/ IntentPublished(p) \/ UnlinkArchive(p) \/ ArchiveGone(p)
         \/ DonePublished(p)
         \/ Cleanup(p) \/ PlanPublished(p) \/ RetireDomain(p) \/ DomainRetired(p)
         \/ DrainDomain(p) \/ MemberDrained(p) \/ FinalizeCleanup(p) \/ PlanDrained(p)
         \/ RemoveDomain(p) \/ DomainRemoved(p) \/ CommandStops(p)
    \/ PowerLoss \/ Elapse

ArchiveSpec == ArchiveInit /\ [][ArchiveNext]_archiveVars
-----------------------------------------------------------------------------
\* Whatever a power loss leaves, the store opens, and the records of the closed
\* operation are there, as originals or as an archive: they go only by a deletion, a
\* grace after their export, never if any of their effects is uncertain, and only once
\* its intent is durable.  An intent that delete_checked found written by a deletion
\* that was killed before its sync is exempt: of that one the file is left, and its
\* bytes may be torn.
EvidenceSurvives ==
    \A d \in stores \cup {store} :
      /\ Inventory(d)
      /\ \/ d.root = Member \/ d.archive = "whole"
         \/ /\ resolved /\ instant >= exported + ArchiveGrace
            /\ \/ d.file["intent"] = "whole" \/ d.domain \in {"retired", "none"}
               \/ retaken /\ ~Missing(d, {"intent"})

\* cleanup_checked, history.rs:974: "Full removed bytes remain bound in cleanup.json and
\* later in the typed durable effect outcome".  While one file the plan names is gone
\* from a retired domain and another is still there, cleanup.json can be read, also after
\* a power loss, so that the cleanup is taken up again with it.
RemovedBytesAreBound ==
    /\ store.domain = "retired"
    /\ \E f \in DOMAIN Rank : Missing(store, {f})
    /\ \E f \in DOMAIN Rank : ~Missing(store, {f})
    => Readable(store, {"cleanup"})

=============================================================================
