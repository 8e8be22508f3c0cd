------------------------- MODULE ModelQualification -------------------------
(* The delivery of externally signed qualification packages (model_qualification.rs): one package
   of a profile and level is current, and is replaced only by a transfer that names it as its
   predecessor, which is first retained under its digest.  A command holds the transfer lock from
   its first comparison to its end; its grant may be refused at any check, it may die, and the
   machine may lose power.  What an interrupted command leaves is kept, under a bound, until an
   Admin reviews it and has it moved aside.

   `files' is what the file system shows, `platters' what a power loss may leave of it: names
   become durable in their order, at the latest with the next sync; a file that is complete but
   not synced ("Written") may then be torn.  Digests are the packages themselves. *)
EXTENDS Naturals, FiniteSets

CONSTANTS Package, Absent,
          MaxPending,  \* interrupted files at which a new transfer is refused
          MaxFiles,    \* bound: files ever staged
          MaxLosses    \* bound: power losses

VARIABLES files, platters,
          transfer,    \* the command that holds the lock, with what it delivers
          review,      \* the pending files that a retention was approved for
          delivered,   \* history: the packages whose delivery was acknowledged
          losses

qualificationVars == <<files, platters, transfer, review, delivered, losses>>

File == 1..MaxFiles
Bytes == {"Torn", "Written", "Whole"}
\* A transfer: a package, and the predecessor that it names
Transfer == {t \in [package : Package, previous : Package \cup {Absent}] : t.package # t.previous}
Idle == [pc |-> "idle", at |-> Absent, step |-> "none", of |-> Absent]
Stored == [of : Package, bytes : Bytes]

QualificationTypeOK ==
    /\ \A d \in platters \cup {files} :
         /\ d.current \in Stored \cup {Absent} /\ d.history \in [Package -> Bytes \cup {Absent}]
         /\ d.pending \in [File -> Stored \cup {Absent}] /\ d.retained \subseteq File
    /\ transfer.pc \in {"idle", "old", "new", "published", "retaining"}
    /\ transfer.step \in {"none", "created", "filled", "ready"}
    /\ transfer.at \in File \cup {Absent} /\ transfer.of \in Transfer \cup {Absent}
    /\ review \subseteq File /\ delivered \subseteq Package /\ losses \in 0..MaxLosses

QualificationInit ==
    /\ files = [current |-> Absent, history |-> [p \in Package |-> Absent],
                pending |-> [f \in File |-> Absent], retained |-> {}]
    /\ platters = {files} /\ transfer = Idle /\ review = {} /\ delivered = {} /\ losses = 0

Change(d) == files' = d /\ platters' = platters \cup {d}
Synced(d) == files' = d /\ platters' = {d}
Still == UNCHANGED <<files, platters>>
Go(pc) == transfer' = [transfer EXCEPT !.pc = pc, !.step = "none", !.at = Absent]
Pending == {f \in File : files.pending[f] # Absent}
-----------------------------------------------------------------------------
\* read and Package::parse
Parses(bytes) == bytes \in {"Written", "Whole"}
Readable == files.current # Absent => Parses(files.current.bytes)
Current == IF files.current = Absent THEN Absent ELSE files.current.of

\* compare: the package is already there, after the predecessor that it names; or it may be next.
Already(t) ==
    /\ Readable /\ Current = t.package
    /\ t.previous # Absent => Parses(files.history[t.previous])
MayFollow(t) == Readable /\ Current # t.package /\ Current = t.previous

\* install: the grant, the lock and the first comparison; publish counts what is pending.
Install(t) ==
    /\ transfer = Idle
    /\ \/ Already(t) /\ delivered' = delivered \cup {t.package} /\ UNCHANGED transfer
       \/ /\ MayFollow(t) /\ Cardinality(Pending) < MaxPending
          /\ transfer' = [Idle EXCEPT !.pc = "old", !.of = t] /\ UNCHANGED delivered
    /\ Still /\ UNCHANGED <<review, losses>>

\* new_file creates a file under a fresh name, fills it, and syncs it and its directory.
NewFile(p) ==
    \E f \in File :
        /\ files.pending[f] = Absent /\ f \notin files.retained
        /\ \A g \in 1..(f - 1) : files.pending[g] # Absent \/ g \in files.retained
        /\ Change([files EXCEPT !.pending[f] = [of |-> p, bytes |-> "Torn"]])
        /\ transfer' = [transfer EXCEPT !.step = "created", !.at = f]

Fill ==
    /\ transfer.step = "created" /\ transfer' = [transfer EXCEPT !.step = "filled"]
    /\ Change([files EXCEPT !.pending[transfer.at].bytes = "Written"])
    /\ UNCHANGED <<review, delivered, losses>>

SyncFile ==
    /\ transfer.step = "filled" /\ transfer' = [transfer EXCEPT !.step = "ready"]
    /\ Synced([files EXCEPT !.pending[transfer.at].bytes = "Whole"])
    /\ UNCHANGED <<review, delivered, losses>>

\* retain_previous: nothing to retain, or retained already, or staged now.
RetainPrevious ==
    LET old == transfer.of.previous
    IN  /\ transfer.pc = "old" /\ transfer.step = "none"
        /\ IF old = Absent THEN Go("new") /\ Still
           ELSE /\ Readable /\ Current = old
                /\ IF files.history[old] # Absent
                   THEN Parses(files.history[old]) /\ Go("new") /\ Still
                   ELSE NewFile(old)
        /\ UNCHANGED <<review, delivered, losses>>

\* and given its digest's name in the history
KeepPrevious ==
    LET f == transfer.at
    IN  /\ transfer.pc = "old" /\ transfer.step = "ready"
        /\ files.history[files.pending[f].of] = Absent
        /\ Synced([files EXCEPT !.history[files.pending[f].of] = files.pending[f].bytes,
                                !.pending[f] = Absent])
        /\ Go("new")
        /\ UNCHANGED <<review, delivered, losses>>

StageNew ==
    /\ transfer.pc = "new" /\ transfer.step = "none" /\ NewFile(transfer.of.package)
    /\ UNCHANGED <<review, delivered, losses>>

\* The comparison after staging, and the rename
Publish ==
    LET f == transfer.at
    IN  /\ transfer.pc = "new" /\ transfer.step = "ready" /\ MayFollow(transfer.of)
        /\ transfer.of.previous = Absent => files.current = Absent
        /\ Synced([files EXCEPT !.current = files.pending[f], !.pending[f] = Absent])
        /\ Go("published")
        /\ UNCHANGED <<review, delivered, losses>>

\* The read-back, and the end of the effect
Delivered ==
    /\ transfer.pc = "published" /\ Readable /\ Current = transfer.of.package
    /\ delivered' = delivered \cup {transfer.of.package} /\ transfer' = Idle
    /\ Still /\ UNCHANGED <<review, losses>>

\* A check refuses, an operation fails, or the process ends.
TransferEnds ==
    /\ transfer # Idle /\ transfer' = Idle
    /\ Still /\ UNCHANGED <<review, delivered, losses>>
-----------------------------------------------------------------------------
\* pending_review: the files that are there are what the grant is for.
PendingReview ==
    /\ Pending # {} /\ Cardinality(Pending) <= MaxPending
    /\ review' = Pending
    /\ Still /\ UNCHANGED <<transfer, delivered, losses>>

\* pending_retain: under the lock they are still the reviewed ones.
PendingRetain ==
    /\ transfer = Idle /\ review # {} /\ Pending = review
    /\ transfer' = [Idle EXCEPT !.pc = "retaining"]
    /\ Still /\ UNCHANGED <<review, delivered, losses>>

\* Each is moved into the batch and synced.
RetainMember ==
    /\ transfer.pc = "retaining"
    /\ IF Pending = {} THEN transfer' = Idle /\ review' = {} /\ Still
       ELSE \E f \in Pending :
              /\ Synced([files EXCEPT !.pending[f] = Absent, !.retained = @ \cup {f}])
              /\ UNCHANGED <<transfer, review>>
    /\ UNCHANGED <<delivered, losses>>

\* Power is lost: of a file that was not synced, any part may be missing.
QualificationPowerLoss ==
    /\ losses < MaxLosses /\ losses' = losses + 1
    /\ \E d \in platters : \E torn \in SUBSET {f \in File : d.pending[f] # Absent} :
         LET after == [d EXCEPT !.pending = [f \in File |->
                         IF @[f] = Absent \/ @[f].bytes # "Written" THEN @[f]
                         ELSE [@[f] EXCEPT !.bytes = IF f \in torn THEN "Torn" ELSE "Whole"]]]
         IN  files' = after /\ platters' = {after}
    /\ transfer' = Idle /\ UNCHANGED <<review, delivered>>

QualificationNext ==
    \/ \E t \in Transfer : Install(t)
    \/ RetainPrevious \/ Fill \/ SyncFile \/ KeepPrevious \/ StageNew \/ Publish \/ Delivered
    \/ TransferEnds \/ PendingReview \/ PendingRetain \/ RetainMember \/ QualificationPowerLoss

QualificationSpec == QualificationInit /\ [][QualificationNext]_qualificationVars

\* What has its final name is whole, current or in the history, on any disk that a power loss may
\* leave; and no package whose delivery was acknowledged is lost by a later rotation, however it
\* was interrupted: it is the current one or is in the history.
DeliveredIsKept ==
    \A d \in platters \cup {files} :
        /\ d.current = Absent \/ d.current.bytes = "Whole"
        /\ \A p \in Package : d.history[p] \in {Absent, "Whole"}
        /\ \A p \in delivered : (d.current # Absent /\ d.current.of = p) \/ d.history[p] # Absent

=============================================================================
