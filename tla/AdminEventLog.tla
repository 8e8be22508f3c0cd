---------------------------- MODULE AdminEventLog ----------------------------
(***************************************************************************)
(* durable_administration.py and monotonic_anchor.py: the append-only log  *)
(* of Admin authorizations, kept in SQLite by any number of processes, and *)
(* the external anchor whose compare-and-swap says which log is current.   *)
(*                                                                         *)
(* A checkpoint is the number of events and the head of their hash chain,  *)
(* and is identified with the log itself.  The SQLite commit and the       *)
(* compare-and-swap are two steps; a process that cannot tell whether the  *)
(* second happened fences itself.  The database file may be restored to an *)
(* older state behind the store's back; the anchor may not.                *)
(***************************************************************************)
EXTENDS Naturals, Sequences

CONSTANTS
    Process,
    Assignment,
    Item,          \* catalog approvals and signing statements, by their receipt
    AssignmentOf,  \* the assignment that an item names
    Lifetime,      \* expires_at - issued_at of an assignment
    MaxTime,       \* bound: clock values are 0 .. MaxTime
    Capacity,      \* capacity
    NoItem

Time == 0 .. MaxTime

ASSUME AdminAssumption ==
    /\ MaxTime \in Nat /\ Capacity \in Nat /\ Lifetime \in Nat
    /\ AssignmentOf \in [Item -> Assignment]
    /\ Assignment \cap Item = {}
    /\ NoItem \notin Item

Event == [kind : {"grant", "revoke"}, subject : Assignment, occurred : Time, recorded : Time]
         \cup [kind : {"authorize"}, subject : Item, occurred : Time, recorded : Time]

VARIABLES
    db,        \* the events in SQLite
    anchor,    \* the log that the external checkpoint commits to
    clock,     \* the UTC clock
    phase,        \* where each process is
    local,     \* what each process has read or is about to write
    receipts   \* the logs that returned receipts name as anchored

logVars == <<db, anchor, clock, phase, local, receipts>>

Locals == [log : Seq(Event), time : Time, item : Item \cup {NoItem}, before : SUBSET Seq(Event)]

LogTypeOK ==
    /\ db \in Seq(Event) /\ Len(db) <= Capacity
    /\ anchor \in Seq(Event) /\ Len(anchor) <= Capacity
    /\ clock \in Time
    /\ phase \in [Process -> {"closed", "idle", "fenced", "begin", "committed", "cas", "readback",
                           "loaded", "locked", "unlocked", "reread", "reanchored"}]
    /\ local \in [Process -> Locals]
    /\ \A p \in Process : Len(local[p].log) <= Capacity
    /\ receipts \subseteq Seq(Event)

Nothing == [log |-> <<>>, time |-> 0, item |-> NoItem, before |-> {}]

\* Every process opens the empty store later.
LogInit ==
    /\ db = <<>> /\ anchor = <<>>
    /\ clock = 0
    /\ phase = [p \in Process |-> "closed"]
    /\ local = [p \in Process |-> Nothing]
    /\ receipts = {}
-----------------------------------------------------------------------------
(* What a log says *)

Events(log) == {log[i] : i \in DOMAIN log}
Granted(log, a) == {e \in Events(log) : e.kind = "grant" /\ e.subject = a}
Revoked(log, a) == {e \in Events(log) : e.kind = "revoke" /\ e.subject = a}
Recorded(log, item) == {e \in Events(log) : e.kind = "authorize" /\ e.subject = item}

\* _assignment_authorizes
AssignmentAuthorizes(log, a, at) ==
    /\ \E g \in Granted(log, a) : g.occurred <= at /\ at < g.occurred + Lifetime
    /\ \A r \in Revoked(log, a) : at < r.occurred

\* _apply_event_payload: whether the event may follow the log.
Applies(log, e) ==
    CASE e.kind = "grant"     -> Granted(log, e.subject) = {}
      [] e.kind = "revoke"    -> Granted(log, e.subject) # {} /\ Revoked(log, e.subject) = {}
      [] e.kind = "authorize" -> /\ Recorded(log, e.subject) = {}
                                 /\ AssignmentAuthorizes(log, AssignmentOf[e.subject], e.occurred)

\* _approval_is_authorized_in_state and _signer_is_authorized_in_state
Authorized(log, item, at) ==
    /\ \E e \in Recorded(log, item) : e.occurred <= at
    /\ AssignmentAuthorizes(log, AssignmentOf[item], at)

\* Neither occurrence nor recording goes back in time.
InOrder(log, e) ==
    log # <<>> => log[Len(log)].occurred <= e.occurred /\ log[Len(log)].recorded <= e.recorded

\* _load_verified_state: what the store accepts when it reads the table.
Loadable(log) ==
    /\ Len(log) <= Capacity
    /\ \A i \in DOMAIN log :
          LET earlier == SubSeq(log, 1, i - 1)
          IN  log[i].occurred <= log[i].recorded /\ InOrder(earlier, log[i])
              /\ Applies(earlier, log[i])

\* The clock is not behind the recorded-time high-water mark.
ClockHolds(log) == log # <<>> => log[Len(log)].recorded <= clock
-----------------------------------------------------------------------------
Goto(p, from, to) == phase[p] = from /\ phase' = [phase EXCEPT ![p] = to]

\* __init__: _verified_state_locked must succeed.
OpenStore(p) ==
    /\ Goto(p, "closed", "idle")
    /\ Loadable(db) /\ ClockHolds(db) /\ db = anchor
    /\ UNCHANGED <<db, anchor, clock, local, receipts>>

\* _append_event samples the clock before it asks for the write lock.
BeginAppend(p) ==
    /\ Goto(p, "idle", "begin")
    /\ local' = [local EXCEPT ![p] = [Nothing EXCEPT !.time = clock]]
    /\ UNCHANGED <<db, anchor, clock, receipts>>

NoWriter == \A q \in Process : phase[q] # "locked"

\* The transaction of _append_event.  COMMIT may report an error for a row that is durable, and
\* then the instance is not fenced.
CommitRow(p, e) ==
    /\ phase[p] = "begin" /\ NoWriter
    /\ e.recorded = local[p].time /\ e.occurred <= e.recorded
    /\ Loadable(db) /\ InOrder(db, e) /\ Len(db) < Capacity /\ db = anchor
    /\ Applies(db, e)
    /\ db' = Append(db, e)
    /\ \/ phase' = [phase EXCEPT ![p] = "committed"] /\ local' = [local EXCEPT ![p].log = db']
       \/ phase' = [phase EXCEPT ![p] = "idle"] /\ local' = [local EXCEPT ![p] = Nothing]
    /\ UNCHANGED <<anchor, clock, receipts>>

\* _verify_committed_append
VerifyCommitted(p) ==
    /\ phase[p] = "committed"
    /\ phase' = [phase EXCEPT ![p] = IF Loadable(db) /\ db = local[p].log THEN "cas" ELSE "fenced"]
    /\ UNCHANGED <<db, anchor, clock, local, receipts>>

\* compare_and_swap of the external anchor, whose reply may be lost.
CompareAndSwap(p) ==
    LET expected == SubSeq(local[p].log, 1, Len(local[p].log) - 1)
    IN  /\ phase[p] = "cas"
        /\ \/ /\ anchor = expected /\ anchor' = local[p].log
              /\ \E to \in {"readback", "fenced"} : phase' = [phase EXCEPT ![p] = to]
           \/ phase' = [phase EXCEPT ![p] = "fenced"] /\ UNCHANGED anchor
        /\ UNCHANGED <<db, clock, local, receipts>>

\* Mutation of ReadBack: a receipt is returned for what the database holds.
ReadBack_Database(p) ==
    /\ phase[p] \in {"cas", "readback"} /\ db = local[p].log
    /\ phase' = [phase EXCEPT ![p] = "idle"]
    /\ receipts' = receipts \cup {local[p].log} /\ local' = [local EXCEPT ![p] = Nothing]
    /\ UNCHANGED <<db, anchor, clock>>

\* The anchor is read back: the receipt is returned, or the instance is fenced.
ReadBack(p) ==
    /\ phase[p] = "readback"
    /\ \/ /\ anchor = local[p].log
          /\ phase' = [phase EXCEPT ![p] = "idle"]
          /\ receipts' = receipts \cup {local[p].log}
          /\ local' = [local EXCEPT ![p] = Nothing]
       \/ phase' = [phase EXCEPT ![p] = "fenced"] /\ UNCHANGED <<receipts, local>>
    /\ UNCHANGED <<db, anchor, clock>>

\* A refusal or a failing store ends an operation without a change; close or a crash ends the
\* instance.
EndOperation(p) ==
    /\ phase[p] \in {"begin", "loaded", "locked", "unlocked", "reread", "reanchored"}
    /\ phase' = [phase EXCEPT ![p] = "idle"] /\ local' = [local EXCEPT ![p] = Nothing]
    /\ UNCHANGED <<db, anchor, clock, receipts>>

CloseStore(p) ==
    /\ phase[p] # "closed"
    /\ phase' = [phase EXCEPT ![p] = "closed"] /\ local' = [local EXCEPT ![p] = Nothing]
    /\ UNCHANGED <<db, anchor, clock, receipts>>
-----------------------------------------------------------------------------
(* Authorization queries *)

Query(item) == [log |-> db, time |-> 0, item |-> item, before |-> receipts]

\* _approval_is_authorized and _signer_is_authorized read the table.
Load(p, item) ==
    /\ Goto(p, "idle", "loaded")
    /\ Loadable(db) /\ ClockHolds(db)
    /\ local' = [local EXCEPT ![p] = Query(item)]
    /\ UNCHANGED <<db, anchor, clock, receipts>>

Answers(p, at) ==
    /\ Authorized(local[p].log, local[p].item, at)
    /\ phase' = [phase EXCEPT ![p] = "idle"] /\ local' = [local EXCEPT ![p] = Nothing]
    /\ UNCHANGED <<db, anchor, clock, receipts>>

\* Mutation of Confirm: the anchor is not read.
Confirm_Database(p, at) == phase[p] = "loaded" /\ Answers(p, at)

\* They then compare the anchor, and answer.
Confirm(p, at) == phase[p] = "loaded" /\ anchor = local[p].log /\ Answers(p, at)

\* _catalog_is_authorized verifies table and anchor inside BEGIN IMMEDIATE.
Lock(p, item) ==
    /\ Goto(p, "idle", "locked") /\ NoWriter
    /\ Loadable(db) /\ ClockHolds(db) /\ db = anchor
    /\ local' = [local EXCEPT ![p] = Query(item)]
    /\ UNCHANGED <<db, anchor, clock, receipts>>

\* The head and the anchor are read once more and the transaction ends.
Unlock(p) ==
    /\ Goto(p, "locked", "unlocked")
    /\ db = local[p].log /\ anchor = local[p].log
    /\ UNCHANGED <<db, anchor, clock, local, receipts>>

\* The observations after the lock: the table, then the anchor, then the table.
Reread(p) ==
    /\ \/ Goto(p, "unlocked", "reread") /\ db = local[p].log
       \/ Goto(p, "reread", "reanchored") /\ anchor = local[p].log
    /\ UNCHANGED <<db, anchor, clock, local, receipts>>

\* The batch is authorized at the time asked about and was when the item was made.
ConfirmBatch(p, at) ==
    /\ phase[p] = "reanchored" /\ db = local[p].log
    /\ \A e \in Recorded(local[p].log, local[p].item) :
          Authorized(local[p].log, local[p].item, e.occurred)
    /\ Answers(p, at)
-----------------------------------------------------------------------------
SetClock == clock' \in Time /\ UNCHANGED <<db, anchor, phase, local, receipts>>

\* An older copy of the database file takes the place of the current one.
Restore ==
    /\ NoWriter
    /\ \E n \in 0 .. Len(db) - 1 : db' = SubSeq(db, 1, n)
    /\ UNCHANGED <<anchor, clock, phase, local, receipts>>

LogNext ==
    \/ \E p \in Process :
          \/ OpenStore(p) \/ BeginAppend(p) \/ VerifyCommitted(p) \/ CompareAndSwap(p) \/ ReadBack(p)
          \/ EndOperation(p) \/ CloseStore(p)
          \/ \E e \in Event : CommitRow(p, e)
          \/ \E item \in Item : Load(p, item) \/ Lock(p, item)
          \/ \E at \in Time : Confirm(p, at) \/ ConfirmBatch(p, at)
          \/ Unlock(p) \/ Reread(p)
    \/ SetClock \/ Restore

LogSpec == LogInit /\ [][LogNext]_logVars
-----------------------------------------------------------------------------
Prefix(short, long) == Len(short) <= Len(long) /\ \A i \in DOMAIN short : short[i] = long[i]

\* A returned receipt names a log that the anchor holds, or has grown from, for good: neither a
\* concurrent writer nor a restored database makes an acknowledged event disappear.
ReceiptIsAnchored == \A log \in receipts : Prefix(log, anchor)

\* No answer of this step contradicts a revocation whose receipt was returned before the query.
HonoursReceipts ==
    \A p \in Process, at \in Time : Confirm(p, at) \/ ConfirmBatch(p, at) =>
        \A log \in local[p].before : \A r \in Revoked(log, AssignmentOf[local[p].item]) :
            at < r.occurred

\* Once the receipt of a revocation has been returned, no query that starts later authorizes
\* what the revoked assignment stood for, not even over a restored database.
RevocationHolds == [][HonoursReceipts]_logVars
=============================================================================
