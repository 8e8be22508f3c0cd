---------------------------- MODULE AdminSession ----------------------------
(***************************************************************************)
(* The local Admin service: a daemon that serves one connection at a time, *)
(* a child process per connection that authenticates the person at the     *)
(* other end (kernel peer, PAM, account files, journal) and runs one       *)
(* catalog request, and the client that waits for the answer.              *)
(*                                                                         *)
(* Left out: frames and JSON (a request is its kind), the confinement      *)
(* profile, the terminal, and the catalog itself (AdminCatalog), of which  *)
(* only the journal head is seen.  A check that reads several files is one *)
(* step.  Time is counted in ticks of the daemon's execution budget.       *)
(***************************************************************************)
EXTENDS Naturals, Sequences

CONSTANTS
    Client,      \* client processes of the selected person
    Nobody,      \* no client
    Window,      \* lifetime of an account observation, in ticks
    Budget,      \* execution budget of one connection, in ticks
    MaxRows,     \* how often the account files change
    MaxHead      \* how many events the journal takes

SessionAssumption == Nobody \notin Client /\ Window \in Nat /\ Budget \in Nat

VARIABLES
    rows,        \* generation of the registry, passwd and shadow files
    head,        \* events in the journal
    client,      \* where each client is, and how long it has waited
    queue,       \* connections not yet accepted
    child,       \* the process serving a connection
    spent        \* ticks since that process was started

sessionVars == <<rows, head, client, queue, child, spent>>

-----------------------------------------------------------------------------
(* Requests: `kind' is the operation, `reserved' a command the service     *)
(* never takes from a caller.                                              *)

Kinds == {"status", "review", "commit", "reserved"}

ValidRequest(kind) == kind # "reserved"

NoRequest == [kind |-> "status", password |-> 0, review |-> 0]

Idle == [for |-> Nobody, at |-> "none", request |-> NoRequest, login |-> 0, pin |-> 0,
         verified |-> 0, age |-> 0, result |-> "denied", late |-> FALSE]

SessionInit ==
    /\ rows = 1
    /\ head = 0
    /\ client = [c \in Client |-> [at |-> "idle", waited |-> 0]]
    /\ queue = <<>>
    /\ child = Idle
    /\ spent = 0

-----------------------------------------------------------------------------
(* The client. *)

Ask(c) ==
    /\ client[c].at = "idle"
    /\ client' = [client EXCEPT ![c].at = "waiting"]
    /\ queue' = Append(queue, c)
    /\ UNCHANGED <<rows, head, child, spent>>

\* From the moment its peer is captured until the journal entry is dispatched,
\* a request may not outlive what it was authenticated with.
Opened == {"frame", "login", "bind", "pam", "verified", "issued", "session", "attempt", "prepared"}

Late(condition) == IF condition /\ child.at \in Opened THEN [child EXCEPT !.late = TRUE] ELSE child

Over(outcome) == [at |-> outcome, waited |-> 0]

\* The connection's creator exits, hangs up or changes its credentials.
Vanish(c) ==
    /\ client[c].at = "waiting"
    /\ client' = [client EXCEPT ![c] = Over("gone")]
    /\ child' = Late(child.for = c)
    /\ UNCHANGED <<rows, head, queue, spent>>

\* The client waits a little longer than the daemon lets a connection run.
GiveUp(c) ==
    /\ client[c].at = "waiting"
    /\ client[c].waited > Budget
    /\ client' = [client EXCEPT ![c] = Over("gone")]
    /\ child' = Late(child.for = c)
    /\ UNCHANGED <<rows, head, queue, spent>>

\* The answer is taken only when it says "ok" for this request; a connection
\* closed without an answer is a refusal.
Told(c, result) ==
    IF client[c].at = "waiting"
    THEN [client EXCEPT ![c] = Over(IF result = "denied" THEN "refused" ELSE result)]
    ELSE client

-----------------------------------------------------------------------------
(* The daemon: connections in order, each child within its budget. *)

Accept ==
    /\ child.at = "none"
    /\ queue # <<>>
    /\ child' = [Idle EXCEPT !.for = Head(queue), !.at = "spawn"]
    /\ queue' = Tail(queue)
    /\ spent' = 0
    /\ UNCHANGED <<rows, head, client>>

Ended == client' = Told(child.for, "denied") /\ child' = Idle /\ spent' = 0

Overdue == spent >= Budget

\* The whole session of the child is killed: its PAM helper with it.
WaitSession ==
    /\ child.at # "none"
    /\ Overdue
    /\ Ended
    /\ UNCHANGED <<rows, head, queue>>

\* Time passes for everybody; the daemon notices a spent budget at once.
Tick ==
    /\ child.at # "none"
    /\ spent < Budget
    /\ spent' = spent + 1
    /\ client' = [c \in Client |->
           IF client[c].at = "waiting" /\ client[c].waited <= Budget
           THEN [client[c] EXCEPT !.waited = @ + 1] ELSE client[c]]
    /\ LET older == [child EXCEPT !.age = IF @ < Window THEN @ + 1 ELSE @]
           expired == child.at \in {"issued", "session", "attempt", "prepared"} /\ older.age = Window
       IN  child' = [older EXCEPT !.late = @ \/ expired]
    /\ UNCHANGED <<rows, head, queue>>

-----------------------------------------------------------------------------
(* What the child checks. *)

At(phase) == child.at = phase /\ ~Overdue

\* The peer: its process lives, is the connection's creator, has the same
\* credentials, and the connection is open.  A failed observation is final.
PeerCurrent == child.for # Nobody /\ client[child.for].at = "waiting"

\* The account files are the pinned ones: same inode, same change time.
BindingCurrent == rows = child.pin

\* The account observation has not reached its deadline.
LifetimeActive == child.age < Window

\* One observation of the account inside one of the peer.
Observed_Cached == PeerCurrent /\ LifetimeActive
Observed == PeerCurrent /\ BindingCurrent /\ LifetimeActive

ChildStep(next) == child' = next /\ UNCHANGED <<rows, head, client, queue, spent>>

\* Error after the frames: the answer will be a bare denial.
Denied == [child EXCEPT !.at = "answer", !.result = "denied"]

-----------------------------------------------------------------------------
(* The child, step by step. *)

CapturePeer ==
    /\ At("spawn")
    /\ PeerCurrent
    /\ ChildStep([child EXCEPT !.at = "frame"])

\* The request names an operation and the review it approves; the password of
\* some moment follows in a frame of its own.
ReadFrame ==
    /\ At("frame")
    /\ \E request \in [kind : Kinds, password : 0..rows, review : 0..head] :
          /\ ValidRequest(request.kind)
          /\ request.kind = "commit" \/ request.review = 0
          /\ ChildStep([child EXCEPT !.at = "login", !.request = request])

\* A peer that cannot be captured, frames that do not arrive in time and an
\* invalid request close the connection without an answer.
Close ==
    /\ (At("spawn") /\ ~PeerCurrent) \/ At("frame")
    /\ Ended
    /\ UNCHANGED <<rows, head, queue>>

\* The governed login is prepared before PAM: it pins the journal head.
PrepareService ==
    /\ At("login")
    /\ PeerCurrent
    /\ ChildStep([child EXCEPT !.at = "bind", !.login = head])

\* The account files are pinned before the password is looked at.
CaptureBinding ==
    /\ At("bind")
    /\ PeerCurrent
    /\ ChildStep([child EXCEPT !.at = "pam", !.pin = rows, !.age = 0])

\* The PAM helper compares the password with the files of that moment.
RunHelper ==
    /\ At("pam")
    /\ LifetimeActive
    /\ child.request.password = rows
    /\ ChildStep([child EXCEPT !.at = "verified", !.verified = rows, !.request.password = 0])

\* The pins are rechecked after PAM; only then does the lifetime start.
IssueAccount ==
    /\ At("verified")
    /\ Observed
    /\ ChildStep([child EXCEPT !.at = "issued", !.age = 0])

\* The store is opened, and stays locked; the login is replayed: nothing may
\* have been appended since it was prepared.
IssueSession ==
    /\ At("issued")
    /\ Observed
    /\ child.login = head
    /\ ChildStep([child EXCEPT !.at = "session"])

Status ==
    /\ At("session")
    /\ child.request.kind = "status"
    /\ Observed
    /\ ChildStep([child EXCEPT !.at = "answer", !.result = "ok"])

PrepareAttempt ==
    /\ At("session")
    /\ child.request.kind # "status"
    /\ Observed
    /\ child.login = head
    /\ ChildStep([child EXCEPT !.at = "attempt"])

\* Without a review the proposal is only reported.
Propose ==
    /\ At("attempt")
    /\ child.request.kind = "review"
    /\ Observed
    /\ ChildStep([child EXCEPT !.at = "answer", !.result = "ok"])

\* The approved digest names the head; the event and the pending entry are
\* written and synced, which may take long.
PrepareEntry ==
    /\ At("attempt")
    /\ child.request.kind = "commit"
    /\ child.request.review = head
    /\ head < MaxHead
    /\ Observed
    /\ ChildStep([child EXCEPT !.at = "prepared"])

\* The append asks its owner again right before the TPM dispatch.
AuthorizeAppend ==
    /\ At("prepared")
    /\ Observed
    /\ ChildStep([child EXCEPT !.at = "dispatch"])

DispatchEntry ==
    /\ At("dispatch")
    /\ head' = head + 1
    /\ child' = [child EXCEPT !.at = "committed"]
    /\ UNCHANGED <<rows, client, queue, spent>>

\* A committed request is still reported as denied when the last check fails.
ReportCommit ==
    /\ At("committed")
    /\ ChildStep(IF Observed THEN [child EXCEPT !.at = "answer", !.result = "ok"] ELSE Denied)

\* Any step between the frames and the dispatch may fail: a check, a file, the
\* lock, the wrong password, a stale review.
FailRequest ==
    /\ child.at \in Opened \ {"frame"}
    /\ ~Overdue
    /\ ChildStep(Denied)

\* The peer is checked once more and the frame written.
Answer ==
    /\ At("answer")
    /\ client' = Told(child.for, IF PeerCurrent THEN child.result ELSE "denied")
    /\ child' = Idle
    /\ spent' = 0
    /\ UNCHANGED <<rows, head, queue>>

\* A blocked file, TPM or helper: only the daemon's budget ends it.
Stall ==
    /\ child.at \notin {"none", "hung"}
    /\ ChildStep([child EXCEPT !.at = "hung"])

-----------------------------------------------------------------------------
(* The surroundings. *)

\* Somebody changes a password or the registry: a new file generation.
ChangeRows ==
    /\ rows < MaxRows
    /\ rows' = rows + 1
    /\ child' = Late(child.verified # 0)
    /\ UNCHANGED <<head, client, queue, spent>>

\* A local command appends to the journal while the store is not locked.
LocalCommand ==
    /\ head < MaxHead
    /\ child.at \in {"none", "spawn", "frame", "login", "bind", "pam", "verified", "issued"}
    /\ head' = head + 1
    /\ child' = Late(child.at \in {"bind", "pam", "verified", "issued"})
    /\ UNCHANGED <<rows, client, queue, spent>>

Serve ==
    \/ CapturePeer \/ ReadFrame \/ Close \/ PrepareService \/ CaptureBinding \/ RunHelper
    \/ IssueAccount \/ IssueSession \/ Status \/ PrepareAttempt \/ Propose \/ PrepareEntry
    \/ AuthorizeAppend \/ DispatchEntry \/ ReportCommit \/ FailRequest \/ Answer

SessionNext ==
    \/ \E c \in Client : Ask(c) \/ Vanish(c) \/ GiveUp(c)
    \/ Accept \/ WaitSession \/ Tick
    \/ Serve \/ Stall
    \/ ChangeRows \/ LocalCommand

\* The daemon and its child are scheduled, and time passes.
SessionFairness ==
    WF_sessionVars(Accept) /\ WF_sessionVars(WaitSession) /\ WF_sessionVars(Serve) /\ WF_sessionVars(Tick)

SessionSpec == SessionInit /\ [][SessionNext]_sessionVars /\ SessionFairness

-----------------------------------------------------------------------------
Phases == Opened \cup {"none", "spawn", "dispatch", "committed", "answer", "hung"}

Requests == [kind : Kinds, password : Nat, review : Nat]

Children == [for : Client \cup {Nobody}, at : Phases, request : Requests, login : Nat, pin : Nat,
             verified : Nat, age : Nat, result : {"denied", "ok"}, late : BOOLEAN]

SessionTypeOK ==
    /\ rows \in Nat \ {0} /\ head \in Nat /\ spent \in Nat
    /\ client \in [Client -> [at : {"idle", "waiting", "gone", "ok", "refused"}, waited : Nat]]
    /\ queue \in Seq(Client)
    /\ child \in Children

\* No journal entry is dispatched for a request that lost something it was
\* authenticated with after that was established: the person's connection, the
\* account files PAM verified, the journal head its login was prepared at, or
\* its half minute (CatalogAttempt::authenticate in the append's last check).
NothingLateIsDispatched == child.at = "dispatch" => ~child.late
=============================================================================
