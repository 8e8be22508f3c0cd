--------------------------- MODULE ServiceProofs ----------------------------
(***************************************************************************)
(* Proofs about what answers requests: the broker's effect journal, the    *)
(* local Admin service and the log of Admin authorizations, each for every *)
(* value of its constants.                                                 *)
(***************************************************************************)
EXTENDS BrokerEffects, AdminSession, AdminEventLog, SequenceTheorems, TLAPS

(***************************************************************************)
(* The three promises hold for every set of requests and every capacity.   *)
(* They need each other: a job is started once because no journal that a   *)
(* power loss could leave has lost the record of a started one, and an     *)
(* answer survives because only an Applying record is ever overwritten.    *)
(***************************************************************************)

\* What every journal that a power loss could leave says.
JournalOK(j) ==
    /\ Valid(j)
    /\ \A i \in DOMAIN j : j[i].state = "NotApplied" => dispatched[j[i].id] = 0
    /\ \A r \in RequestId : dispatched[r] > 0 => \E i \in DOMAIN j : j[i].id = r
    /\ \A i \in DOMAIN j : j[i].state = "Completed" => j[i].id \in succeeded
    /\ \A r \in acknowledged : \E i \in DOMAIN j : j[i] = RecordOf(r, "Completed")

LastIs(state) == visible # <<>> /\ visible[Len(visible)] = RecordOf(request, state)

\* What the effect thread may rely on at each of its steps.
PhaseOK ==
    /\ pc \in {"sync_applying", "authorize"} => LastIs("Applying") /\ dispatched[request.id] = 0
    /\ pc = "wait" => LastIs("Applying")
    /\ pc \in {"authorize", "wait"} => possible = {visible}
    /\ pc = "sync_completed" => LastIs("Completed")
    /\ pc = "replay" => \E i \in DOMAIN visible : visible[i] = RecordOf(request, "Completed")

EffectInv ==
    /\ TypeOK
    /\ \A r \in RequestId : dispatched[r] <= 1
    /\ \A j \in possible : JournalOK(j)
    /\ PhaseOK

\* A journal that gains a record keeps the others where they are.
LEMMA AppendKeeps ==
    ASSUME NEW s \in Seq(Record), NEW e \in Record
    PROVE  /\ Append(s, e) \in Seq(Record)
           /\ DOMAIN Append(s, e) = 1 .. Len(s) + 1
           /\ Len(Append(s, e)) = Len(s) + 1
           /\ \A i \in DOMAIN s : Append(s, e)[i] = s[i]
           /\ Append(s, e)[Len(s) + 1] = e
           /\ DOMAIN s = 1 .. Len(s)
BY AppendProperties, LenProperties

\* A journal whose last record is replaced keeps the others where they are.
LEMMA ReplaceKeeps ==
    ASSUME NEW s \in Seq(Record), s # <<>>, NEW e \in Record
    PROVE  /\ [s EXCEPT ![Len(s)] = e] \in Seq(Record)
           /\ DOMAIN [s EXCEPT ![Len(s)] = e] = 1 .. Len(s)
           /\ Len([s EXCEPT ![Len(s)] = e]) = Len(s)
           /\ \A i \in DOMAIN s : i # Len(s) => [s EXCEPT ![Len(s)] = e][i] = s[i]
           /\ [s EXCEPT ![Len(s)] = e][Len(s)] = e
           /\ DOMAIN s = 1 .. Len(s)
           /\ Len(s) \in 1 .. Len(s)
<1>1. Len(s) \in 1 .. Len(s) /\ DOMAIN s = 1 .. Len(s)
  BY EmptySeq, LenProperties
<1>2. QED
  BY <1>1, ExceptSeq, LenProperties

LEMMA EffectInit == Init => EffectInv
<1>1. <<>> \in Seq(Record) /\ DOMAIN <<>> = {} /\ Len(<<>>) = 0
  BY EmptySeq, LenProperties
<1>2. QED
  BY <1>1, BrokerAssumption DEF Init, EffectInv, TypeOK, JournalOK, Valid, PhaseOK

LEMMA BeginStep ==
    ASSUME EffectInv, NEW r \in Request, Begin(r)
    PROVE  EffectInv'
<1> DEFINE e == RecordOf(r, "Applying")
           new == Append(visible, e)
<1>1. e \in Record /\ e.id = r.id /\ e.state = "Applying" /\ r.id \in RequestId /\ r # None
  BY BrokerAssumption DEF RecordOf, Record, Request, State
<1>2. visible \in Seq(Record) /\ visible \in possible /\ JournalOK(visible)
  BY DEF EffectInv, TypeOK
<1>3. /\ new \in Seq(Record) /\ DOMAIN new = 1 .. Len(visible) + 1
      /\ Len(new) = Len(visible) + 1
      /\ \A i \in DOMAIN visible : new[i] = visible[i]
      /\ new[Len(visible) + 1] = e
      /\ DOMAIN visible = 1 .. Len(visible) /\ Len(visible) \in Nat
  BY <1>1, <1>2, AppendKeeps, LenProperties
<1>4. /\ Valid(new) /\ visible' = new /\ possible' = possible \cup {new}
      /\ pc' = "sync_applying" /\ request' = r
      /\ UNCHANGED <<jobs, dispatched, succeeded, acknowledged>>
      /\ \A i \in DOMAIN visible : visible[i].id # r.id
  BY DEF Begin, Publish, world, Find
<1>5. dispatched[r.id] = 0
  BY SMTT(30), <1>1, <1>2, <1>4 DEF JournalOK, EffectInv, TypeOK
<1>6. JournalOK(new)
  <2>1. \A i \in DOMAIN new : new[i].state = "NotApplied" => dispatched[new[i].id] = 0
    BY <1>1, <1>2, <1>3 DEF JournalOK
  <2>2. \A x \in RequestId : dispatched[x] > 0 => \E i \in DOMAIN new : new[i].id = x
    BY <1>2, <1>3 DEF JournalOK
  <2>3. \A i \in DOMAIN new : new[i].state = "Completed" => new[i].id \in succeeded
    BY <1>1, <1>2, <1>3 DEF JournalOK
  <2>4. \A x \in acknowledged : \E i \in DOMAIN new : new[i] = RecordOf(x, "Completed")
    BY <1>2, <1>3 DEF JournalOK
  <2>5. QED
    BY <1>4, <2>1, <2>2, <2>3, <2>4 DEF JournalOK
<1> HIDE DEF new, e
<1>7. \A j \in possible' : JournalOK(j)'
  BY <1>4, <1>6 DEF EffectInv, JournalOK
<1>8. TypeOK'
  BY <1>1, <1>3, <1>4 DEF EffectInv, TypeOK
<1>9. PhaseOK'
  BY <1>3, <1>4, <1>5, EmptySeq DEF PhaseOK, LastIs, e
<1>10. QED
  BY <1>4, <1>7, <1>8, <1>9 DEF EffectInv

\* Overwriting the Applying record of the request keeps every promise of the journal.
LEMMA SetLastKeeps ==
    ASSUME EffectInv, request \in Request, LastIs("Applying"),
           NEW state \in {"NotApplied", "Completed"}, SetLast(state),
           state = "NotApplied" => dispatched[request.id] = 0,
           state = "Completed" => request.id \in succeeded
    PROVE  /\ visible' \in Seq(Record) /\ possible' = possible \cup {visible'}
           /\ JournalOK(visible')
           /\ visible' # <<>> /\ visible'[Len(visible')] = RecordOf(request, state)
<1> DEFINE n == Len(visible)
           e == [visible[n] EXCEPT !.state = state]
           new == [visible EXCEPT ![n] = e]
<1>1. visible \in Seq(Record) /\ visible # <<>> /\ JournalOK(visible)
  BY DEF EffectInv, TypeOK, LastIs
<1>2. /\ visible[n] = RecordOf(request, "Applying")
      /\ e = RecordOf(request, state) /\ e \in Record
      /\ e.id = visible[n].id /\ e.id = request.id /\ e.state = state
      /\ visible[n].state = "Applying"
  BY DEF LastIs, RecordOf, Record, Request, State
<1> HIDE DEF e
<1>3. /\ new \in Seq(Record) /\ DOMAIN new = 1 .. n /\ Len(new) = n
      /\ \A i \in DOMAIN visible : i # n => new[i] = visible[i]
      /\ new[n] = e
      /\ DOMAIN visible = 1 .. n /\ n \in 1 .. n
  BY <1>1, <1>2, ReplaceKeeps
<1>4. visible' = new /\ Valid(new) /\ possible' = possible \cup {new}
  BY DEF SetLast, Publish, e
<1> HIDE DEF new
<1>5. \A i \in DOMAIN new : new[i].id = visible[i].id
  BY <1>2, <1>3
<1>6. \A i \in DOMAIN new : new[i].state = "NotApplied" => dispatched[new[i].id] = 0
  BY <1>1, <1>2, <1>3 DEF JournalOK
<1>7. \A x \in RequestId : dispatched[x] > 0 => \E i \in DOMAIN new : new[i].id = x
  BY <1>1, <1>3, <1>5 DEF JournalOK
<1>8. \A i \in DOMAIN new : new[i].state = "Completed" => new[i].id \in succeeded
  BY <1>1, <1>2, <1>3 DEF JournalOK
<1>9. \A x \in acknowledged : \E i \in DOMAIN new : new[i] = RecordOf(x, "Completed")
  <2> TAKE x \in acknowledged
  <2>1. PICK i \in DOMAIN visible : visible[i] = RecordOf(x, "Completed")
    BY <1>1 DEF JournalOK
  <2>2. i # n
    BY <1>2, <2>1 DEF RecordOf
  <2>3. QED
    BY <1>3, <2>1, <2>2
<1>10. JournalOK(new)
  BY ZenonT(30), <1>4, <1>6, <1>7, <1>8, <1>9 DEF JournalOK
<1>11. QED
  BY <1>2, <1>3, <1>4, <1>10, EmptySeq

LEMMA ReplayStep ==
    ASSUME EffectInv, NEW r \in Request, Replay(r)
    PROVE  EffectInv'
<1>1. pc' = "replay" /\ request' = r /\ r # None /\ UNCHANGED <<disk, world, acknowledged>>
  BY BrokerAssumption DEF Replay
<1>2. visible \in Seq(Record)
  BY DEF EffectInv, TypeOK
<1>3. \E i \in DOMAIN visible : visible[i] = RecordOf(r, "Completed")
  <2>1. PICK i \in DOMAIN visible :
            visible[i].id = r.id /\ visible[i].action = r.action /\ visible[i].state = "Completed"
    BY DEF Replay, Find
  <2>2. visible[i] \in Record
    BY <1>2, LenProperties
  <2>3. QED
    BY <2>1, <2>2 DEF Record, RecordOf
<1>4. QED
  BY <1>1, <1>3 DEF EffectInv, TypeOK, PhaseOK, JournalOK, disk, world

LEMMA SyncApplyingStep == EffectInv /\ SyncApplying => EffectInv'
BY DEF EffectInv, TypeOK, PhaseOK, JournalOK, LastIs, SyncApplying, Sync, world

LEMMA SyncRefusedStep == EffectInv /\ SyncRefused => EffectInv'
BY DEF EffectInv, TypeOK, PhaseOK, JournalOK, SyncRefused, Sync, Return, world

LEMMA RefuseStep == EffectInv /\ Refuse => EffectInv'
<1> SUFFICES ASSUME EffectInv, Refuse PROVE EffectInv'
  OBVIOUS
<1>1. request \in Request /\ LastIs("Applying") /\ dispatched[request.id] = 0
  BY DEF Refuse, EffectInv, TypeOK, PhaseOK
<1>2. SetLast("NotApplied") /\ pc' = "sync_refused" /\ UNCHANGED <<request, world, acknowledged>>
  BY DEF Refuse
<1>3. /\ visible' \in Seq(Record) /\ possible' = possible \cup {visible'}
      /\ JournalOK(visible')
  BY <1>1, <1>2, SetLastKeeps
<1>4. \A j \in possible' : JournalOK(j)'
  BY <1>2, <1>3 DEF EffectInv, JournalOK, world
<1>5. QED
  BY <1>1, <1>2, <1>3, <1>4, BrokerAssumption DEF EffectInv, TypeOK, PhaseOK, world

LEMMA CompleteStep == EffectInv /\ Complete => EffectInv'
<1> SUFFICES ASSUME EffectInv, Complete PROVE EffectInv'
  OBVIOUS
<1>1. request \in Request /\ LastIs("Applying") /\ request.id \in succeeded
  BY DEF Complete, EffectInv, TypeOK, PhaseOK
<1>2. SetLast("Completed") /\ pc' = "sync_completed" /\ UNCHANGED <<request, world, acknowledged>>
  BY DEF Complete
<1>3. /\ visible' \in Seq(Record) /\ possible' = possible \cup {visible'}
      /\ JournalOK(visible')
      /\ visible' # <<>> /\ visible'[Len(visible')] = RecordOf(request, "Completed")
  BY <1>1, <1>2, SetLastKeeps
<1>4. \A j \in possible' : JournalOK(j)'
  BY <1>2, <1>3 DEF EffectInv, JournalOK, world
<1>5. QED
  BY <1>1, <1>2, <1>3, <1>4, BrokerAssumption DEF EffectInv, TypeOK, PhaseOK, LastIs, world

\* An answer ok is given when the only journal left holds the request as Completed.
LEMMA AcknowledgeStep ==
    ASSUME EffectInv, request \in Request, Sync, Reply(request), Return, UNCHANGED world,
           \E i \in DOMAIN visible : visible[i] = RecordOf(request, "Completed")
    PROVE  EffectInv'
<1>1. /\ visible' = visible /\ possible' = {visible} /\ visible \in possible
      /\ acknowledged' = acknowledged \cup {request}
  BY DEF Sync, Reply, EffectInv, TypeOK
<1>2. JournalOK(visible)'
  BY <1>1 DEF EffectInv, JournalOK, Valid, world
<1>3. QED
  BY <1>1, <1>2 DEF EffectInv, TypeOK, PhaseOK, Return, world

LEMMA ReplayReplyStep == EffectInv /\ ReplayReply => EffectInv'
<1> SUFFICES ASSUME EffectInv, ReplayReply PROVE EffectInv'
  OBVIOUS
<1>1. request \in Request
  BY DEF ReplayReply, EffectInv, TypeOK
<1>2. \E i \in DOMAIN visible : visible[i] = RecordOf(request, "Completed")
  BY DEF ReplayReply, EffectInv, PhaseOK
<1>3. QED
  BY <1>1, <1>2, AcknowledgeStep DEF ReplayReply

LEMMA CompleteReplyStep == EffectInv /\ CompleteReply => EffectInv'
<1> SUFFICES ASSUME EffectInv, CompleteReply PROVE EffectInv'
  OBVIOUS
<1>1. request \in Request /\ visible \in Seq(Record) /\ LastIs("Completed")
  BY DEF CompleteReply, EffectInv, TypeOK, PhaseOK
<1>2. Len(visible) \in DOMAIN visible
  BY <1>1, LenProperties, EmptySeq DEF LastIs
<1>3. QED
  BY <1>1, <1>2, AcknowledgeStep DEF CompleteReply, LastIs

\* The one journal left holds the request as Applying, so that no record says NotApplied of it.
LEMMA EffectDispatchStep == EffectInv /\ Dispatch => EffectInv'
<1> SUFFICES ASSUME EffectInv, Dispatch PROVE EffectInv'
  OBVIOUS
<1>1. /\ request \in Request /\ request.id \in RequestId /\ visible \in Seq(Record)
      /\ LastIs("Applying") /\ dispatched[request.id] = 0 /\ possible = {visible}
      /\ dispatched \in [RequestId -> Nat]
  BY DEF Dispatch, EffectInv, TypeOK, PhaseOK, Request
<1>2. /\ dispatched' = [dispatched EXCEPT ![request.id] = dispatched[request.id] + 1]
      /\ pc' = "wait" /\ UNCHANGED <<visible, possible, request, succeeded, acknowledged>>
  BY DEF Dispatch, disk
<1>3. /\ dispatched' \in [RequestId -> Nat] /\ dispatched'[request.id] = 1
      /\ \A r \in RequestId : r # request.id => dispatched'[r] = dispatched[r]
  BY <1>1, <1>2
<1>4. /\ Len(visible) \in DOMAIN visible /\ DOMAIN visible = 1 .. Len(visible)
      /\ visible[Len(visible)].id = request.id /\ visible[Len(visible)].state = "Applying"
      /\ \A i \in DOMAIN visible : visible[i].id \in RequestId
  <2>1. Len(visible) \in Nat \ {0} /\ DOMAIN visible = 1 .. Len(visible)
    BY <1>1, LenProperties, EmptySeq DEF LastIs
  <2>2. \A i \in DOMAIN visible : visible[i] \in Record
    BY <1>1, LenProperties
  <2>3. visible[Len(visible)] = RecordOf(request, "Applying")
    BY <1>1 DEF LastIs
  <2>4. QED
    BY <2>1, <2>2, <2>3 DEF RecordOf, Record
<1>5. JournalOK(visible)
  BY DEF EffectInv, TypeOK
<1>6. JournalOK(visible)'
  <2>1. \A i \in DOMAIN visible : visible[i].state = "NotApplied" => visible[i].id # request.id
    BY <1>4, <1>5 DEF JournalOK, Valid
  <2>2. \A i \in DOMAIN visible : visible[i].state = "NotApplied" => dispatched'[visible[i].id] = 0
    BY <1>3, <1>4, <1>5, <2>1 DEF JournalOK
  <2>3. \A r \in RequestId : dispatched'[r] > 0 => \E i \in DOMAIN visible : visible[i].id = r
    BY <1>3, <1>4, <1>5 DEF JournalOK
  <2>4. QED
    BY <1>2, <1>5, <2>2, <2>3 DEF JournalOK, Valid
<1>7. \A r \in RequestId : dispatched'[r] <= 1
  BY <1>1, <1>3 DEF EffectInv
<1>8. TypeOK'
  BY ZenonT(30), <1>1, <1>2, <1>3, BrokerAssumption DEF Dispatch, EffectInv, TypeOK
<1>9. QED
  BY <1>1, <1>2, <1>6, <1>7, <1>8 DEF EffectInv, PhaseOK, LastIs

LEMMA JobStep ==
    ASSUME EffectInv, NEW r \in Request, JobSucceeds(r) \/ JobFails(r)
    PROVE  EffectInv'
<1>1. /\ UNCHANGED <<visible, possible, pc, request, dispatched, acknowledged>>
      /\ jobs' \subseteq jobs /\ succeeded \subseteq succeeded' /\ succeeded' \subseteq RequestId
  BY DEF JobSucceeds, JobFails, disk, EffectInv, TypeOK, Request
<1>2. \A j \in possible : JournalOK(j)'
  BY ZenonT(30), <1>1 DEF EffectInv, JournalOK, Valid
<1>3. QED
  BY <1>1, <1>2 DEF EffectInv, TypeOK, PhaseOK, LastIs

LEMMA FailStep == EffectInv /\ Fail => EffectInv'
BY SMTT(30) DEF EffectInv, TypeOK, PhaseOK, JournalOK, Fail, Return, disk, world

LEMMA PowerLossStep == EffectInv /\ PowerLoss => EffectInv'
BY SMTT(30) DEF EffectInv, TypeOK, PhaseOK, JournalOK, PowerLoss, Return

LEMMA EffectStutter == EffectInv /\ UNCHANGED vars => EffectInv'
BY DEF EffectInv, TypeOK, PhaseOK, JournalOK, Valid, LastIs, vars

\* Every step of the effect thread, of a job and of a power loss keeps the inductive invariant.
THEOREM EffectInvariance == Spec => []EffectInv
<1>1. EffectInv /\ [Next]_vars => EffectInv'
  BY ZenonT(30), BeginStep, ReplayStep, ReplayReplyStep, SyncApplyingStep, RefuseStep, SyncRefusedStep,
     EffectDispatchStep, JobStep, CompleteStep, CompleteReplyStep, FailStep, PowerLossStep, EffectStutter
  DEF Next
<1>2. QED
  BY EffectInit, <1>1, PTL DEF Spec

\* For every set of requests: a request starts at most one job, and one that any journal left by
\* a power loss records as NotApplied has started none.
THEOREM DispatchedOnceHolds == Spec => []DispatchedOnce
<1>1. EffectInv => DispatchedOnce
  BY DEF EffectInv, JournalOK, DispatchedOnce
<1>2. QED
  BY EffectInvariance, <1>1, PTL

\* No power loss loses the record of a started job, and no journal says Completed of a job that
\* did not succeed.
THEOREM RecordedTruthfullyHolds == Spec => []RecordedTruthfully
<1>1. EffectInv => RecordedTruthfully
  BY DEF EffectInv, JournalOK, RecordedTruthfully
<1>2. QED
  BY EffectInvariance, <1>1, PTL

\* An answer ok is backed by a Completed record in every journal that a power loss could leave.
THEOREM AcknowledgedSurvivesHolds == Spec => []AcknowledgedSurvives
<1>1. EffectInv => AcknowledgedSurvives
  BY DEF EffectInv, JournalOK, AcknowledgedSurvives
<1>2. QED
  BY EffectInvariance, <1>1, PTL
-----------------------------------------------------------------------------
(***************************************************************************)
(* NothingLateIsDispatched for any number of clients and any lifetime.     *)
(* What makes it inductive is why a request is late: the reason can still  *)
(* be observed when the append asks its owner the last time.               *)
(***************************************************************************)

\* Who is served or waits to be served has asked, and asks only once.
Attended ==
    /\ child.at # "none" => child.for \in Client /\ client[child.for].at # "idle"
    /\ \A i \in 1 .. Len(queue) : client[queue[i]].at # "idle"

\* What the child has pinned is not newer than what there is.
Pinned ==
    /\ child.pin <= rows
    /\ child.at \in Opened \cup {"spawn"} => child.login <= head
    /\ child.at \in {"spawn", "frame", "login", "bind", "pam"} => child.verified = 0
    /\ child.at \in {"session", "attempt", "prepared"} => child.login = head

\* A late request has lost its peer, its account files, its journal head or its time.
Reason ==
    \/ client[child.for].at # "waiting"
    \/ child.verified # 0 /\ child.pin < rows
    \/ child.at \in {"bind", "pam", "verified", "issued"} /\ child.login < head
    \/ child.at \in {"issued", "session", "attempt", "prepared"} /\ child.age >= Window

LateOK ==
    /\ child.at \in {"none", "spawn", "dispatch"} => ~child.late
    /\ child.at \in Opened /\ child.late => Reason

SessionInv == SessionTypeOK /\ Attended /\ Pinned /\ LateOK

\* The steps of the child that change nothing but itself.
Inner ==
    \/ CapturePeer \/ ReadFrame \/ PrepareService \/ CaptureBinding \/ RunHelper \/ IssueAccount
    \/ IssueSession \/ Status \/ PrepareAttempt \/ Propose \/ PrepareEntry \/ AuthorizeAppend
    \/ ReportCommit \/ FailRequest \/ Stall

LEMMA InnerTypes == SessionInv /\ Inner => SessionTypeOK' /\ Attended'
<1> SUFFICES ASSUME SessionInv, Inner PROVE SessionTypeOK' /\ Attended'
  OBVIOUS
<1>1. /\ child \in Children /\ rows \in Nat /\ head \in Nat
      /\ UNCHANGED <<rows, head, client, queue, spent>>
  BY ZenonT(30) DEF Inner, CapturePeer, ReadFrame, PrepareService, CaptureBinding, RunHelper, IssueAccount,
         IssueSession, Status, PrepareAttempt, Propose, PrepareEntry, AuthorizeAppend, ReportCommit, FailRequest,
         Stall, ChildStep, SessionInv, SessionTypeOK
<1>2. child' \in Children /\ child'.for = child.for /\ (child'.at # "none" => child.at # "none")
  <2> USE <1>1 DEF Children, Requests, Phases, Opened, Kinds, At, ChildStep
  <2>1. CASE CapturePeer
    BY <2>1 DEF CapturePeer
  <2>2. CASE ReadFrame
    <3>1. PICK asked \in [kind : Kinds, password : 0..rows, review : 0..head] :
              child' = [child EXCEPT !.at = "login", !.request = asked]
      BY ZenonT(30), <2>2 DEF ReadFrame
    <3>2. asked \in Requests
      BY <1>1
    <3>3. child.at = "frame"
      BY <2>2 DEF ReadFrame
    <3> HIDE DEF Requests
    <3>4. QED
      BY ZenonT(30), <3>1, <3>2, <3>3
  <2>3. CASE PrepareService
    BY ZenonT(30), <2>3 DEF PrepareService
  <2>4. CASE CaptureBinding
    BY ZenonT(30), <2>4 DEF CaptureBinding
  <2>5. CASE RunHelper
    BY ZenonT(30), <2>5 DEF RunHelper
  <2>6. CASE IssueAccount
    BY ZenonT(30), <2>6 DEF IssueAccount
  <2>7. CASE IssueSession
    BY <2>7 DEF IssueSession
  <2>8. CASE Status
    BY ZenonT(30), <2>8 DEF Status
  <2>9. CASE PrepareAttempt
    BY <2>9 DEF PrepareAttempt
  <2>10. CASE Propose
    BY ZenonT(30), <2>10 DEF Propose
  <2>11. CASE PrepareEntry
    BY <2>11 DEF PrepareEntry
  <2>12. CASE AuthorizeAppend
    BY <2>12 DEF AuthorizeAppend
  <2>13. CASE ReportCommit
    BY ZenonT(30), <2>13 DEF ReportCommit, Denied
  <2>14. CASE FailRequest
    BY ZenonT(30), <2>14 DEF FailRequest, Denied
  <2>15. CASE Stall
    BY ZenonT(30), <2>15 DEF Stall
  <2>16. QED
    BY ZenonT(30), <2>1, <2>2, <2>3, <2>4, <2>5, <2>6, <2>7, <2>8,
       <2>9, <2>10, <2>11, <2>12, <2>13, <2>14, <2>15 DEF Inner
<1>3. QED
  BY <1>1, <1>2 DEF SessionInv, SessionTypeOK, Attended

LEMMA InnerPinned == SessionInv /\ Inner => Pinned'
<1> SUFFICES ASSUME SessionInv, Inner PROVE Pinned'
  OBVIOUS
<1> USE DEF SessionInv, SessionTypeOK, Pinned, Children, Opened, At, ChildStep, Observed, PeerCurrent,
            BindingCurrent
<1>1. CASE CapturePeer
  BY <1>1 DEF CapturePeer
<1>2. CASE ReadFrame
  BY <1>2 DEF ReadFrame
<1>3. CASE PrepareService
  BY <1>3 DEF PrepareService
<1>4. CASE CaptureBinding
  BY <1>4 DEF CaptureBinding
<1>5. CASE RunHelper
  BY <1>5 DEF RunHelper
<1>6. CASE IssueAccount
  BY <1>6 DEF IssueAccount
<1>7. CASE IssueSession
  BY <1>7 DEF IssueSession
<1>8. CASE Status
  BY <1>8 DEF Status
<1>9. CASE PrepareAttempt
  BY <1>9 DEF PrepareAttempt
<1>10. CASE Propose
  BY <1>10 DEF Propose
<1>11. CASE PrepareEntry
  BY <1>11 DEF PrepareEntry
<1>12. CASE AuthorizeAppend
  BY <1>12 DEF AuthorizeAppend
<1>13. CASE ReportCommit
  BY <1>13 DEF ReportCommit, Denied
<1>14. CASE FailRequest
  BY <1>14 DEF FailRequest, Denied
<1>15. CASE Stall
  BY ZenonT(30), <1>15 DEF Stall
<1>16. QED
  BY ZenonT(30), <1>1, <1>2, <1>3, <1>4, <1>5, <1>6, <1>7, <1>8,
     <1>9, <1>10, <1>11, <1>12, <1>13, <1>14, <1>15 DEF Inner

LEMMA InnerLateOK ==
    ASSUME SessionAssumption
    PROVE  SessionInv /\ Inner => LateOK'
<1> SUFFICES ASSUME SessionInv, Inner PROVE LateOK'
  OBVIOUS
<1> USE DEF SessionInv, SessionTypeOK, Pinned, LateOK, Reason, Children, Opened, At, ChildStep, Observed,
            PeerCurrent, BindingCurrent, LifetimeActive, SessionAssumption
<1>1. CASE CapturePeer
  BY <1>1 DEF CapturePeer
<1>2. CASE ReadFrame
  BY <1>2 DEF ReadFrame
<1>3. CASE PrepareService
  BY <1>3 DEF PrepareService
<1>4. CASE CaptureBinding
  BY <1>4 DEF CaptureBinding
<1>5. CASE RunHelper
  BY <1>5 DEF RunHelper
<1>6. CASE IssueAccount
  BY <1>6 DEF IssueAccount
<1>7. CASE IssueSession
  BY <1>7 DEF IssueSession
<1>8. CASE Status
  BY <1>8 DEF Status
<1>9. CASE PrepareAttempt
  BY <1>9 DEF PrepareAttempt
<1>10. CASE Propose
  BY <1>10 DEF Propose
<1>11. CASE PrepareEntry
  BY <1>11 DEF PrepareEntry
<1>12. CASE AuthorizeAppend
  BY <1>12 DEF AuthorizeAppend
<1>13. CASE ReportCommit
  BY <1>13 DEF ReportCommit, Denied
<1>14. CASE FailRequest
  BY <1>14 DEF FailRequest, Denied
<1>15. CASE Stall
  BY <1>15 DEF Stall
<1>16. QED
  BY ZenonT(30), <1>1, <1>2, <1>3, <1>4, <1>5, <1>6, <1>7, <1>8,
     <1>9, <1>10, <1>11, <1>12, <1>13, <1>14, <1>15 DEF Inner

LEMMA IdleIsChild == Idle \in Children
BY DEF Idle, NoRequest, Children, Requests, Kinds, Phases, Opened

\* The end of a connection: the client may be told, and nobody is served.
LEMMA EndStep ==
    ASSUME SessionInv, child.at # "none", child' = Idle, spent' = 0, UNCHANGED <<rows, head, queue>>,
           NEW result \in {"denied", "ok"}, client' = Told(child.for, result)
    PROVE  SessionInv'
<1>1. /\ client' \in [Client -> [at : {"idle", "waiting", "gone", "ok", "refused"}, waited : Nat]]
      /\ \A c \in Client : client[c].at # "idle" => client'[c].at # "idle"
  BY ZenonT(30) DEF SessionInv, SessionTypeOK, Attended, Told, Over
<1>2. SessionTypeOK' /\ Attended'
  <2>1. \A i \in 1 .. Len(queue) : queue[i] \in Client
    BY SMTT(30) DEF SessionInv, SessionTypeOK
  <2>2. QED
    BY <1>1, <2>1, IdleIsChild DEF SessionInv, SessionTypeOK, Attended, Idle
<1>3. Pinned' /\ LateOK'
  BY DEF SessionInv, SessionTypeOK, Pinned, LateOK, Idle, Opened
<1>4. QED
  BY ZenonT(30), <1>2, <1>3 DEF SessionInv

LEMMA EndSteps == SessionInv /\ (Close \/ WaitSession \/ Answer) => SessionInv'
<1> SUFFICES ASSUME SessionInv, Close \/ WaitSession \/ Answer PROVE SessionInv'
  OBVIOUS
<1>1. /\ child.at # "none" /\ child' = Idle /\ spent' = 0 /\ UNCHANGED <<rows, head, queue>>
      /\ child.result \in {"denied", "ok"}
  BY DEF Close, WaitSession, Answer, Ended, At, SessionInv, SessionTypeOK, Children
<1>2. \E result \in {"denied", "ok"} : client' = Told(child.for, result)
  BY <1>1 DEF Close, WaitSession, Answer, Ended
<1>3. QED
  BY <1>1, <1>2, EndStep

\* A client that asks was not being served, nor waiting to be.
LEMMA AskStep ==
    ASSUME SessionInv, NEW c \in Client, Ask(c)
    PROVE  SessionInv'
<1>1. /\ UNCHANGED <<rows, head, child, spent>> /\ queue' = Append(queue, c)
      /\ queue \in Seq(Client) /\ client' = [client EXCEPT ![c].at = "waiting"]
      /\ client[c].at = "idle"
  BY DEF Ask, SessionInv, SessionTypeOK
<1>2. /\ client' \in [Client -> [at : {"idle", "waiting", "gone", "ok", "refused"}, waited : Nat]]
      /\ client'[c].at = "waiting"
      /\ \A d \in Client : d # c => client'[d] = client[d]
  BY ZenonT(30), <1>1 DEF SessionInv, SessionTypeOK
<1>3. /\ queue' \in Seq(Client) /\ Len(queue') = Len(queue) + 1 /\ Len(queue) \in Nat
      /\ \A i \in 1 .. Len(queue) : queue'[i] = queue[i] /\ queue[i] \in Client
      /\ queue'[Len(queue) + 1] = c
  BY <1>1, AppendProperties, LenProperties
<1>4. \A i \in 1 .. Len(queue') : client'[queue'[i]].at # "idle"
  <2>1. \A i \in 1 .. Len(queue) : client[queue[i]].at # "idle"
    BY ZenonT(30) DEF SessionInv, Attended
  <2>2. \A i \in 1 .. Len(queue') : i \in 1 .. Len(queue) \/ i = Len(queue) + 1
    BY <1>3
  <2>3. QED
    BY ZenonT(30), <1>2, <1>3, <2>1, <2>2
<1>5. child.at # "none" => child.for \in Client /\ child.for # c
  BY <1>1 DEF SessionInv, Attended
<1>6. SessionTypeOK' /\ Attended'
  BY ZenonT(30), <1>1, <1>2, <1>3, <1>4, <1>5 DEF SessionInv, SessionTypeOK, Attended
<1>7. Pinned' /\ LateOK'
  BY <1>1, <1>2, <1>5 DEF SessionInv, Pinned, LateOK, Reason, Opened
<1>8. QED
  BY <1>6, <1>7 DEF SessionInv

\* A connection is lost for good, which is the reason for its request to be late.
LEMMA GoneStep ==
    ASSUME SessionAssumption, SessionInv, NEW c \in Client, Vanish(c) \/ GiveUp(c)
    PROVE  SessionInv'
<1>1. /\ UNCHANGED <<rows, head, queue, spent>> /\ client' = [client EXCEPT ![c] = Over("gone")]
      /\ child' = Late(child.for = c) /\ child \in Children
  BY DEF Vanish, GiveUp, SessionInv, SessionTypeOK
<1>2. /\ client' \in [Client -> [at : {"idle", "waiting", "gone", "ok", "refused"}, waited : Nat]]
      /\ client'[c].at = "gone"
      /\ \A d \in Client : d # c => client'[d] = client[d]
  BY <1>1 DEF SessionInv, SessionTypeOK, Over
<1>3. /\ child' \in Children /\ child'.for = child.for /\ child'.at = child.at
      /\ child'.pin = child.pin /\ child'.login = child.login /\ child'.verified = child.verified
      /\ child'.age = child.age
      /\ child'.late # child.late => child.for = c /\ child.at \in Opened
  BY ZenonT(30), <1>1 DEF Late, Children
<1>4. \A i \in 1 .. Len(queue) : queue[i] \in Client
  BY SMTT(30) DEF SessionInv, SessionTypeOK
<1>5. SessionTypeOK' /\ Attended'
  BY ZenonT(30), <1>1, <1>2, <1>3, <1>4 DEF SessionInv, SessionTypeOK, Attended
<1>6. Pinned'
  BY ZenonT(30), <1>1, <1>3 DEF SessionInv, Pinned
<1>7. LateOK'
  BY <1>1, <1>2, <1>3 DEF SessionInv, Attended, LateOK, Reason, Opened
<1>8. QED
  BY <1>5, <1>6, <1>7 DEF SessionInv

LEMMA AcceptStep == SessionInv /\ Accept => SessionInv'
<1> SUFFICES ASSUME SessionInv, Accept PROVE SessionInv'
  OBVIOUS
<1>1. /\ queue \in Seq(Client) /\ queue # <<>> /\ queue' = Tail(queue) /\ spent' = 0
      /\ child' = [Idle EXCEPT !.for = Head(queue), !.at = "spawn"]
      /\ UNCHANGED <<rows, head, client>>
  BY DEF Accept, SessionInv, SessionTypeOK
<1>2. /\ queue' \in Seq(Client) /\ Head(queue) = queue[1] /\ Head(queue) \in Client
      /\ Len(queue) \in Nat \ {0} /\ Len(queue') = Len(queue) - 1
      /\ \A i \in 1 .. Len(queue') : queue'[i] = queue[i + 1]
  BY <1>1, HeadTailProperties, EmptySeq
<1>3. /\ child' \in Children /\ child'.at = "spawn" /\ child'.for = queue[1] /\ child'.late = FALSE
      /\ child'.login = 0 /\ child'.pin = 0 /\ child'.verified = 0
  <2>1. child' \in Children
    BY ZenonT(30), <1>1, <1>2, IdleIsChild DEF Children, Phases
  <2>2. QED
    BY <1>1, <1>2, <2>1 DEF Idle
<1>4. SessionTypeOK'
  BY <1>1, <1>2, <1>3 DEF SessionInv, SessionTypeOK
<1>5. Attended'
  <2>1. 1 \in 1 .. Len(queue) /\ \A i \in 1 .. Len(queue') : i + 1 \in 1 .. Len(queue)
    BY <1>2
  <2>2. queue[1] \in Client
    BY <1>2
  <2>3. QED
    BY <1>1, <1>2, <1>3, <2>1, <2>2 DEF SessionInv, Attended
<1>6. Pinned' /\ LateOK'
  BY <1>1, <1>3 DEF SessionInv, SessionTypeOK, Pinned, LateOK, Opened
<1>7. QED
  BY <1>4, <1>5, <1>6 DEF SessionInv

\* A lifetime that runs out is the reason for a request to be late.
LEMMA TickStep ==
    ASSUME SessionAssumption
    PROVE  SessionInv /\ Tick => SessionInv'
<1> SUFFICES ASSUME SessionInv, Tick PROVE SessionInv'
  OBVIOUS
<1> DEFINE age == IF child.age < Window THEN child.age + 1 ELSE child.age
           expired == child.at \in {"issued", "session", "attempt", "prepared"} /\ age = Window
<1>1. /\ UNCHANGED <<rows, head, queue>> /\ spent' = spent + 1 /\ child \in Children
      /\ client' = [c \in Client |->
             IF client[c].at = "waiting" /\ client[c].waited <= Budget
             THEN [client[c] EXCEPT !.waited = @ + 1] ELSE client[c]]
  BY DEF Tick, SessionInv, SessionTypeOK
<1>2. /\ client' \in [Client -> [at : {"idle", "waiting", "gone", "ok", "refused"}, waited : Nat]]
      /\ \A c \in Client : client'[c].at = client[c].at
  BY <1>1 DEF SessionInv, SessionTypeOK
<1>3. child' = [[child EXCEPT !.age = age] EXCEPT !.late = child.late \/ expired]
  BY <1>1 DEF Tick, Children
<1>4. /\ child' \in Children /\ child'.for = child.for /\ child'.at = child.at
      /\ child'.pin = child.pin /\ child'.login = child.login /\ child'.verified = child.verified
      /\ child'.age = age /\ age \in Nat /\ (child.age >= Window => age >= Window)
  <2>1. age \in Nat /\ (child.age >= Window => age >= Window)
    BY <1>1 DEF Children, SessionAssumption
  <2>2. (child.late \/ expired) \in BOOLEAN
    OBVIOUS
  <2> HIDE DEF age, expired
  <2> DEFINE late == child.late \/ expired
  <2>3. late \in BOOLEAN /\ child' = [[child EXCEPT !.age = age] EXCEPT !.late = late]
    BY <1>3, <2>2
  <2> HIDE DEF late
  <2>4. QED
    BY ZenonT(30), <1>1, <2>1, <2>3 DEF Children
<1>5. child'.late => child.late \/ expired
  BY <1>1, <1>3 DEF Children
<1>6. SessionTypeOK' /\ Attended'
  BY SMTT(30), <1>1, <1>2, <1>4 DEF SessionInv, SessionTypeOK, Attended
<1>7. Pinned'
  BY <1>1, <1>4 DEF SessionInv, Pinned
<1>8. LateOK'
  BY <1>1, <1>2, <1>4, <1>5 DEF SessionInv, Attended, LateOK, Reason, Opened, SessionAssumption
<1>9. QED
  BY <1>6, <1>7, <1>8 DEF SessionInv

\* New account files and new journal entries are reasons for a request to be late.
LEMMA SurroundingsStep == SessionInv /\ (ChangeRows \/ LocalCommand) => SessionInv'
<1> SUFFICES ASSUME SessionInv, ChangeRows \/ LocalCommand PROVE SessionInv'
  OBVIOUS
<1>1. /\ UNCHANGED <<client, queue, spent>> /\ child \in Children
      /\ child' \in {child, [child EXCEPT !.late = TRUE]} /\ (child.at \notin Opened => child' = child)
      /\ rows \in Nat \ {0} /\ head \in Nat
      /\ \/ rows' = rows + 1 /\ head' = head
         \/ rows' = rows /\ head' = head + 1
  BY DEF ChangeRows, LocalCommand, Late, SessionInv, SessionTypeOK
<1>2. /\ child' \in Children /\ child'.for = child.for /\ child'.at = child.at
      /\ child'.pin = child.pin /\ child'.login = child.login /\ child'.verified = child.verified
      /\ child'.age = child.age
      /\ child.at \notin Opened => child'.late = child.late
  BY ZenonT(30), <1>1 DEF Children
<1>3. SessionTypeOK' /\ Attended'
  BY <1>1, <1>2 DEF SessionInv, SessionTypeOK, Attended
<1>4. Pinned'
  BY SMTT(30), <1>1, <1>2 DEF SessionInv, SessionTypeOK, Pinned, Children, Opened, LocalCommand, ChangeRows
<1>5. LateOK'
  <2>1. CASE ChangeRows
    BY <1>1, <1>2, <2>1 DEF SessionInv, Pinned, LateOK, Reason, Opened, ChangeRows, Late, Children
  <2>2. CASE LocalCommand
    BY <1>1, <1>2, <2>2 DEF SessionInv, Pinned, LateOK, Reason, Opened, LocalCommand, Late, Children
  <2>3. QED
    BY <2>1, <2>2
<1>6. QED
  BY <1>3, <1>4, <1>5 DEF SessionInv

LEMMA DispatchStep == SessionInv /\ DispatchEntry => SessionInv'
<1> SUFFICES ASSUME SessionInv, DispatchEntry PROVE SessionInv'
  OBVIOUS
<1>1. /\ child \in Children /\ child.at = "dispatch" /\ child' = [child EXCEPT !.at = "committed"]
      /\ head' = head + 1 /\ UNCHANGED <<rows, client, queue, spent>>
  BY DEF DispatchEntry, At, SessionInv, SessionTypeOK
<1>2. child' \in Children /\ child'.at = "committed" /\ child'.for = child.for /\ child'.pin = child.pin
  BY <1>1 DEF Children, Phases
<1>3. QED
  BY <1>1, <1>2 DEF SessionInv, SessionTypeOK, Attended, Pinned, LateOK, Opened

\* Every step of the daemon, its child, the clients and their surroundings keeps the inductive
\* invariant, whatever the number of clients and the length of the lifetime.
THEOREM SessionInvariance ==
    ASSUME SessionAssumption
    PROVE  SessionSpec => []SessionInv
<1>1. SessionInit => SessionInv
  <2> SUFFICES ASSUME SessionInit PROVE SessionInv
    OBVIOUS
  <2>1. <<>> \in Seq(Client) /\ Len(<<>>) = 0
    BY EmptySeq
  <2>2. QED
    BY <2>1, IdleIsChild DEF SessionInit, SessionInv, SessionTypeOK, Attended, Pinned, LateOK, Idle, Opened
<1>2. SessionInv /\ Inner => SessionInv'
  BY ZenonT(30), InnerTypes, InnerPinned, InnerLateOK DEF SessionInv
<1>3. SessionInv /\ UNCHANGED sessionVars => SessionInv'
  BY DEF SessionInv, SessionTypeOK, Attended, Pinned, LateOK, Reason, sessionVars
<1>4. SessionInv /\ [SessionNext]_sessionVars => SessionInv'
  BY <1>2, <1>3, EndSteps, AskStep, GoneStep, AcceptStep, TickStep, SurroundingsStep, DispatchStep
  DEF SessionNext, Serve, Inner
<1>5. QED
  BY <1>1, <1>4, PTL DEF SessionSpec

\* For any number of clients and any lifetime: no journal entry is dispatched for a request that
\* has lost its peer, the account files PAM verified, its journal head or its half minute.
THEOREM NothingLateIsDispatchedHolds ==
    ASSUME SessionAssumption
    PROVE  SessionSpec => []NothingLateIsDispatched
<1>1. SessionInv => NothingLateIsDispatched
  BY DEF SessionInv, LateOK, NothingLateIsDispatched
<1>2. QED
  BY <1>1, SessionInvariance, PTL
-----------------------------------------------------------------------------
(***************************************************************************)
(* Both hold for any number of processes, assignments, items and events.   *)
(* The anchor only ever grows by one event, so a log it has held stays a   *)
(* prefix of it; a query that is answered has compared the log it read     *)
(* with the anchor after it began.                                         *)
(***************************************************************************)

\* The phases of a batch query that has seen the anchor hold the log it read.
Compared == {"locked", "unlocked", "reread", "reanchored"}

LogInv ==
    /\ LogTypeOK
    /\ ReceiptIsAnchored
    /\ \A p \in Process :
          /\ local[p].before \subseteq receipts
          /\ phase[p] \in Compared => \A log \in local[p].before : Prefix(log, local[p].log)

LEMMA PrefixReflexive ==
    ASSUME NEW s \in Seq(Event)
    PROVE  Prefix(s, s)
BY LenProperties DEF Prefix

LEMMA PrefixTransitive ==
    ASSUME NEW r \in Seq(Event), NEW s \in Seq(Event), NEW t \in Seq(Event),
           Prefix(r, s), Prefix(s, t)
    PROVE  Prefix(r, t)
<1>1. /\ Len(r) \in Nat /\ Len(s) \in Nat /\ Len(t) \in Nat
      /\ DOMAIN r = 1 .. Len(r) /\ DOMAIN s = 1 .. Len(s)
  BY ZenonT(30), LenProperties
<1>2. QED
  BY <1>1 DEF Prefix

\* The anchor that a swap expects is a prefix of the one it writes.
LEMMA ExpectedIsPrefix ==
    ASSUME NEW s \in Seq(Event)
    PROVE  /\ SubSeq(s, 1, Len(s) - 1) \in Seq(Event)
           /\ Prefix(SubSeq(s, 1, Len(s) - 1), s)
<1> DEFINE n == Len(s) - 1
           t == SubSeq(s, 1, n)
<1>1. Len(s) \in Nat /\ DOMAIN s = 1 .. Len(s) /\ \A i \in 1 .. n : s[i] \in Event
  BY SMTT(30), LenProperties
<1>2. /\ t \in Seq(Event) /\ Len(t) = IF 1 <= n THEN n - 1 + 1 ELSE 0
      /\ \A i \in 1 .. n - 1 + 1 : t[i] = s[1 + i - 1]
  BY SMTT(30), <1>1, SubSeqProperties
<1>3. DOMAIN t = 1 .. Len(t)
  BY <1>2, LenProperties
<1>4. Len(t) <= Len(s) /\ \A i \in DOMAIN t : t[i] = s[i]
  BY SMTT(30), <1>1, <1>2, <1>3
<1>5. QED
  BY <1>2, <1>4 DEF Prefix

\* What a log says of a revocation, every log it is a prefix of says as well.
LEMMA RevokedGrows ==
    ASSUME NEW s \in Seq(Event), NEW t \in Seq(Event), Prefix(s, t), NEW a
    PROVE  Revoked(s, a) \subseteq Revoked(t, a)
<1>1. DOMAIN s \subseteq DOMAIN t /\ \A i \in DOMAIN s : s[i] = t[i]
  BY SMTT(30), LenProperties DEF Prefix
<1>2. QED
  BY ZenonT(30), <1>1 DEF Revoked, Events

LEMMA InitOK == LogInit => LogInv
<1>1. <<>> \in Seq(Event) /\ Len(<<>>) = 0
  BY ZenonT(30), EmptySeq
<1>2. QED
  BY <1>1, AdminAssumption DEF LogInit, LogInv, LogTypeOK, Locals, Nothing, ReceiptIsAnchored, Compared, Time

LEMMA NothingIsLocal ==
    Nothing \in Locals /\ Nothing.before = {} /\ Nothing.log \in Seq(Event) /\ Len(Nothing.log) <= Capacity
BY SMTT(30), EmptySeq, AdminAssumption DEF Nothing, Locals, Time

\* A step of one process that leaves anchor and receipts alone.
LEMMA LocalStep ==
    ASSUME LogInv, NEW p \in Process, NEW to, NEW l \in Locals,
           UNCHANGED <<anchor, clock, receipts>>,
           phase' = [phase EXCEPT ![p] = to], local' = [local EXCEPT ![p] = l],
           to \in {"closed", "idle", "fenced", "begin", "committed", "cas", "readback",
                   "loaded", "locked", "unlocked", "reread", "reanchored"},
           l.before \subseteq receipts,
           to \in Compared => \A log \in l.before : Prefix(log, l.log),
           db' \in Seq(Event), Len(db') <= Capacity, Len(l.log) <= Capacity
    PROVE  LogInv'
<1>1. LogTypeOK'
  BY SMTT(30) DEF LogInv, LogTypeOK, Locals
<1>2. ReceiptIsAnchored'
  BY DEF LogInv, ReceiptIsAnchored, Prefix
<1>3. ASSUME NEW q \in Process
      PROVE  /\ local'[q].before \subseteq receipts'
             /\ phase'[q] \in Compared => \A log \in local'[q].before : Prefix(log, local'[q].log)
  BY ZenonT(30) DEF LogInv, LogTypeOK, Locals
<1>4. QED
  BY ZenonT(30), <1>1, <1>2, <1>3 DEF LogInv, Prefix

\* A step of one process that leaves its locals alone as well.
LEMMA ControlStep ==
    ASSUME LogInv, NEW p \in Process, NEW to,
           UNCHANGED <<db, anchor, clock, local, receipts>>,
           phase' = [phase EXCEPT ![p] = to],
           to \in {"closed", "idle", "fenced", "begin", "committed", "cas", "readback",
                   "loaded", "locked", "unlocked", "reread", "reanchored"},
           to \in Compared => phase[p] \in Compared
    PROVE  LogInv'
<1>1. LogTypeOK' /\ ReceiptIsAnchored'
  BY ZenonT(30) DEF LogInv, LogTypeOK, ReceiptIsAnchored, Prefix
<1>2. \A q \in Process : phase'[q] \in Compared => phase[q] \in Compared
  BY DEF LogInv, LogTypeOK
<1>3. QED
  BY ZenonT(30), <1>1, <1>2 DEF LogInv, Prefix

\* The swap replaces the anchor by a log that extends it.
LEMMA CompareAndSwapStep ==
    ASSUME LogInv, NEW p \in Process, CompareAndSwap(p)
    PROVE  LogInv'
<1> DEFINE log == local[p].log
           expected == SubSeq(log, 1, Len(log) - 1)
<1>0. log \in Seq(Event)
  BY DEF LogInv, LogTypeOK, Locals
<1>1. CASE anchor = expected /\ anchor' = log
  <2>1. UNCHANGED <<db, clock, local, receipts>>
    BY DEF CompareAndSwap
  <2>2. PICK to \in {"readback", "fenced"} : phase' = [phase EXCEPT ![p] = to]
    BY DEF CompareAndSwap
  <2>3. anchor \in Seq(Event) /\ Prefix(anchor, log)
    BY <1>0, <1>1, ExpectedIsPrefix
  <2>4. ReceiptIsAnchored'
    <3> SUFFICES ASSUME NEW r \in receipts PROVE Prefix(r, log)
      BY ZenonT(30), <1>1, <2>1 DEF ReceiptIsAnchored, Prefix
    <3>1. r \in Seq(Event) /\ Prefix(r, anchor)
      BY ZenonT(30) DEF LogInv, LogTypeOK, ReceiptIsAnchored
    <3>2. QED
      BY <1>0, <2>3, <3>1, PrefixTransitive
  <2>5. LogTypeOK'
    BY ZenonT(30), <1>0, <1>1, <2>1, <2>2 DEF LogInv, LogTypeOK
  <2>6. \A q \in Process : phase'[q] \in Compared => phase[q] \in Compared
    BY <2>2 DEF LogInv, LogTypeOK, Compared
  <2>7. QED
    BY <2>1, <2>4, <2>5, <2>6 DEF LogInv, Prefix
<1>2. CASE phase' = [phase EXCEPT ![p] = "fenced"] /\ UNCHANGED anchor
  BY ZenonT(30), <1>2, ControlStep DEF CompareAndSwap, Compared
<1>3. QED
  BY <1>1, <1>2 DEF CompareAndSwap

\* A receipt is returned for the log that the anchor holds.
LEMMA ReadBackStep ==
    ASSUME LogInv, NEW p \in Process, ReadBack(p)
    PROVE  LogInv'
<1>1. CASE phase' = [phase EXCEPT ![p] = "fenced"] /\ UNCHANGED <<receipts, local>>
  BY ZenonT(30), <1>1, ControlStep DEF ReadBack, Compared
<1>2. CASE /\ anchor = local[p].log /\ phase' = [phase EXCEPT ![p] = "idle"]
           /\ receipts' = receipts \cup {local[p].log} /\ local' = [local EXCEPT ![p] = Nothing]
  <2>1. anchor \in Seq(Event) /\ UNCHANGED <<db, anchor, clock>>
    BY ZenonT(30) DEF LogInv, LogTypeOK, ReadBack
  <2>2. LogTypeOK'
    BY ZenonT(30), <1>2, <2>1, NothingIsLocal DEF LogInv, LogTypeOK, Locals
  <2>3. ReceiptIsAnchored'
    BY ZenonT(30), <1>2, <2>1, PrefixReflexive DEF LogInv, ReceiptIsAnchored, Prefix
  <2>4. \A q \in Process : local'[q].before \subseteq receipts'
    BY ZenonT(30), <1>2, NothingIsLocal DEF LogInv, LogTypeOK
  <2>5. \A q \in Process : phase'[q] \in Compared => q # p /\ phase'[q] = phase[q] /\ local'[q] = local[q]
    BY <1>2 DEF LogInv, LogTypeOK, Compared
  <2>6. QED
    BY SMTT(30), <2>2, <2>3, <2>4, <2>5 DEF LogInv, Prefix
<1>3. QED
  BY <1>1, <1>2 DEF ReadBack

\* A row is only added to a log that is not full.
LEMMA CommitRowStep ==
    ASSUME LogInv, NEW p \in Process, NEW e \in Event, CommitRow(p, e)
    PROVE  LogInv'
<1> DEFINE l == [local[p] EXCEPT !.log = db']
<1>1. db \in Seq(Event) /\ Len(db) < Capacity /\ db' = Append(db, e)
  BY ZenonT(30) DEF CommitRow, LogInv, LogTypeOK
<1>2. db' \in Seq(Event) /\ Len(db') <= Capacity
  BY SMTT(30), <1>1, AppendProperties, LenProperties, AdminAssumption
<1>3. local[p] \in Locals /\ local[p].before \subseteq receipts
  BY DEF LogInv, LogTypeOK
<1>4. CASE phase' = [phase EXCEPT ![p] = "committed"] /\ local' = [local EXCEPT ![p].log = db']
  <2>1. l \in Locals /\ l.before = local[p].before /\ l.log = db'
    BY <1>2, <1>3 DEF Locals
  <2>2. local' = [local EXCEPT ![p] = l]
    BY <1>4
  <2>3. "committed" \notin Compared
    BY DEF Compared
  <2> HIDE DEF l
  <2>4. QED
    BY ZenonT(30), <1>2, <1>3, <1>4, <2>1, <2>2, <2>3, LocalStep DEF CommitRow
<1>5. CASE phase' = [phase EXCEPT ![p] = "idle"] /\ local' = [local EXCEPT ![p] = Nothing]
  BY ZenonT(30), <1>2, <1>5, NothingIsLocal, LocalStep DEF CommitRow, Compared
<1>6. QED
  BY <1>4, <1>5 DEF CommitRow

\* A query remembers the receipts returned before it began; a batch query begins with the log
\* that the anchor holds.
LEMMA QueryStep ==
    ASSUME LogInv, NEW p \in Process, NEW item \in Item, Load(p, item) \/ Lock(p, item)
    PROVE  LogInv'
<1>1. /\ Query(item) \in Locals /\ Query(item).before = receipts /\ Query(item).log = db
      /\ db \in Seq(Event) /\ Len(db) <= Capacity
  BY AdminAssumption DEF LogInv, LogTypeOK, Query, Locals, Time
<1>2. CASE Load(p, item)
  BY ZenonT(30), <1>1, <1>2, LocalStep DEF Load, Goto, Compared
<1>3. CASE Lock(p, item)
  <2>1. \A log \in receipts : Prefix(log, db)
    BY ZenonT(30), <1>3 DEF Lock, LogInv, ReceiptIsAnchored
  <2>2. QED
    BY ZenonT(30), <1>1, <1>3, <2>1, LocalStep DEF Lock, Goto
<1>4. QED
  BY ZenonT(30), <1>2, <1>3

LEMMA BeginAppendStep ==
    ASSUME LogInv, NEW p \in Process, BeginAppend(p)
    PROVE  LogInv'
<1> DEFINE l == [Nothing EXCEPT !.time = clock]
<1>1. l \in Locals /\ l.before = {} /\ Len(l.log) <= Capacity
  BY ZenonT(30), NothingIsLocal, AdminAssumption DEF LogInv, LogTypeOK, Locals, Nothing
<1>2. db \in Seq(Event) /\ Len(db) <= Capacity
  BY DEF LogInv, LogTypeOK
<1> HIDE DEF l
<1>3. QED
  BY ZenonT(30), <1>1, <1>2, LocalStep DEF BeginAppend, Goto, Compared, l

\* A process that ends its operation forgets what it read.
LEMMA ForgetStep ==
    ASSUME LogInv, NEW p \in Process,
           \/ EndOperation(p) \/ CloseStore(p)
           \/ \E at \in Time : Confirm(p, at) \/ ConfirmBatch(p, at)
    PROVE  LogInv'
<1>1. db \in Seq(Event) /\ Len(db) <= Capacity
  BY ZenonT(30) DEF LogInv, LogTypeOK
<1>2. /\ UNCHANGED <<db, anchor, clock, receipts>> /\ local' = [local EXCEPT ![p] = Nothing]
      /\ \E to \in {"idle", "closed"} : phase' = [phase EXCEPT ![p] = to]
  BY DEF EndOperation, CloseStore, Confirm, ConfirmBatch, Answers
<1>3. QED
  BY ZenonT(30), <1>1, <1>2, NothingIsLocal, LocalStep DEF Compared

LEMMA CheckStep ==
    ASSUME LogInv, NEW p \in Process,
           OpenStore(p) \/ VerifyCommitted(p) \/ Unlock(p) \/ Reread(p)
    PROVE  LogInv'
<1>1. UNCHANGED <<db, anchor, clock, local, receipts>>
  BY DEF OpenStore, VerifyCommitted, Unlock, Reread
<1>2. CASE OpenStore(p) \/ VerifyCommitted(p)
  <2>1. \E to \in {"idle", "cas", "fenced"} : phase' = [phase EXCEPT ![p] = to]
    BY <1>2 DEF OpenStore, VerifyCommitted, Goto
  <2>2. QED
    BY ZenonT(30), <1>1, <2>1, ControlStep DEF Compared
<1>3. CASE Unlock(p) \/ Reread(p)
  <2>1. \E to \in Compared : phase' = [phase EXCEPT ![p] = to] /\ phase[p] \in Compared
    BY ZenonT(30), <1>3 DEF Unlock, Reread, Goto, Compared
  <2>2. QED
    BY ZenonT(30), <1>1, <2>1, ControlStep DEF Compared
<1>4. QED
  BY ZenonT(30), <1>2, <1>3

\* The clock and a restored database do not touch the anchor.
LEMMA OutsideStep == LogInv /\ (SetClock \/ Restore) => LogInv'
<1> SUFFICES ASSUME LogInv, SetClock \/ Restore PROVE LogInv'
  OBVIOUS
<1>1. UNCHANGED <<anchor, phase, local, receipts>> /\ clock' \in Time
  BY DEF SetClock, Restore, LogInv, LogTypeOK
<1>2. db' \in Seq(Event) /\ Len(db') <= Capacity
  <2>1. CASE SetClock
    BY <2>1 DEF SetClock, LogInv, LogTypeOK
  <2>2. CASE Restore
    <3>1. db \in Seq(Event) /\ Len(db) <= Capacity /\ Len(db) \in Nat /\ DOMAIN db = 1 .. Len(db)
      BY LenProperties DEF LogInv, LogTypeOK
    <3>2. PICK n \in 0 .. Len(db) - 1 : db' = SubSeq(db, 1, n)
      BY <2>2 DEF Restore
    <3>3. \A i \in 1 .. n : db[i] \in Event
      BY SMTT(30), <3>1, <3>2, ElementOfSeq
    <3>4. db' \in Seq(Event) /\ Len(db') = IF 1 <= n THEN n - 1 + 1 ELSE 0
      BY SMTT(30), <3>1, <3>2, <3>3, SubSeqProperties
    <3>5. QED
      BY SMTT(30), <3>1, <3>2, <3>4, AdminAssumption
  <2>3. QED
    BY ZenonT(30), <2>1, <2>2
<1>3. QED
  BY ZenonT(30), <1>1, <1>2 DEF LogInv, LogTypeOK, ReceiptIsAnchored, Prefix

LEMMA StutterStep == LogInv /\ UNCHANGED logVars => LogInv'
BY DEF LogInv, LogTypeOK, ReceiptIsAnchored, Prefix, logVars

\* Every step of every process, of the clock and of a restored database keeps the inductive
\* invariant.
THEOREM LogInvariance == LogSpec => []LogInv
<1>1. LogInv /\ [LogNext]_logVars => LogInv'
  <2> SUFFICES ASSUME LogInv, [LogNext]_logVars PROVE LogInv'
    OBVIOUS
  <2>1. ASSUME NEW p \in Process, NEW e \in Event, CommitRow(p, e) PROVE LogInv'
    BY <2>1, CommitRowStep
  <2>2. ASSUME NEW p \in Process, NEW item \in Item, Load(p, item) \/ Lock(p, item) PROVE LogInv'
    BY ZenonT(30), <2>2, QueryStep
  <2>3. ASSUME NEW p \in Process,
               \/ BeginAppend(p) \/ CompareAndSwap(p) \/ ReadBack(p)
               \/ OpenStore(p) \/ VerifyCommitted(p) \/ Unlock(p) \/ Reread(p)
               \/ EndOperation(p) \/ CloseStore(p)
               \/ \E at \in Time : Confirm(p, at) \/ ConfirmBatch(p, at)
        PROVE  LogInv'
    BY ZenonT(30), <2>3, BeginAppendStep, CompareAndSwapStep, ReadBackStep, CheckStep, ForgetStep
  <2>4. QED
    BY <2>1, <2>2, <2>3, OutsideStep, StutterStep DEF LogNext
<1>2. QED
  BY InitOK, <1>1, PTL DEF LogSpec

\* For any number of processes and events: a log that a returned receipt names stays a prefix of
\* the log that the external anchor commits to.
THEOREM ReceiptIsAnchoredHolds == LogSpec => []ReceiptIsAnchored
<1>1. LogInv => ReceiptIsAnchored
  BY ZenonT(30) DEF LogInv
<1>2. QED
  BY LogInvariance, <1>1, PTL

\* The log an answered query goes by extends every log that a receipt named before it began.
LEMMA AnswersExtendReceipts ==
    ASSUME LogInv, NEW p \in Process, NEW at \in Time, Confirm(p, at) \/ ConfirmBatch(p, at)
    PROVE  \A log \in local[p].before : Prefix(log, local[p].log)
BY ZenonT(30) DEF LogInv, ReceiptIsAnchored, Confirm, ConfirmBatch, Compared

\* For any number of processes and events: once the receipt of a revocation has been returned,
\* no query that starts later answers yes for a time from the revocation on.
THEOREM RevocationHoldsAlways == LogSpec => RevocationHolds
<1>1. ASSUME LogInv, NEW p \in Process, NEW at \in Time, Confirm(p, at) \/ ConfirmBatch(p, at),
             NEW log \in local[p].before, NEW r \in Revoked(log, AssignmentOf[local[p].item])
      PROVE  at < r.occurred
  <2>1. log \in Seq(Event) /\ local[p].log \in Seq(Event)
    BY ZenonT(30), <1>1 DEF LogInv, LogTypeOK, Locals
  <2>2. r \in Revoked(local[p].log, AssignmentOf[local[p].item])
    BY ZenonT(30), <1>1, <2>1, AnswersExtendReceipts, RevokedGrows
  <2>3. AssignmentAuthorizes(local[p].log, AssignmentOf[local[p].item], at)
    BY ZenonT(30), <1>1 DEF Confirm, ConfirmBatch, Answers, Authorized
  <2>4. QED
    BY ZenonT(30), <2>2, <2>3 DEF AssignmentAuthorizes
<1>2. LogInv => HonoursReceipts
  BY ZenonT(30), <1>1 DEF HonoursReceipts
<1>3. QED
  BY <1>2, LogInvariance, PTL DEF RevocationHolds, LogSpec

=============================================================================
