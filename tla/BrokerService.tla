----------------------------- MODULE BrokerService -----------------------------
(***************************************************************************)
(* service.rs and service/ingress.rs: the broker's socket.  A reader       *)
(* thread per connection takes one frame, hands it to the coordinator and  *)
(* waits for the answer; the coordinator dispatches a bounded number of    *)
(* frames, then accepts one connection.  A handler may take arbitrarily    *)
(* long: the readers that wait meanwhile give up and leave what they       *)
(* queued behind.  Connections of one peer are alike, so that they are     *)
(* counted and not named.                                                  *)
(***************************************************************************)
EXTENDS Naturals, Sequences

CONSTANTS
    Peer,                     \* "root" and the service accounts
    RootQuota, ServiceQuota,  \* limit
    MaxReaders,               \* MAX_READERS: readers, and places in the queue
    Round,                    \* frames dispatched between two accepts
    MaxBacklog                \* connections the listener holds

VARIABLES
    backlog,      \* connections not yet accepted, by peer
    reader,       \* reader threads, by peer and by what they do
    queue,        \* frames for the coordinator; a reader may have left one
    at,           \* where the coordinator is
    budget,       \* frames it may still dispatch in this round
    hand,         \* the frame it handles
    effect,       \* the frame the effect thread handles
    manager       \* whether the resource manager serves in this session

serviceVars == <<backlog, reader, queue, at, budget, hand, effect, manager>>

Phase == {"reading", "waiting", "writing", "ended"}
limit(u) == IF u = "root" THEN RootQuota ELSE ServiceQuota
NoFrame == [peer |-> "root", kind |-> "none", live |-> FALSE, aged |-> FALSE]

ServiceInit ==
    /\ backlog = [u \in Peer |-> 0]
    /\ reader = [u \in Peer |-> [p \in Phase |-> 0]]
    /\ queue = <<>> /\ at = "loop" /\ budget = 0
    /\ hand = NoFrame /\ effect = NoFrame
    /\ manager \in {"serving", "fenced"}

Count(f, S) == LET n[T \in SUBSET S] ==
                       IF T = {} THEN 0 ELSE LET x == CHOOSE x \in T : TRUE IN f[x] + n[T \ {x}]
               IN n[S]

Threads(u) == Count(reader[u], Phase)
Backlog == Count(backlog, Peer)
Move(u, p, q) == [reader EXCEPT ![u][p] = @ - 1, ![u][q] = @ + 1]
-----------------------------------------------------------------------------
(* Clients and reader threads.                                             *)
\* connect_local: a full listen queue refuses at once.
Connect(u) ==
    /\ Backlog < MaxBacklog /\ backlog' = [backlog EXCEPT ![u] = @ + 1]
    /\ UNCHANGED <<reader, queue, at, budget, hand, effect, manager>>

\* read_frame, then try_send: a full queue closes the connection.
Kinds(u) == IF u = "root" THEN {"effect", "other"} ELSE {"other"}
ReadFrame(u, kind) ==
    /\ reader[u]["reading"] > 0 /\ kind \in Kinds(u)
    /\ IF Len(queue) < MaxReaders
       THEN /\ queue' = Append(queue, [peer |-> u, kind |-> kind, live |-> TRUE, aged |-> FALSE])
            /\ reader' = Move(u, "reading", "waiting")
       ELSE UNCHANGED queue /\ reader' = Move(u, "reading", "ended")
    /\ UNCHANGED <<backlog, at, budget, hand, effect, manager>>

\* The peer sends nothing in time, or hangs up.
ReadFails(u) ==
    /\ reader[u]["reading"] > 0 /\ reader' = Move(u, "reading", "ended")
    /\ UNCHANGED <<backlog, queue, at, budget, hand, effect, manager>>

\* recv_timeout: the reader goes; its frame stays wherever it is.  REPLY_WAIT is
\* long for everything the coordinator does but a handler.
Left(f) == [f EXCEPT !.live = FALSE, !.aged = FALSE, !.peer = "root"]
RecvTimeout(u) ==
    /\ reader[u]["waiting"] > 0 /\ reader' = Move(u, "waiting", "ended")
    /\ \/ \E k \in DOMAIN queue :
              /\ queue[k].live /\ queue[k].peer = u /\ (queue[k].aged \/ at = "handle")
              /\ queue' = [queue EXCEPT ![k] = Left(@)] /\ UNCHANGED <<hand, effect>>
       \/ hand.live /\ hand.peer = u /\ hand' = Left(hand) /\ UNCHANGED <<queue, effect>>
       \/ effect.live /\ effect.peer = u /\ effect' = Left(effect) /\ UNCHANGED <<queue, hand>>
    /\ UNCHANGED <<backlog, at, budget, manager>>

\* write_frame ends, one way or the other, within its deadline.
WriteEnds(u) ==
    /\ reader[u]["writing"] > 0 /\ reader' = Move(u, "writing", "ended")
    /\ UNCHANGED <<backlog, queue, at, budget, hand, effect, manager>>

\* respond: nobody listens to the answer of a frame left behind.
Respond(f) == reader' = IF f.live THEN Move(f.peer, "waiting", "writing") ELSE reader
-----------------------------------------------------------------------------
(* The effect thread: handle_request of a start or stop.                   *)
EffectEnds ==
    /\ effect.kind = "effect" /\ Respond(effect) /\ effect' = [NoFrame EXCEPT !.kind = "finished"]
    /\ UNCHANGED <<backlog, queue, at, budget, hand, manager>>
-----------------------------------------------------------------------------
(* The coordinator: serve.                                                 *)
\* Maintenance; when it fails the manager is gone for the session.  A finished
\* effect thread is joined.
Turn ==
    /\ at = "loop" /\ at' = "dispatch" /\ budget' = Round
    /\ manager' \in {manager, "fenced"}
    /\ effect' = IF effect.kind = "finished" THEN NoFrame ELSE effect
    /\ UNCHANGED <<backlog, reader, queue, hand>>

\* reap
Reaped == [u \in Peer |-> [reader[u] EXCEPT !["ended"] = 0]]
\* receive
Receive ==
    /\ at = "dispatch" /\ budget > 0 /\ reader' = Reaped
    /\ IF queue = <<>>
       THEN at' = "accept" /\ UNCHANGED <<queue, budget, hand>>
       ELSE /\ at' = "handle" /\ budget' = budget - 1
            /\ hand' = Head(queue) /\ queue' = Tail(queue)
    /\ UNCHANGED <<backlog, effect, manager>>

RoundEnds ==
    /\ at = "dispatch" /\ budget = 0 /\ at' = "accept"
    /\ UNCHANGED <<backlog, reader, queue, budget, hand, effect, manager>>

\* A legacy effect goes to its own thread, or is refused when that is busy.
HandOver ==
    /\ at = "handle" /\ hand.kind = "effect" /\ effect = NoFrame
    /\ effect' = hand /\ hand' = NoFrame /\ at' = "dispatch"
    /\ UNCHANGED <<backlog, reader, queue, budget, manager>>

\* Everything else is answered here, a denial included.
Handle ==
    /\ at = "handle" /\ (hand.kind = "effect" => effect # NoFrame)
    /\ Respond(hand) /\ hand' = NoFrame /\ at' = "dispatch"
    /\ queue' = [k \in DOMAIN queue |-> [queue[k] EXCEPT !.aged = @ \/ queue[k].live]]
    /\ UNCHANGED <<backlog, budget, effect, manager>>

\* accept: within the quota of all and of the peer.
Refused_Never(r, u) == FALSE
Refused(r, u) ==
    LET threads(w) == Count(r[w], Phase) IN
    \/ Count([w \in Peer |-> threads(w)], Peer) >= MaxReaders
    \/ threads(u) >= limit(u)

Accept(u) ==
    /\ at = "accept" /\ backlog[u] > 0
    /\ backlog' = [backlog EXCEPT ![u] = @ - 1] /\ at' = "loop"
    /\ reader' = IF Refused(Reaped, u) THEN Reaped ELSE [Reaped EXCEPT ![u]["reading"] = @ + 1]
    /\ UNCHANGED <<queue, budget, hand, effect, manager>>

NothingToAccept ==
    /\ at = "accept" /\ Backlog = 0 /\ at' = "loop"
    /\ UNCHANGED <<backlog, reader, queue, budget, hand, effect, manager>>
-----------------------------------------------------------------------------
ServiceNext ==
    \/ \E u \in Peer : Connect(u)
    \/ \E u \in Peer, kind \in {"effect", "other"} : ReadFrame(u, kind)
    \/ \E u \in Peer : ReadFails(u)
    \/ \E u \in Peer : RecvTimeout(u)
    \/ \E u \in Peer : WriteEnds(u)
    \/ EffectEnds
    \/ Turn
    \/ Receive
    \/ RoundEnds
    \/ HandOver
    \/ Handle
    \/ \E u \in Peer : Accept(u)
    \/ NothingToAccept

\* Every read, wait and write of a reader has a deadline, and the coordinator's
\* loop has no wait but its handlers, whose calls are bounded.
ServiceFairness ==
    /\ \A u \in Peer : WF_serviceVars(ReadFails(u)) /\ WF_serviceVars(RecvTimeout(u))
    /\ \A u \in Peer : WF_serviceVars(WriteEnds(u))
    /\ WF_serviceVars(Turn) /\ WF_serviceVars(Receive) /\ WF_serviceVars(RoundEnds)
    /\ WF_serviceVars(HandOver) /\ WF_serviceVars(Handle)
    /\ WF_serviceVars(\E u \in Peer : Accept(u)) /\ WF_serviceVars(NothingToAccept)

ServiceSpec == ServiceInit /\ [][ServiceNext]_serviceVars /\ ServiceFairness
-----------------------------------------------------------------------------
\* A frame that was read is queued: try_send never meets a full queue, although
\* readers that gave up leave frames behind and others take their place.
FrameIsQueued == Len(queue) = MaxReaders => \A u \in Peer : reader[u]["reading"] = 0
=============================================================================
