---------------------------- MODULE TrustedTime ----------------------------
(***************************************************************************)
(* Bounded UTC: the publisher's rounds, the receiver's cursor, the keeper  *)
(* and its supervisor, the client that projects one delivered interval,    *)
(* and the floor of the Admin history raised from it.                      *)
(*                                                                         *)
(* One tick is a coarse unit of CLOCK_BOOTTIME.  CLOCK_MONOTONIC is        *)
(* boot - asleep and CLOCK_REALTIME is boot + step, so the tolerances of a *)
(* few milliseconds in the code become equality.  True UTC is              *)
(* Base + boot + off; the boot clock wanders by at most one tick per       *)
(* DriftPeriod, and a suspend may move it further.  A producer publishes   *)
(* at most one round a tick and measures an operator at most once a tick,  *)
(* so `observed' and `captured' also stand for the sequence numbers.       *)
(***************************************************************************)
EXTENDS Integers, Sequences, FiniteSetsExt, SequencesExt

CONSTANTS Faulty,        \* the operators that may report anything
          Error,         \* how far an honest operator's interval reaches past the truth
          Lie,           \* the intervals of a faulty operator, about the truth
          MaxBoot, MaxOff, MaxSuspend, MaxStep, MaxGeneration, MaxQueue,
          LastRound,     \* the last tick at which a round is published
          Statement,     \* the floors an Admin proposes
          MaxAge,        \* a sample's greatest real age (180 s)
          Heartbeat,     \* a round's greatest real age (1 s)
          ClientAge,     \* a delivery's greatest real age (250 ms)
          MaxWidth,      \* of a delivered interval (500 ms)
          DriftPeriod,   \* ticks in which the boot clock errs by one (100 ppm)
          None

VARIABLES clock, producer, queue, keeper, client, floor,
          review   \* what the Admin reviewed for the keeper's control socket
timeVars == <<clock, producer, queue, keeper, client, floor, review>>

Operator == 1..3
Base == 5
Utc == Base + clock.boot + clock.off
Reading == [boot |-> clock.boot, asleep |-> clock.asleep, step |-> clock.step]
Before(old, new) == new.boot >= old.boot /\ new.asleep = old.asleep
SameClock(old, new) == Before(old, new) /\ new.step = old.step
NoSource == [o \in Operator |-> None]

-----------------------------------------------------------------------------
(* utc_bounds *)
Drift(age) == (age + DriftPeriod - 1) \div DriftPeriod
Aged(age, limit) == age >= 0 /\ age + Drift(age) <= limit
Hull(S) == <<Min({i[1] : i \in S}), Max({i[2] : i \in S})>>
Meet(a, b) == <<Max({a[1], b[1]}), Min({a[2], b[2]})>>
Project(utc, observed, now, limit) ==
    LET age == now - observed
        lower == utc[1] + age - Drift(age)
    IN IF Aged(age, limit) /\ lower >= 0
       THEN {<<lower, utc[2] + age + Drift(age)>>} ELSE {}

Measured(sources) == {o \in Operator : sources[o] # None}
Projections(sources, now) ==
    [o \in Measured(sources) |->
        Project(sources[o].utc, sources[o].observed, now, MaxAge)]
Overlaps(p) ==
    LET pairs == {q \in Operator \X Operator : q[1] < q[2] /\ {q[1], q[2]} \subseteq DOMAIN p}
    IN {i \in {Meet(p[q[1]], p[q[2]]) : q \in pairs} : i[1] <= i[2]}
Agreed_Tightest(p) ==
    CHOOSE i \in Overlaps(p) : \A j \in Overlaps(p) : i[2] - i[1] <= j[2] - j[1]
Agreed(p) ==
    IF Cardinality(DOMAIN p) = 2 THEN Hull({p[o] : o \in DOMAIN p})
    ELSE Hull(Overlaps(p))
Consensus(sources, now) ==
    LET all == Projections(sources, now)
        p == [o \in DOMAIN all |-> CHOOSE i \in all[o] : TRUE]
    IN IF /\ Cardinality(DOMAIN all) >= 2
          /\ \A o \in DOMAIN all : all[o] # {}
          /\ Overlaps(p) # {}
       THEN {i \in {Agreed(p)} : i[2] - i[1] <= MaxWidth} ELSE {}

-----------------------------------------------------------------------------
(* The clocks and the publisher (external) *)
Tick ==
    /\ clock.boot < MaxBoot
    /\ \E d \in IF clock.steady >= DriftPeriod - 1 THEN {-1, 0, 1} ELSE {0} :
        /\ clock.off + d \in -MaxOff..MaxOff
        /\ clock' = [clock EXCEPT !.boot = @ + 1, !.off = @ + d,
                       !.steady = IF d # 0 THEN 0 ELSE Min({@ + 1, DriftPeriod - 1})]
    /\ UNCHANGED <<producer, queue, keeper, client, floor, review>>

Suspend ==
    /\ clock.boot < MaxBoot /\ clock.asleep < MaxSuspend
    /\ \E off \in {clock.off - 1, MaxOff} \cap -MaxOff..MaxOff :
        clock' = [clock EXCEPT !.boot = @ + 1, !.asleep = @ + 1, !.off = off]
    /\ UNCHANGED <<producer, queue, keeper, client, floor, review>>

Step ==
    /\ clock.step < MaxStep /\ producer.generation < MaxGeneration
    /\ clock' = [clock EXCEPT !.step = @ + 1]
    /\ producer' = [producer EXCEPT !.generation = @ + 1, !.samples = NoSource]
    /\ UNCHANGED <<queue, keeper, client, floor, review>>

ProducerExits ==
    /\ producer.live /\ clock.boot < LastRound
    /\ producer' = [producer EXCEPT !.live = FALSE, !.samples = NoSource]
    /\ UNCHANGED <<clock, queue, keeper, client, floor, review>>

Reports(o) ==
    {[observed |-> clock.boot, utc |-> <<Utc + e[1], Utc + e[2]>>] :
        e \in IF o \in Faulty THEN Lie ELSE {Error[o]}}

Round(sources) ==
    [generation |-> producer.generation, captured |-> Reading, sources |-> sources]
Publish ==
    /\ producer.live /\ (keeper.phase = "pending" \/ keeper.state # "Fenced")
    /\ producer.sent < clock.boot /\ clock.boot <= LastRound /\ Len(queue) < MaxQueue
    /\ \E s1 \in Reports(1) \cup {producer.samples[1], None},
          s2 \in Reports(2) \cup {producer.samples[2], None},
          s3 \in Reports(3) \cup {producer.samples[3], None} :
        LET sources == <<s1, s2, s3>> IN
        /\ producer' = [producer EXCEPT !.sent = clock.boot, !.samples = sources]
        /\ queue' = Append(queue, Round(sources))
    /\ UNCHANGED <<clock, keeper, client, floor, review>>

-----------------------------------------------------------------------------
(* Receiver and Keeper *)
PeerUnchanged == producer.live
Admitted == PeerUnchanged

ValidateCapture(round) ==
    /\ Before(round.captured, Reading) /\ round.captured.step = clock.step
    /\ Aged(clock.boot - round.captured.boot, Heartbeat)

Replay(old, lost, new) ==
    /\ old # None /\ new # None
    /\ \/ new.observed < old.observed
       \/ new.observed = old.observed /\ (new # old \/ lost)

CursorAccepts(k, round) ==
    /\ round.generation = k.generation
    /\ round.captured.boot > k.barrier
    /\ ValidateCapture(round)
    /\ k.captured # None => /\ SameClock(k.captured, round.captured)
                            /\ round.captured.boot > k.captured.boot
    /\ \A o \in Measured(round.sources) :
        /\ round.sources[o].observed \in k.barrier + 1..round.captured.boot
        /\ ~Replay(k.samples[o], o \in k.lost, round.sources[o])

KeeperAccepts(k, round) ==
    /\ SameClock(k.last, round.captured)
    /\ \A o \in Measured(round.sources) : round.sources[o].observed >= k.barrier

Fence(k) == [k EXCEPT !.state = "Fenced", !.sources = NoSource, !.samples = NoSource,
                      !.lost = {}, !.captured = None, !.last = None]

Took(k, round, state) ==
    [k EXCEPT !.state = state, !.sources = round.sources,
              !.captured = round.captured, !.last = round.captured,
              !.samples = [o \in Operator |->
                  IF round.sources[o] = None THEN @[o] ELSE round.sources[o]],
              !.lost = Operator \ Measured(round.sources)]

RefreshInner(k, round) ==
    LET now == round.captured.boot
        few == Cardinality(Measured(round.sources)) < 2
    IN CASE k.state = "Acquiring" /\ few
              /\ \A o \in Measured(round.sources) :
                    Projections(round.sources, now)[o] # {} -> Took(k, round, "Acquiring")
         [] ~few /\ Consensus(round.sources, now) # {} -> Took(k, round, "Bounded")
         [] OTHER -> Fence(k)

Refresh(k, round) ==
    IF k.state = "Fenced" \/ ~CursorAccepts(k, round) \/ ~KeeperAccepts(k, round)
    THEN Fence(k) ELSE RefreshInner(k, round)

Estimates(k) == IF k.state = "Bounded" THEN Consensus(k.sources, clock.boot) ELSE {}

CandidateAt(k) ==
    IF /\ k.state # "Fenced" /\ SameClock(k.last, Reading)
       /\ k.captured # None => Aged(clock.boot - k.captured.boot, Heartbeat)
       /\ k.state = "Bounded" => Estimates(k) # {}
    THEN IF k.state = "Bounded" THEN [k EXCEPT !.last = Reading] ELSE k
    ELSE Fence(k)

Poll(k) ==
    IF k.state = "Fenced" \/ k.step # clock.step \/ ~PeerUnchanged THEN Fence(k)
    ELSE CandidateAt(FoldLeft(Refresh, k, queue))

-----------------------------------------------------------------------------
(* The supervisor: one reviewed seed per instance *)
Unseeded(instance) ==
    [phase |-> "unseeded", instance |-> instance, state |-> "Fenced", generation |-> 0,
     barrier |-> 0, step |-> 0, last |-> None, captured |-> None,
     sources |-> NoSource, samples |-> NoSource, lost |-> {}]

NoClient == [phase |-> "none", initial |-> None, floor |-> 0, context |-> None,
             before |-> None, captured |-> None, raw |-> None, out |-> None]
Serving == client.phase = "asked" /\ client.captured # None

\* What the review digest of a seed binds: the keeper's instance and the
\* shared history.
Reviewed == <<keeper.instance, floor>>

SeedProposal ==
    /\ keeper.phase = "unseeded" /\ review' = Reviewed
    /\ UNCHANGED <<clock, producer, queue, keeper, client, floor>>

DeliverSeed ==
    /\ ~Serving /\ review = Reviewed /\ keeper.phase = "unseeded"
    /\ review' = None
    /\ clock' = [clock EXCEPT !.step = @ + 1]
    /\ keeper' = [keeper EXCEPT !.phase = "pending", !.barrier = clock.boot,
                                !.step = clock'.step,
                                !.last = [Reading EXCEPT !.step = clock'.step]]
    /\ UNCHANGED <<producer, queue, client, floor>>

\* A second or a stale seed is refused, and the refusal fences the stream.
SeedRefused ==
    /\ ~Serving /\ keeper.phase = "live" /\ keeper.state # "Fenced"
    /\ keeper' = Fence(keeper)
    /\ UNCHANGED <<clock, producer, queue, client, floor, review>>

Attached(round) == [keeper EXCEPT !.phase = "live", !.state = "Acquiring",
                                  !.generation = round.generation]
Acquire ==
    /\ keeper.phase = "pending" /\ queue # <<>> /\ ~Serving
    /\ keeper' = IF /\ keeper.step = clock.step /\ Admitted
                    /\ CursorAccepts(Attached(queue[1]), queue[1])
                 THEN Poll(Attached(queue[1]))
                 ELSE Fence([keeper EXCEPT !.phase = "live"])
    /\ queue' = <<>>
    /\ UNCHANGED <<clock, producer, client, floor, review>>

AcquisitionTimesOut ==
    /\ keeper.phase = "pending" /\ queue = <<>> /\ ~Serving
    /\ keeper' = Fence([keeper EXCEPT !.phase = "live"])
    /\ UNCHANGED <<clock, producer, queue, client, floor, review>>

ServeLoop ==
    /\ keeper.phase = "live" /\ keeper.state # "Fenced" /\ ~Serving
    /\ keeper' = Poll(keeper) /\ queue' = <<>>
    /\ UNCHANGED <<clock, producer, client, floor, review>>

\* The command re-derives its review before it acts; a stale one changes nothing.
RestartFixed ==
    /\ keeper.instance < MaxGeneration /\ producer.generation < MaxGeneration
    /\ keeper' = Unseeded(keeper.instance + 1) /\ queue' = <<>>
    /\ producer' = [producer EXCEPT !.generation = @ + 1, !.live = TRUE, !.samples = NoSource]
    /\ client' = IF client.phase = "asked" THEN NoClient ELSE client
    /\ UNCHANGED <<clock, floor, review>>

-----------------------------------------------------------------------------
(* The client *)
Deliver(interval) == [utc |-> interval, at |-> Utc]

\* A query that meets no bounded estimate is refused: its one effect, the
\* poll, is ServeLoop's.  Clients are therefore opened on a bounded keeper.
OpenClient ==
    /\ client.phase = "none" /\ keeper.state = "Bounded"
    /\ client' = [NoClient EXCEPT !.phase = "asked", !.initial = Reading,
                                  !.before = Reading, !.floor = floor]
    /\ UNCHANGED <<clock, producer, queue, keeper, floor, review>>

Recheck ==
    /\ client.phase = "held"
    /\ client' = IF clock.step = client.initial.step /\ client.floor = floor
                 THEN [client EXCEPT !.phase = "asked", !.before = Reading,
                                     !.captured = None, !.raw = None, !.out = None]
                 ELSE NoClient
    /\ UNCHANGED <<clock, producer, queue, keeper, floor, review>>

Capture ==
    /\ client.phase = "asked" /\ client.captured = None
    /\ keeper' = IF keeper.phase = "live" THEN Poll(keeper) ELSE keeper
    /\ queue' = IF keeper.phase = "live" THEN <<>> ELSE queue
    /\ client' = IF keeper'.phase = "live" /\ keeper'.state = "Bounded"
                 THEN [client EXCEPT !.captured = Reading] ELSE NoClient
    /\ UNCHANGED <<clock, producer, floor, review>>

Widened(estimate, span) == <<estimate[1] - span - Drift(span), estimate[2]>>
Answer ==
    /\ client.phase = "asked" /\ client.captured # None
    /\ LET k == IF queue = <<>> THEN CandidateAt(keeper) ELSE Fence(keeper)
           span == clock.boot - client.captured.boot
           raw == {i \in {Widened(e, span) : e \in Estimates(k)} :
                       i[1] >= 0 /\ i[2] - i[1] <= MaxWidth}
           context == <<k.instance, k.generation>>
       IN IF /\ keeper.phase = "live" /\ k.step = clock.step /\ raw # {}
             /\ client.context \in {None, context}
          THEN /\ keeper' = k
               /\ client' = [client EXCEPT !.phase = "answered", !.context = context,
                                           !.raw = CHOOSE i \in raw : TRUE]
          ELSE keeper' = Fence(keeper) /\ client' = NoClient
    /\ UNCHANGED <<clock, producer, queue, floor, review>>

Current ==
    LET result == Project(client.raw, client.captured.boot, clock.boot, ClientAge) IN
    {i \in result : i[1] >= client.floor /\ i[2] - i[1] <= MaxWidth}

Receive ==
    /\ client.phase = "answered"
    /\ client' = IF /\ Before(client.before, client.captured)
                    /\ Before(client.before, Reading) /\ Before(client.initial, Reading)
                    /\ clock.step = client.initial.step
                    /\ keeper.instance = client.context[1] /\ Current # {}
                 THEN [client EXCEPT !.phase = "held", !.before = None,
                                     !.out = Deliver(CHOOSE i \in Current : TRUE)]
                 ELSE NoClient
    /\ UNCHANGED <<clock, producer, queue, keeper, floor, review>>

ProjectAfterChecks ==
    /\ client.phase = "held"
    /\ client' = IF /\ Before(client.initial, Reading) /\ Before(client.captured, Reading)
                    /\ clock.step = client.initial.step
                    /\ client.floor = floor
                    /\ keeper.instance = client.context[1] /\ Current # {}
                 THEN [client EXCEPT !.out = Deliver(CHOOSE i \in Current : TRUE)]
                 ELSE NoClient
    /\ UNCHANGED <<clock, producer, queue, keeper, floor, review>>

-----------------------------------------------------------------------------
(* The Admin history's floor *)
Supports(statement) == statement <= client.out.utc[1]
ExecuteHistory(statement) ==
    /\ client.phase = "held"
    /\ statement > floor /\ Supports(statement)
    /\ floor' = statement /\ client' = NoClient
    /\ UNCHANGED <<clock, producer, queue, keeper, review>>

(* The commands of the Admin *)
SeedCommand == SeedProposal \/ DeliverSeed
ReacquireCommand == RestartFixed
HistoryCommand(statement) == ExecuteHistory(statement)

TimeInit ==
    /\ clock = [boot |-> 0, off |-> 0, steady |-> DriftPeriod - 1, asleep |-> 0, step |-> 0]
    /\ producer = [generation |-> 1, live |-> TRUE, sent |-> 0, samples |-> NoSource]
    /\ queue = <<>> /\ keeper = Unseeded(1) /\ client = NoClient /\ floor = 0
    /\ review = None

TimeNext ==
    \/ Tick \/ Suspend \/ Step \/ ProducerExits \/ Publish
    \/ SeedCommand \/ SeedRefused \/ Acquire \/ AcquisitionTimesOut \/ ServeLoop
    \/ ReacquireCommand
    \/ OpenClient \/ Recheck \/ Capture \/ Answer \/ Receive \/ ProjectAfterChecks
    \/ \E statement \in Statement : HistoryCommand(statement)

TimeSpec == TimeInit /\ [][TimeNext]_timeVars

-----------------------------------------------------------------------------
(* While at most one operator is wrong, every interval a client is given   *)
(* contains UTC at the instant it is given: through a slow or fast boot    *)
(* clock, a suspend, a realtime step, late and repeated samples, a fence   *)
(* and a restart of the keeper (utc_bounds.rs consensus, utc_keeper.rs,    *)
(* utc_receiver.rs Cursor::accept, utc_provider.rs current_inner and       *)
(* project_after_checks).                                                  *)
TruthIsCovered ==
    client.out # None => client.out.at \in client.out.utc[1]..client.out.utc[2]

(* The floor that every later delivery has to clear is never ahead of UTC, *)
(* so a raised floor cannot refuse honest time (execute_history_at,        *)
(* Statement::supported_by).                                               *)
============================================================================
