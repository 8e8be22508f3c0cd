------------------------------ MODULE MCBroker ------------------------------
(* Small instances for TLC of the broker: its effect journal, its readers  *)
(* and their quotas, the inference requests, the history of requests, and  *)
(* the relay of exports.  Each runs by itself: `part' says which.          *)
EXTENDS BrokerEffects

CONSTANTS Peer, RootQuota, ServiceQuota, MaxReaders, Round, MaxBacklog,
          Granted, Laboratory, Nobody, MaxGeneration,
          Identity, MaxReceipts, MaxBatch, MaxEntries, MaxIntents, MaxEpochs,
          Blocks

VARIABLES part,
          backlog, reader, queue, at, budget, hand, effect, manager,
          era, broker, records, journal, job, ready, lease, busy, worker, client, target, grant,
          expired, ack, frame, mark, out, early, gateFaults,
          dir, dirs, mode, poisoned, retired, task, masked, lock, admitted, fileFaults,
          launcher, stage, channel, unit, sent, stream, acks, relayed, output, flushed, recorded

Service == INSTANCE BrokerService

\* One worker generation after another, and one crash or lost lease.
Gateway == INSTANCE InferenceGateway WITH effect <- mark, faults <- gateFaults, MaxFaults <- 1

History == INSTANCE RequestHistory WITH job <- task, faults <- fileFaults, MaxFaults <- 2

Relay == INSTANCE ExportRelay

serviceVars == <<backlog, reader, queue, at, budget, hand, effect, manager>>
gatewayVars == <<era, broker, records, journal, job, ready, lease, busy, worker, client, target,
                 grant, expired, ack, frame, mark, out, early, gateFaults>>
historyVars == <<dir, dirs, mode, poisoned, retired, task, masked, lock, admitted, fileFaults>>
relayVars == <<launcher, stage, channel, unit, sent, stream, acks, relayed, output, flushed,
               recorded>>
mcVars == <<part, vars, serviceVars, gatewayVars, historyVars, relayVars>>

MCInit ==
    /\ part \in {"effects", "service", "gateway", "history", "relay"}
    /\ Init /\ Service!ServiceInit /\ Gateway!GatewayInit /\ History!HistoryInit /\ Relay!RelayInit
    /\ part # "service" => manager = "serving"
    /\ part # "gateway" => era = "product"
    /\ part # "history" => dir.hot.requests.file # "absent"

MCNext ==
    \/ /\ part = "effects" /\ Next
       /\ UNCHANGED <<part, serviceVars, gatewayVars, historyVars, relayVars>>
    \/ /\ part = "service" /\ Service!ServiceNext
       /\ UNCHANGED <<part, vars, gatewayVars, historyVars, relayVars>>
    \/ /\ part = "gateway" /\ Gateway!GatewayNext
       /\ UNCHANGED <<part, vars, serviceVars, historyVars, relayVars>>
    \/ /\ part = "history" /\ History!HistoryNext
       /\ UNCHANGED <<part, vars, serviceVars, gatewayVars, relayVars>>
    \/ /\ part = "relay" /\ Relay!RelayNext
       /\ UNCHANGED <<part, vars, serviceVars, gatewayVars, historyVars>>
    \/ part \in {"gateway", "history", "relay"} /\ UNCHANGED mcVars  \* these may stop

MCSpec == MCInit /\ [][MCNext]_mcVars

\* A frame that was read finds a place in the coordinator's queue (BrokerService).
FrameIsQueued == part = "service" => Service!FrameIsQueued

\* What a client gave out is its own, durably completed answer (InferenceGateway).
DeliveryIsBacked == part = "gateway" => Gateway!DeliveryIsBacked

\* An identity that was acknowledged is not accepted again (RequestHistory).
NeverForgotten == part = "history" => History!NeverForgotten

\* A recorded export was delivered (ExportRelay).
RecordedIsDelivered == part = "relay" => Relay!RecordedIsDelivered
=============================================================================
