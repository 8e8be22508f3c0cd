------------------------------ MODULE ExportRelay ------------------------------
(***************************************************************************)
(* service/granted_gateway.rs: launch runs a granted command as a confined *)
(* transient unit.  A command that exports sends its payload over a socket *)
(* of its own to the launcher, which relays it to the caller's output and  *)
(* acknowledges every block with the length and digest of what it wrote    *)
(* so far; the producer records the export once its flush is acknowledged. *)
(* Either side times out, fails or is stopped at any point.                *)
(***************************************************************************)
EXTENDS Naturals, Sequences

CONSTANT Blocks        \* blocks of the payload

VARIABLES
    launcher,     \* where launch is
    stage,        \* the private copy of the command's input
    channel,      \* the listener's socket
    unit,         \* the transient unit and its producer
    sent,         \* blocks the producer has sent: its bytes and digest
    stream,       \* frames on their way to the launcher
    acks,         \* acknowledgements on their way back
    relayed,      \* the relay's total and digest
    output,       \* what the caller's output has taken
    flushed,      \* the relay's last frame was a flush the output took
    recorded      \* the producer recorded the export as delivered

relayVars == <<launcher, stage, channel, unit, sent, stream, acks, relayed, output, flushed, recorded>>

Flush == 0
RelayInit ==
    /\ launcher = "idle" /\ stage = "none" /\ channel = "none" /\ unit = "none"
    /\ sent = <<>> /\ stream = <<>> /\ acks = <<>> /\ relayed = <<>> /\ output = <<>>
    /\ flushed = FALSE /\ recorded = FALSE

Launcher == UNCHANGED <<unit, sent, recorded>>
Producer == UNCHANGED <<launcher, stage, relayed, output, flushed>>
-----------------------------------------------------------------------------
(* launch                                                                  *)
\* Only the fixed commands are launched.
Launch ==
    /\ launcher = "idle" /\ launcher' \in {"admitted", "failed"}
    /\ UNCHANGED <<stage, channel, stream, acks, relayed, output, flushed>> /\ Launcher
\* The input is copied, where the command has one, before anyone is asked to
\* authenticate.
Captures == {"none", "whole"}
CaptureInput ==
    /\ launcher = "admitted" /\ launcher' = "staged" /\ stage' \in Captures
    /\ UNCHANGED <<channel, stream, acks, relayed, output, flushed>> /\ Launcher
StageUnchanged == stage # "changed"
StartUnit ==
    /\ launcher = "staged" /\ StageUnchanged
    /\ launcher' = "accept" /\ channel' = "open" /\ unit' = "started"
    /\ UNCHANGED <<stage, sent, stream, acks, relayed, output, flushed, recorded>>
Refuse ==
    /\ launcher = "staged" /\ ~StageUnchanged /\ launcher' = "failed"
    /\ UNCHANGED <<stage, channel, stream, acks, relayed, output, flushed>> /\ Launcher
\* relay: the peer is the unit's own process, and sends the command's hash.
AcceptProducer ==
    /\ launcher = "accept" /\ channel = "connected" /\ launcher' = "relay"
    /\ UNCHANGED <<stage, channel, stream, acks, relayed, output, flushed>> /\ Launcher
ProducerGone ==
    /\ launcher = "accept" /\ channel = "open" /\ unit \in {"ok", "failed"}
    /\ launcher' = "stopping"
    /\ UNCHANGED <<stage, channel, stream, acks, relayed, output, flushed>> /\ Launcher

\* relay_payload: the output takes a block, then the block is acknowledged.
RelayBlock_Unwritten ==
    /\ launcher = "relay" /\ stream # <<>> /\ Head(stream) # Flush
    /\ stream' = Tail(stream) /\ flushed' = FALSE
    /\ output' \in {output, Append(output, Head(stream))}
    /\ relayed' = Append(relayed, Head(stream)) /\ acks' = Append(acks, relayed')
    /\ UNCHANGED <<launcher, stage, channel>> /\ Launcher
RelayBlock ==
    /\ launcher = "relay" /\ stream # <<>> /\ Head(stream) # Flush
    /\ stream' = Tail(stream) /\ flushed' = FALSE
    /\ output' = Append(output, Head(stream))
    /\ relayed' = Append(relayed, Head(stream)) /\ acks' = Append(acks, relayed')
    /\ UNCHANGED <<launcher, stage, channel>> /\ Launcher
RelayFlush ==
    /\ launcher = "relay" /\ stream # <<>> /\ Head(stream) = Flush
    /\ stream' = Tail(stream) /\ flushed' = TRUE /\ acks' = Append(acks, relayed)
    /\ UNCHANGED <<launcher, stage, channel, relayed, output>> /\ Launcher
\* The end of the stream is the end of the payload only after a flush.
RelayEnds ==
    /\ launcher = "relay" /\ stream = <<>> /\ channel = "closed"
    /\ launcher' = IF flushed THEN "wait" ELSE "stopping"
    /\ UNCHANGED <<stage, channel, stream, acks, relayed, output, flushed>> /\ Launcher
\* A write to the output fails, a deadline passes or the socket breaks.
RelayFails ==
    /\ launcher \in {"accept", "relay"} /\ launcher' = "stopping"
    /\ output' \in {output} \cup {Append(output, Head(s)) : s \in {t \in {stream} : t # <<>> /\ Head(t) # Flush}}
    /\ UNCHANGED <<stage, channel, stream, acks, relayed, flushed>> /\ Launcher
\* The unit is stopped, which may not succeed in its time, and the call fails.
StopUnit ==
    /\ launcher = "stopping" /\ launcher' = "failed" /\ channel' = "gone"
    /\ unit' \in {unit, IF unit \in {"ok", "none"} THEN unit ELSE "failed"}
    /\ UNCHANGED <<stage, sent, stream, acks, relayed, output, flushed, recorded>>
WaitUnit ==
    /\ launcher = "wait" /\ channel' = "gone"
    /\ \/ unit = "ok" /\ launcher' = IF StageUnchanged THEN "ok" ELSE "failed"
       \/ launcher' = "failed"
    /\ UNCHANGED <<stage, stream, acks, relayed, output, flushed>> /\ Launcher
LauncherDies ==
    /\ launcher \notin {"idle", "ok", "failed", "dead"} /\ launcher' = "dead"
    /\ UNCHANGED <<stage, channel, stream, acks, relayed, output, flushed>> /\ Launcher
-----------------------------------------------------------------------------
(* The producer, inside the unit.                                          *)
Listening == launcher \in {"accept", "relay"}
\* capture_export_channel
CaptureChannel ==
    /\ unit = "started" /\ channel = "open" /\ Listening
    /\ unit' = "send" /\ channel' = "connected"
    /\ UNCHANGED <<sent, stream, acks, recorded>> /\ Producer
\* write, a block at a time: the grants are checked before each.
WriteBlock ==
    /\ unit = "send" /\ Len(sent) < Blocks /\ channel = "connected"
    /\ sent' = Append(sent, Len(sent) + 1) /\ stream' = Append(stream, Len(sent) + 1)
    /\ unit' = "ack"
    /\ UNCHANGED <<channel, acks, recorded>> /\ Producer
WriteFlush ==
    /\ unit = "send" /\ Len(sent) = Blocks /\ channel = "connected"
    /\ stream' = Append(stream, Flush) /\ unit' = "flush"
    /\ UNCHANGED <<channel, sent, acks, recorded>> /\ Producer
\* acknowledgement: exactly what was sent so far.
Acknowledged ==
    /\ unit \in {"ack", "flush"} /\ acks # <<>> /\ acks' = Tail(acks)
    /\ unit' = IF Head(acks) # sent THEN "broken" ELSE IF unit = "ack" THEN "send" ELSE "delivered"
    /\ UNCHANGED <<channel, sent, stream, recorded>> /\ Producer
Record ==
    /\ unit = "delivered" /\ recorded' = TRUE /\ unit' = "ok" /\ channel' = "closed"
    /\ UNCHANGED <<sent, stream, acks>> /\ Producer
\* A refused grant, a time-out or a broken socket ends the producer.
ProducerFails ==
    /\ unit \in {"started", "send", "ack", "flush", "broken", "delivered"} /\ unit' = "failed"
    /\ channel' = IF channel = "connected" THEN "closed" ELSE channel
    /\ UNCHANGED <<sent, stream, acks, recorded>> /\ Producer
StageChanges ==
    /\ stage = "whole" /\ stage' = "changed" /\ launcher \notin {"ok", "failed", "dead"}
    /\ UNCHANGED <<launcher, channel, stream, acks, relayed, output, flushed>> /\ Launcher
-----------------------------------------------------------------------------
RelayNext ==
    \/ Launch
    \/ CaptureInput
    \/ StartUnit
    \/ Refuse
    \/ AcceptProducer
    \/ ProducerGone
    \/ RelayBlock
    \/ RelayFlush
    \/ RelayEnds
    \/ RelayFails
    \/ StopUnit
    \/ WaitUnit
    \/ LauncherDies
    \/ CaptureChannel
    \/ WriteBlock
    \/ WriteFlush
    \/ Acknowledged
    \/ Record
    \/ ProducerFails
    \/ StageChanges
RelaySpec == RelayInit /\ [][RelayNext]_relayVars
-----------------------------------------------------------------------------
\* An export recorded as delivered, or reported as such by the launcher, has had
\* every block taken by the caller's output, once and in order, and flushed.
RecordedIsDelivered ==
    recorded \/ launcher = "ok" => output = [k \in 1..Blocks |-> k] /\ flushed
=============================================================================
