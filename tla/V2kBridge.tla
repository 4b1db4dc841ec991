------------------------------ MODULE V2kBridge ------------------------------
(***************************************************************************)
(* connector/mqtt/vernemq/v2k-bridge: an MQTT client takes the messages of *)
(* devices from VerneMQ into a queue, looks the device of each up and      *)
(* produces it to Kafka.  A queue over its limit ends the connection, an   *)
(* empty one and the health check of Kafka reconnect it.                   *)
(***************************************************************************)
EXTENDS Naturals, Sequences, FiniteSets

CONSTANTS
    Publications,   \* messages devices publish
    MaxQueue,       \* backpressure.queue.length.max, in messages
    MaxBreaks       \* lost connections, client errors and outages of Kafka

ASSUME V2kAssumption == MaxQueue \in Nat /\ MaxBreaks \in Nat

VARIABLES
    broker,         \* VerneMQ: "new", "inflight", "again" (dup set), "acked"
    link,           \* the MQTT connection: "up", "closing" (close event due), "down"
    retry,          \* the MQTT library will connect again
    isConnected,
    queue,          \* messageQueue; currentMessageQueueLength counts its messages
    currentMessageQueueLength,
    lookups,        \* workers waiting for the device manager
    produced,       \* Kafka, in order
    kafkaUp, breaks,
    overdrawn       \* connections made while the queue was over its limit (history)

v2kVars == <<broker, link, retry, isConnected, queue, currentMessageQueueLength,
             lookups, produced, kafkaUp, breaks, overdrawn>>

V2kInit ==
    /\ broker = [m \in Publications |-> "new"]
    /\ link = "down" /\ retry = TRUE /\ isConnected = FALSE
    /\ queue = << >> /\ currentMessageQueueLength = 0
    /\ lookups = {} /\ produced = << >>
    /\ kafkaUp = TRUE /\ breaks = 0 /\ overdrawn = 0

-----------------------------------------------------------------------------
(* The client of the MQTT library *)

\* end(true): the socket is destroyed and no reconnection follows.
End == retry' = FALSE /\ link' = (IF link = "up" THEN "closing" ELSE link)
\* reconnect(): at once, or when what is being closed has closed.
Reconnect == retry' = TRUE /\ link' = (IF link = "up" THEN "closing" ELSE link)
Undelivered == [m \in Publications |-> IF broker[m] = "inflight" THEN "again" ELSE broker[m]]

\* 'connect': onConnect.
OnConnect ==
    /\ link = "down" /\ retry
    /\ link' = "up"
    /\ isConnected' = TRUE
    /\ overdrawn' = IF currentMessageQueueLength > MaxQueue THEN overdrawn + 1 ELSE overdrawn
    /\ UNCHANGED <<broker, retry, queue, currentMessageQueueLength, lookups, produced, kafkaUp, breaks>>

\* 'close': onClose.  What the broker had under way it will send again.
OnClose ==
    /\ link = "closing"
    /\ link' = "down"
    /\ isConnected' = FALSE
    /\ broker' = Undelivered
    /\ UNCHANGED <<retry, queue, currentMessageQueueLength, lookups, produced, kafkaUp, breaks, overdrawn>>

Break == breaks < MaxBreaks /\ breaks' = breaks + 1

Drops ==
    /\ Break
    /\ link = "up"
    /\ link' = "closing"
    /\ UNCHANGED <<broker, retry, isConnected, queue, currentMessageQueueLength, lookups, produced, kafkaUp, overdrawn>>

\* 'error': onError, which leaves the connection as it is.
OnError ==
    /\ Break
    /\ isConnected' = FALSE
    /\ UNCHANGED <<broker, link, retry, queue, currentMessageQueueLength, lookups, produced, kafkaUp, overdrawn>>

-----------------------------------------------------------------------------
(* Messages *)

BrokerSends(m) ==
    /\ link = "up"
    /\ broker[m] = "new"
    /\ broker' = [broker EXCEPT ![m] = "inflight"]
    /\ UNCHANGED <<link, retry, isConnected, queue, currentMessageQueueLength, lookups, produced,
                   kafkaUp, breaks, overdrawn>>

\* Mutant: an overfull queue does not end the connection.
ReceivesMore(m, taken) ==
    /\ queue' = IF taken THEN Append(queue, m) ELSE queue
    /\ currentMessageQueueLength' = currentMessageQueueLength + (IF taken THEN 1 ELSE 0)
    /\ UNCHANGED <<link, retry, isConnected>>

\* onMessage takes m into the queue if it does, and may end the connection.
Receives(m, taken) ==
    /\ queue' = IF taken THEN Append(queue, m) ELSE queue
    /\ currentMessageQueueLength' = currentMessageQueueLength + (IF taken THEN 1 ELSE 0)
    /\ IF currentMessageQueueLength' > MaxQueue
       THEN End /\ isConnected' = FALSE
       ELSE UNCHANGED <<link, retry, isConnected>>

\* Mutant: a message sent again is taken like any other.
OnMessageAgain(m) ==
    /\ link = "up"
    /\ broker[m] \in {"inflight", "again"}
    /\ \/ broker' = [broker EXCEPT ![m] = "acked"]
       \/ broker[m] = "inflight" /\ broker' = [broker EXCEPT ![m] = "again"]
    /\ Receives(m, isConnected)
    /\ UNCHANGED <<lookups, produced, kafkaUp, breaks, overdrawn>>

\* onMessage; the library acknowledges it to the broker, and if that gets lost
\* the broker sends the message again with the flag dup.
OnMessage(m) ==
    /\ link = "up"
    /\ broker[m] \in {"inflight", "again"}
    /\ \/ broker' = [broker EXCEPT ![m] = "acked"]
       \/ broker[m] = "inflight" /\ broker' = [broker EXCEPT ![m] = "again"]
    /\ Receives(m, isConnected /\ broker[m] = "inflight")
    /\ UNCHANGED <<lookups, produced, kafkaUp, breaks, overdrawn>>

\* A worker of the queue: it starts the lookup and is done at once.  With the
\* queue empty, drain reconnects a client that is not connected.
Works ==
    /\ queue # << >>
    /\ lookups' = lookups \cup {Head(queue)}
    /\ queue' = Tail(queue)
    /\ currentMessageQueueLength' = currentMessageQueueLength - 1
    /\ IF queue' = << >> /\ ~isConnected THEN Reconnect ELSE UNCHANGED <<link, retry>>
    /\ UNCHANGED <<broker, isConnected, produced, kafkaUp, breaks, overdrawn>>

\* isDeviceDisabled resolves: the message is produced, or dropped because the
\* device is disabled or unknown, the device manager or Kafka failed.
LookupEnds(m) ==
    /\ m \in lookups
    /\ lookups' = lookups \ {m}
    /\ produced' \in {produced, Append(produced, m)}
    /\ UNCHANGED <<broker, link, retry, isConnected, queue, currentMessageQueueLength, kafkaUp, breaks, overdrawn>>

-----------------------------------------------------------------------------
KafkaChanges ==
    /\ kafkaUp => Break
    /\ ~kafkaUp => UNCHANGED breaks
    /\ kafkaUp' = ~kafkaUp
    /\ UNCHANGED <<broker, link, retry, isConnected, queue, currentMessageQueueLength, lookups, produced, overdrawn>>

\* Mutant: a healthy Kafka brings nothing back.
HealthCheckOnlyEnds ==
    /\ ~kafkaUp
    /\ End
    /\ UNCHANGED <<broker, isConnected, queue, currentMessageQueueLength, lookups, produced, kafkaUp, breaks, overdrawn>>

\* healthChecker: connectOrDisconnectClient(status.connected).
HealthCheck ==
    /\ \/ kafkaUp /\ ~isConnected /\ Reconnect
       \/ ~kafkaUp /\ End
    /\ UNCHANGED <<broker, isConnected, queue, currentMessageQueueLength, lookups, produced, kafkaUp, breaks, overdrawn>>

V2kNext ==
    \/ OnConnect \/ OnClose \/ Drops \/ OnError \/ Works \/ KafkaChanges \/ HealthCheck
    \/ \E m \in Publications : BrokerSends(m) \/ OnMessage(m) \/ LookupEnds(m)

\* The event loop, the broker's accepting the client, and the timer of the
\* health check; connections, devices and Kafka owe nothing.
V2kFairness ==
    /\ WF_v2kVars(OnConnect) /\ WF_v2kVars(OnClose)
    /\ WF_v2kVars(Works) /\ WF_v2kVars(HealthCheck)

V2kSpec == V2kInit /\ [][V2kNext]_v2kVars
V2kFairSpec == V2kSpec /\ V2kFairness

-----------------------------------------------------------------------------
V2kTypeOK ==
    /\ currentMessageQueueLength = Len(queue)
    \* The limit is exceeded by the message that ended the connection, and by one more
    \* for each connection made since over it: the health check does not look at the queue.
    /\ Len(queue) <= MaxQueue + 1 + overdrawn
    /\ lookups \subseteq Publications
    /\ isConnected => link \in {"up", "closing"}

\* However often the broker sends a message again, it reaches Kafka at most
\* once (the test of packet.dup in onMessage).
ProducedOnce ==
    \A i, j \in DOMAIN produced : produced[i] = produced[j] => i = j

\* Whatever ended the connection, an overfull queue, Kafka, the broker or an
\* error, the bridge is connected in the end if Kafka stays.
BridgeRecovers == <>[]kafkaUp => <>[](isConnected /\ link = "up")
=============================================================================
