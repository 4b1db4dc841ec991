------------------------------ MODULE K2vBridge ------------------------------
(***************************************************************************)
(* connector/mqtt/vernemq/k2v-bridge: while its MQTT connection is up, a   *)
(* consumer of Kafka takes actuations and publishes them to VerneMQ.  Each *)
(* connection makes a consumer, each disconnection finishes it; both are   *)
(* awaited, and the connection does not wait for either.                   *)
(***************************************************************************)
EXTENDS Naturals, FiniteSets

CONSTANTS
    Actuations,
    NoConsumer,     \* undefined
    MaxK2vBreaks       \* lost connections and failures of Kafka

ASSUME K2vAssumption == MaxK2vBreaks \in Nat /\ NoConsumer \notin Nat

Consumers == 1..(2 * MaxK2vBreaks + 1)

VARIABLES
    k2vLink,           \* the MQTT connection: "up" or "down"
    mqttConnected,  \* MQTTClient.isConnected
    wasInitialized, consumer,           \* AgentMessenger
    created,        \* consumers made so far
    starting,       \* consumers whose init is awaited by an onConnect
    finishing,      \* consumer -> number of onClose awaiting its finish
    registered,     \* consumers that took a callback and were not finished
    kafka, published, dropped,          \* actuations
    kafkaBreaks,
    disturbed       \* a connection came or went during such a wait, or a finish failed (history)

k2vHandlers == <<starting, finishing>>
k2vMessages == <<kafka, published, dropped>>
k2vVars == <<k2vLink, mqttConnected, wasInitialized, consumer, created, starting, finishing,
             registered, kafka, published, dropped, kafkaBreaks, disturbed>>

K2vInit ==
    /\ k2vLink = "down" /\ mqttConnected = FALSE
    /\ wasInitialized = FALSE /\ consumer = NoConsumer
    /\ created = 0 /\ starting = {} /\ finishing = [c \in Consumers |-> 0] /\ registered = {}
    /\ kafka = Actuations /\ published = {} /\ dropped = {}
    /\ kafkaBreaks = 0 /\ disturbed = FALSE

Busy == starting # {} \/ \E c \in Consumers : finishing[c] > 0
Disturb == disturbed' = (disturbed \/ Busy)
K2vBreak == kafkaBreaks < MaxK2vBreaks /\ kafkaBreaks' = kafkaBreaks + 1

-----------------------------------------------------------------------------
\* 'connect': onConnect, and AgentMessenger.init up to its first await.
Connects ==
    /\ k2vLink = "down"
    /\ k2vLink' = "up"
    /\ Disturb
    /\ IF mqttConnected
       THEN UNCHANGED <<mqttConnected, consumer, created, starting>>
       ELSE IF wasInitialized
       THEN mqttConnected' = TRUE /\ UNCHANGED <<consumer, created, starting>>
       ELSE /\ created' = created + 1
            /\ consumer' = created'
            /\ starting' = starting \cup {created'}
            /\ UNCHANGED mqttConnected
    /\ UNCHANGED <<wasInitialized, finishing, registered, k2vMessages, kafkaBreaks>>

\* SIGTERM to itself; the container is started again and everything is new.
Killed ==
    /\ mqttConnected' = FALSE /\ wasInitialized' = FALSE /\ consumer' = NoConsumer
    /\ k2vLink' = "down" /\ starting' = {} /\ registered' = {}
    /\ finishing' = [c \in Consumers |-> 0]

\* consumer.init() resolved.  The callback is registered on what this.consumer
\* is by now; if that is undefined, the error kills the process.
InitEnds(c) ==
    /\ c \in starting
    /\ IF consumer = NoConsumer
       THEN Killed
       ELSE /\ registered' = registered \cup {consumer}
            /\ wasInitialized' = TRUE
            /\ mqttConnected' = TRUE
            /\ starting' = starting \ {c}
            /\ UNCHANGED <<k2vLink, consumer, finishing>>
    /\ UNCHANGED <<created, k2vMessages, kafkaBreaks, disturbed>>

\* consumer.init() rejected: killApplication.
InitFails(c) ==
    /\ c \in starting
    /\ K2vBreak
    /\ Killed
    /\ UNCHANGED <<created, k2vMessages, disturbed>>

\* Mutant: the flag is cleared before the consumer is finished.
ClosesAtOnce ==
    /\ k2vLink = "up"
    /\ K2vBreak
    /\ k2vLink' = "down"
    /\ Disturb
    /\ wasInitialized' = FALSE
    /\ mqttConnected' = FALSE
    /\ finishing' = IF consumer = NoConsumer THEN finishing ELSE [finishing EXCEPT ![consumer] = @ + 1]
    /\ UNCHANGED <<consumer, created, starting, registered, k2vMessages>>

\* 'close': onClose, and AgentMessenger.finish up to its await.  Nothing to
\* finish is an error that is caught.
Closes ==
    /\ k2vLink = "up"
    /\ K2vBreak
    /\ k2vLink' = "down"
    /\ Disturb
    /\ wasInitialized' = FALSE
    /\ IF consumer = NoConsumer
       THEN mqttConnected' = FALSE /\ UNCHANGED finishing
       ELSE finishing' = [finishing EXCEPT ![consumer] = @ + 1] /\ UNCHANGED mqttConnected
    /\ UNCHANGED <<consumer, created, starting, registered, k2vMessages>>

\* Mutant: the flag is not cleared.
FinishEndsConnected(c) ==
    /\ finishing[c] > 0
    /\ finishing' = [finishing EXCEPT ![c] = @ - 1]
    /\ registered' = registered \ {c}
    /\ consumer' = NoConsumer
    /\ UNCHANGED <<k2vLink, mqttConnected, wasInitialized, created, starting, k2vMessages, kafkaBreaks, disturbed>>

\* consumer.finish() resolved.
FinishEnds(c) ==
    /\ finishing[c] > 0
    /\ finishing' = [finishing EXCEPT ![c] = @ - 1]
    /\ registered' = registered \ {c}
    /\ consumer' = NoConsumer
    /\ mqttConnected' = FALSE
    /\ UNCHANGED <<k2vLink, wasInitialized, created, starting, k2vMessages, kafkaBreaks, disturbed>>

\* It rejected, which is caught: this.consumer stays, consuming or not.
FinishFails(c) ==
    /\ finishing[c] > 0
    /\ K2vBreak
    /\ finishing' = [finishing EXCEPT ![c] = @ - 1]
    /\ registered' \in {registered, registered \ {c}}
    /\ mqttConnected' = FALSE
    /\ disturbed' = TRUE
    /\ UNCHANGED <<k2vLink, wasInitialized, consumer, created, starting, k2vMessages>>

\* A registered consumer takes an actuation: publishMessage.
Takes(c, a) ==
    /\ c \in registered
    /\ a \in kafka
    /\ kafka' = kafka \ {a}
    /\ published' = IF mqttConnected THEN published \cup {a} ELSE published
    /\ dropped' = IF mqttConnected THEN dropped ELSE dropped \cup {a}
    /\ UNCHANGED <<k2vLink, mqttConnected, wasInitialized, consumer, created, k2vHandlers,
                   registered, kafkaBreaks, disturbed>>

K2vNext ==
    \/ Connects \/ Closes
    \/ \E c \in Consumers : InitEnds(c) \/ InitFails(c) \/ FinishEnds(c) \/ FinishFails(c)
    \/ \E c \in Consumers, a \in Actuations : Takes(c, a)

\* The broker accepts a connection again, Kafka answers or the wait is over,
\* and a consumer consumes.
K2vFairness ==
    /\ WF_k2vVars(Connects)
    /\ \A c \in Consumers : /\ WF_k2vVars(InitEnds(c)) /\ WF_k2vVars(FinishEnds(c))
                            /\ WF_k2vVars(\E a \in Actuations : Takes(c, a))

K2vSpec == K2vInit /\ [][K2vNext]_k2vVars
K2vFairSpec == K2vSpec /\ K2vFairness

-----------------------------------------------------------------------------
K2vTypeOK ==
    /\ k2vLink \in {"up", "down"}
    /\ consumer \in Consumers \cup {NoConsumer}
    /\ starting \subseteq Consumers /\ registered \subseteq Consumers
    /\ kafka \cup published \cup dropped = Actuations

\* As long as each connection and each disconnection ends its work with Kafka
\* before the next, the bridge at rest consumes exactly while it is connected, with
\* the one consumer it knows (onConnect and onClose: isConnected,
\* wasInitialized and this.consumer agree), and no actuation taken from Kafka is dropped
\* (publishMessage finds the client connected).
ConsumerFollowsConnection ==
    ~disturbed =>
        /\ dropped = {}
        /\ ~Busy => /\ (k2vLink = "up") <=> mqttConnected
                    /\ mqttConnected <=> wasInitialized
                    /\ registered = (IF mqttConnected THEN {consumer} ELSE {})

\* In that case every actuation is published in the end.
ActuationsPublished == <>[](~disturbed) => <>(kafka = {} /\ published = Actuations)

=============================================================================
