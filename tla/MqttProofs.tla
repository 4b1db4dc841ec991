----------------------------- MODULE MqttProofs -----------------------------
(***************************************************************************)
(* What the two bridges, the disconnect plugin of VerneMQ and the basic    *)
(* authentication guarantee for every number of messages, sessions,        *)
(* connections, requests and failures: a message is produced once, the     *)
(* consumer of Kafka follows the MQTT connection, a device that is         *)
(* connected has a timer that will end its session, and a device keeps its *)
(* credential while it is there.                                           *)
(***************************************************************************)
EXTENDS MCRecovery, FiniteSetTheorems, TLAPS

-----------------------------------------------------------------------------
(* Sequences without repetitions *)

Holds(q, m) == \E i \in DOMAIN q : q[i] = m
Distinct(q) == \A i, j \in DOMAIN q : q[i] = q[j] => i = j

\* A new element at the end.
LEMMA AppendKeepsDistinct ==
    ASSUME NEW S, NEW q \in Seq(S), NEW e \in S, Distinct(q), ~Holds(q, e)
    PROVE  /\ Append(q, e) \in Seq(S) /\ Distinct(Append(q, e))
           /\ \A m : Holds(Append(q, e), m) <=> Holds(q, m) \/ m = e
<1>1. /\ Append(q, e) \in Seq(S) /\ Len(Append(q, e)) = Len(q) + 1 /\ Len(q) \in Nat
      /\ DOMAIN Append(q, e) = 1..(Len(q) + 1) /\ DOMAIN q = 1..Len(q)
    OBVIOUS
<1>2. /\ \A i \in 1..Len(q) : Append(q, e)[i] = q[i]
      /\ Append(q, e)[Len(q) + 1] = e
    OBVIOUS
<1> DEFINE longer == Append(q, e)
<1> HIDE DEF longer
<1>3. Distinct(longer)
    BY <1>1, <1>2 DEF Distinct, Holds, longer
<1>4. \A m : Holds(longer, m) <=> Holds(q, m) \/ m = e
    BY <1>1, <1>2 DEF Holds, longer
<1> QED
    BY <1>1, <1>3, <1>4 DEF longer

\* The first element leaves.
LEMMA TailKeepsDistinct ==
    ASSUME NEW S, NEW q \in Seq(S), q # << >>, Distinct(q)
    PROVE  /\ Tail(q) \in Seq(S) /\ Distinct(Tail(q)) /\ Head(q) \in S /\ Holds(q, Head(q))
           /\ \A m : Holds(Tail(q), m) <=> Holds(q, m) /\ m # Head(q)
<1>1. /\ Tail(q) \in Seq(S) /\ Len(q) \in Nat /\ Len(q) > 0 /\ Len(Tail(q)) = Len(q) - 1
      /\ DOMAIN Tail(q) = 1..(Len(q) - 1) /\ DOMAIN q = 1..Len(q)
      /\ Head(q) = q[1] /\ Head(q) \in S
    OBVIOUS
<1>2. \A i \in 1..(Len(q) - 1) : Tail(q)[i] = q[i + 1]
    OBVIOUS
<1> DEFINE shorter == Tail(q)
           first == Head(q)
<1> HIDE DEF shorter, first
<1>3. Distinct(shorter)
    BY <1>1, <1>2 DEF Distinct, shorter
<1>4. ASSUME NEW m
      PROVE  Holds(shorter, m) <=> Holds(q, m) /\ m # first
    <2>1. ASSUME Holds(shorter, m)
          PROVE  Holds(q, m) /\ m # first
        <3>1. PICK i \in 1..(Len(q) - 1) : shorter[i] = m
            BY <1>1, <2>1 DEF Holds, shorter
        <3>2. i + 1 \in 1..Len(q) /\ q[i + 1] = m /\ i + 1 # 1
            BY <1>1, <1>2, <3>1 DEF shorter
        <3> QED
            BY <1>1, <3>2 DEF Distinct, Holds, first
    <2>2. ASSUME Holds(q, m), m # first
          PROVE  Holds(shorter, m)
        <3>1. PICK i \in 1..Len(q) : q[i] = m
            BY <1>1, <2>2 DEF Holds
        <3>2. i - 1 \in 1..(Len(q) - 1) /\ (i - 1) + 1 = i
            BY <1>1, <2>2, <3>1 DEF first
        <3> QED
            BY <1>1, <1>2, <3>1, <3>2 DEF Holds, shorter
    <2> QED
        BY <2>1, <2>2
<1>5. Holds(q, first)
    BY <1>1 DEF Holds, first
<1> QED
    BY <1>1, <1>3, <1>4, <1>5 DEF shorter, first

-----------------------------------------------------------------------------
(* v2k-bridge *)

\* What the bridge has of a message that has not been lost.
Has(m) == Holds(queue, m) \/ m \in lookups \/ Holds(produced, m)

\* A message is in one place of the bridge, once; the broker may send one that is there
\* already, but only with the flag dup.
V2kInv ==
    /\ broker \in [Publications -> {"new", "inflight", "again", "acked"}]
    /\ queue \in Seq(Publications) /\ produced \in Seq(Publications) /\ lookups \subseteq Publications
    /\ Distinct(queue) /\ Distinct(produced)
    /\ \A m \in Publications :
        /\ broker[m] \in {"new", "inflight"} => ~Has(m)
        /\ Holds(queue, m) => m \notin lookups /\ ~Holds(produced, m)
        /\ m \in lookups => ~Holds(produced, m)

LEMMA V2kInvInit == V2kInit => V2kInv
BY DEF V2kInit, V2kInv, Has, Holds, Distinct

\* The messages of the bridge are what they were.
LEMMA V2kInvKept ==
    ASSUME V2kInv, UNCHANGED <<queue, lookups, produced>>,
           broker' \in [Publications -> {"new", "inflight", "again", "acked"}],
           \A m \in Publications : broker'[m] \in {"new", "inflight"} => broker[m] \in {"new", "inflight"}
    PROVE  V2kInv'
BY DEF V2kInv, Has

LEMMA OnMessageInv ==
    ASSUME V2kInv, NEW m \in Publications, OnMessage(m)
    PROVE  V2kInv'
<1>1. /\ broker' \in [Publications -> {"new", "inflight", "again", "acked"}]
      /\ broker'[m] \in {"again", "acked"} /\ \A o \in Publications \ {m} : broker'[o] = broker[o]
      /\ UNCHANGED <<lookups, produced>>
    BY DEF V2kInv, OnMessage
<1>2. CASE queue' = queue
    BY <1>1, <1>2, V2kInvKept
<1>3. CASE queue' = Append(queue, m) /\ broker[m] = "inflight"
    <2>1. ~Holds(queue, m) /\ m \notin lookups /\ ~Holds(produced, m)
        BY <1>3 DEF V2kInv, Has
    <2>2. /\ queue' \in Seq(Publications) /\ Distinct(queue')
          /\ \A o : Holds(queue', o) <=> Holds(queue, o) \/ o = m
        BY <1>3, <2>1, AppendKeepsDistinct DEF V2kInv
    <2> QED
        BY <1>1, <2>1, <2>2 DEF V2kInv, Has
<1> QED
    BY <1>2, <1>3 DEF OnMessage, Receives

LEMMA WorksInv ==
    ASSUME V2kInv, Works
    PROVE  V2kInv'
<1>1. /\ queue # << >> /\ queue' = Tail(queue) /\ lookups' = lookups \cup {Head(queue)}
      /\ UNCHANGED <<broker, produced>>
    BY DEF Works
<1>2. /\ queue' \in Seq(Publications) /\ Distinct(queue') /\ Head(queue) \in Publications
      /\ Holds(queue, Head(queue))
      /\ \A m : Holds(queue', m) <=> Holds(queue, m) /\ m # Head(queue)
    BY <1>1, TailKeepsDistinct DEF V2kInv
<1> QED
    BY <1>1, <1>2 DEF V2kInv, Has

LEMMA LookupEndsInv ==
    ASSUME V2kInv, NEW m \in Publications, LookupEnds(m)
    PROVE  V2kInv'
<1>1. m \in lookups /\ lookups' = lookups \ {m} /\ UNCHANGED <<broker, queue>>
    BY DEF LookupEnds
<1>2. CASE produced' = produced
    BY <1>1, <1>2 DEF V2kInv, Has
<1>3. CASE produced' = Append(produced, m)
    <2>1. ~Holds(produced, m) /\ ~Holds(queue, m)
        BY <1>1 DEF V2kInv
    <2>2. /\ produced' \in Seq(Publications) /\ Distinct(produced')
          /\ \A o : Holds(produced', o) <=> Holds(produced, o) \/ o = m
        BY <1>3, <2>1, AppendKeepsDistinct DEF V2kInv
    <2> QED
        BY <1>1, <2>1, <2>2 DEF V2kInv, Has
<1> QED
    BY <1>2, <1>3 DEF LookupEnds

LEMMA V2kInvStep == V2kInv /\ [V2kNext]_v2kVars => V2kInv'
<1> SUFFICES ASSUME V2kInv, [V2kNext]_v2kVars
             PROVE  V2kInv'
    OBVIOUS
<1>1. CASE OnConnect \/ Drops \/ OnError \/ KafkaChanges \/ HealthCheck \/ UNCHANGED v2kVars
    <2>1. UNCHANGED <<broker, queue, lookups, produced>>
        BY <1>1 DEF OnConnect, Drops, OnError, KafkaChanges, HealthCheck, v2kVars
    <2> QED
        BY <2>1, V2kInvKept DEF V2kInv
<1>2. CASE OnClose
    BY <1>2, V2kInvKept DEF OnClose, Undelivered, V2kInv
<1>3. ASSUME NEW m \in Publications, BrokerSends(m)
      PROVE  V2kInv'
    BY <1>3, V2kInvKept DEF BrokerSends, V2kInv
<1>4. ASSUME NEW m \in Publications, OnMessage(m) \/ LookupEnds(m)
      PROVE  V2kInv'
    BY <1>4, OnMessageInv, LookupEndsInv
<1>5. CASE Works
    BY <1>5, WorksInv
<1> QED
    BY <1>1, <1>2, <1>3, <1>4, <1>5 DEF V2kNext

LEMMA ProducedOnceKept == V2kInv => ProducedOnce
BY DEF V2kInv, Distinct, ProducedOnce

\* However often the broker sends a message again, and wherever it is in the bridge by then,
\* it is produced to Kafka at most once.
THEOREM MessagesProducedOnce == V2kSpec => []ProducedOnce
BY ProducedOnceKept, V2kInvInit, V2kInvStep, PTL DEF V2kSpec

-----------------------------------------------------------------------------
(* v2k-bridge: its queue *)

\* A connection may be up with a queue over its limit only if it was made so; then the next
\* message, taken or not, ends it.
QueueInv ==
    /\ overdrawn \in Nat /\ link \in {"up", "closing", "down"}
    /\ currentMessageQueueLength = Len(queue)
    /\ Len(queue) <= MaxQueue + 1 + overdrawn
    /\ link = "up" => Len(queue) <= MaxQueue + overdrawn
    /\ isConnected => link \in {"up", "closing"}

LEMMA QueueInvInit == V2kInit => QueueInv
BY V2kAssumption DEF V2kInit, QueueInv

LEMMA QueueInvStep == V2kInv /\ QueueInv /\ [V2kNext]_v2kVars => QueueInv'
<1> SUFFICES ASSUME V2kInv, QueueInv, [V2kNext]_v2kVars
             PROVE  QueueInv'
    OBVIOUS
<1> USE V2kAssumption
<1>1. CASE OnConnect
    BY <1>1 DEF OnConnect, QueueInv, V2kInv
<1>2. CASE OnClose \/ Drops \/ OnError \/ KafkaChanges \/ UNCHANGED v2kVars
    BY <1>2 DEF OnClose, Drops, OnError, KafkaChanges, v2kVars, QueueInv
<1>3. CASE HealthCheck
    BY <1>3 DEF HealthCheck, Reconnect, End, QueueInv
<1>4. CASE Works
    <2>1. /\ queue # << >> /\ queue' = Tail(queue) /\ currentMessageQueueLength' = currentMessageQueueLength - 1
          /\ UNCHANGED <<isConnected, overdrawn>>
          /\ link' = link \/ (link = "up" /\ link' = "closing")
        BY <1>4 DEF Works, Reconnect
    <2>2. Len(queue) \in Nat /\ Len(queue') = Len(queue) - 1
        BY <2>1 DEF V2kInv
    <2> QED
        BY <2>1, <2>2 DEF QueueInv
<1>5. ASSUME NEW m \in Publications, OnMessage(m)
      PROVE  QueueInv'
    <2>1. link = "up" /\ UNCHANGED overdrawn
        BY <1>5 DEF OnMessage
    <2>2. PICK taken \in BOOLEAN : taken = (isConnected /\ broker[m] = "inflight") /\ Receives(m, taken)
        BY <1>5 DEF OnMessage
    <2>3. /\ Len(queue) \in Nat
          /\ Len(queue') = Len(queue) + (IF taken THEN 1 ELSE 0)
          /\ currentMessageQueueLength' = Len(queue')
        BY <2>2 DEF Receives, V2kInv, QueueInv
    <2>4. CASE currentMessageQueueLength' > MaxQueue
        BY <2>1, <2>2, <2>3, <2>4 DEF Receives, End, QueueInv
    <2>5. CASE ~(currentMessageQueueLength' > MaxQueue)
        BY <2>1, <2>2, <2>3, <2>5 DEF Receives, QueueInv
    <2> QED
        BY <2>4, <2>5
<1>6. ASSUME NEW m \in Publications, BrokerSends(m) \/ LookupEnds(m)
      PROVE  QueueInv'
    BY <1>6 DEF BrokerSends, LookupEnds, QueueInv
<1> QED
    BY <1>1, <1>2, <1>3, <1>4, <1>5, <1>6 DEF V2kNext

\* The queue exceeds its limit by the message that ended the connection, and by one more for
\* each connection made since over the limit (onMessage, healthChecker).
THEOREM V2kTypeCorrect == V2kSpec => []V2kTypeOK
<1>1. V2kInv /\ QueueInv => V2kTypeOK
    BY DEF V2kInv, QueueInv, V2kTypeOK
<1> QED
    BY <1>1, V2kInvInit, V2kInvStep, QueueInvInit, QueueInvStep, PTL DEF V2kSpec

-----------------------------------------------------------------------------
(* k2v-bridge *)

NoneFinishes == \A c \in Consumers : finishing[c] = 0

\* Between two changes of the connection ...
AtRest ==
    /\ starting = {} /\ NoneFinishes
    /\ (k2vLink = "up" <=> mqttConnected) /\ (mqttConnected <=> wasInitialized)
    /\ IF mqttConnected THEN consumer \in Consumers /\ registered = {consumer} ELSE registered = {}

\* ... while onConnect awaits the consumer it made ...
Starting ==
    /\ k2vLink = "up" /\ ~mqttConnected /\ ~wasInitialized
    /\ consumer \in Consumers /\ starting = {consumer} /\ NoneFinishes
    /\ registered = {}

\* ... and while onClose awaits the end of the consumer, which still takes actuations.
Finishing ==
    /\ k2vLink = "down" /\ mqttConnected /\ ~wasInitialized
    /\ consumer \in Consumers /\ starting = {}
    /\ finishing = [c \in Consumers |-> IF c = consumer THEN 1 ELSE 0]
    /\ registered = {consumer}

\* Undisturbed, the bridge is in one of the three, and each new consumer was paid for by a
\* connection that broke.
K2vInv ==
    /\ created \in Nat /\ kafkaBreaks \in 0..MaxK2vBreaks /\ k2vLink \in {"up", "down"}
    /\ finishing \in [Consumers -> Nat]
    /\ ~disturbed =>
        /\ dropped = {}
        /\ created <= kafkaBreaks + (IF k2vLink = "up" THEN 1 ELSE 0)
        /\ AtRest \/ Starting \/ Finishing

LEMMA K2vInvInit == K2vInit => K2vInv
<1> SUFFICES ASSUME K2vInit
             PROVE  K2vInv
    OBVIOUS
<1>1. AtRest
    BY DEF K2vInit, AtRest, NoneFinishes
<1> QED
    BY <1>1, K2vAssumption DEF K2vInit, K2vInv

\* A connection or a disconnection of a busy bridge disturbs it.
LEMMA NotBusy ==
    ASSUME K2vInv, Disturb, ~disturbed'
    PROVE  ~disturbed /\ AtRest
<1>1. ~disturbed /\ ~Busy
    BY Zenon DEF Disturb
<1>2. ~Starting
    BY <1>1 DEF Busy, Starting
<1>3. ~Finishing
    BY <1>1 DEF Busy, Finishing
<1> QED
    BY <1>1, <1>2, <1>3 DEF K2vInv

LEMMA ConnectsInv ==
    ASSUME K2vInv, Connects
    PROVE  K2vInv'
<1>1. /\ k2vLink = "down" /\ k2vLink' = "up" /\ Disturb
      /\ UNCHANGED <<wasInitialized, finishing, registered, dropped, kafkaBreaks>>
    BY DEF Connects, k2vMessages
<1>2. created' \in {created, created + 1}
    BY DEF Connects
<1>3. ASSUME ~disturbed'
      PROVE  /\ dropped' = {} /\ created' <= kafkaBreaks' + 1
             /\ Starting'
    <2>1. ~disturbed /\ AtRest
        BY <1>1, <1>3, NotBusy
    <2>2. ~mqttConnected /\ ~wasInitialized /\ registered = {} /\ created <= kafkaBreaks /\ dropped = {}
        BY <1>1, <2>1 DEF AtRest, K2vInv
    <2>3. created' = created + 1 /\ consumer' = created + 1 /\ starting' = {created + 1} /\ ~mqttConnected'
        BY <2>1, <2>2 DEF Connects, AtRest
    <2>4. created + 1 \in Consumers /\ created' <= kafkaBreaks' + 1
        BY <1>1, <2>2, <2>3, K2vAssumption DEF K2vInv, Consumers
    <2> QED
        BY <1>1, <2>1, <2>2, <2>3, <2>4 DEF AtRest, Starting, NoneFinishes
<1> QED
    BY <1>1, <1>2, <1>3 DEF K2vInv

LEMMA ClosesInv ==
    ASSUME K2vInv, Closes
    PROVE  K2vInv'
<1>1. /\ k2vLink = "up" /\ k2vLink' = "down" /\ Disturb /\ kafkaBreaks' = kafkaBreaks + 1
      /\ kafkaBreaks < MaxK2vBreaks /\ wasInitialized' = FALSE
      /\ UNCHANGED <<consumer, created, starting, registered, dropped>>
    BY DEF Closes, k2vMessages, K2vBreak
<1>2. finishing' \in [Consumers -> Nat] /\ kafkaBreaks' \in 0..MaxK2vBreaks
    BY <1>1, K2vAssumption DEF Closes, K2vInv
<1>3. ASSUME ~disturbed'
      PROVE  /\ dropped' = {} /\ created' <= kafkaBreaks'
             /\ Finishing'
    <2>1. ~disturbed /\ AtRest
        BY <1>1, <1>3, NotBusy
    <2>2. /\ mqttConnected /\ consumer \in Consumers /\ registered = {consumer} /\ starting = {}
          /\ created <= kafkaBreaks + 1 /\ dropped = {}
        BY <1>1, <2>1 DEF AtRest, K2vInv
    <2>3. consumer # NoConsumer
        BY <2>2, K2vAssumption DEF Consumers
    <2>4. finishing' = [finishing EXCEPT ![consumer] = @ + 1] /\ mqttConnected'
        BY <2>2, <2>3 DEF Closes
    <2>5. finishing' = [c \in Consumers |-> IF c = consumer THEN 1 ELSE 0]
        <3>1. \A c \in Consumers : finishing[c] = 0
            BY <2>1 DEF AtRest, NoneFinishes
        <3>2. finishing' \in [Consumers -> Nat]
            BY <1>2
        <3>3. \A c \in Consumers : finishing'[c] = IF c = consumer THEN 1 ELSE 0
            BY <2>2, <2>4, <3>1 DEF K2vInv
        <3> QED
            BY <3>2, <3>3
    <2> QED
        BY <1>1, <2>2, <2>4, <2>5 DEF Finishing, K2vInv
<1> QED
    BY <1>1, <1>2, <1>3 DEF K2vInv

LEMMA InitEndsInv ==
    ASSUME K2vInv, NEW c \in Consumers, InitEnds(c)
    PROVE  K2vInv'
<1>1. c \in starting /\ UNCHANGED <<created, dropped, kafkaBreaks, disturbed>>
    BY DEF InitEnds, k2vMessages
<1>2. finishing' \in [Consumers -> Nat] /\ k2vLink' \in {"up", "down"}
    BY DEF InitEnds, Killed, K2vInv
<1>3. ASSUME ~disturbed
      PROVE  AtRest' /\ k2vLink' = k2vLink
    <2>1. Starting
        BY <1>1, <1>3 DEF K2vInv, AtRest, Finishing
    <2>2. consumer # NoConsumer
        BY <2>1, K2vAssumption DEF Starting, Consumers
    <2> QED
        BY <1>1, <2>1, <2>2 DEF InitEnds, Starting, AtRest, NoneFinishes
<1> QED
    BY <1>1, <1>2, <1>3 DEF K2vInv

LEMMA InitFailsInv ==
    ASSUME K2vInv, NEW c \in Consumers, InitFails(c)
    PROVE  K2vInv'
<1>1. /\ c \in starting /\ Killed /\ kafkaBreaks' = kafkaBreaks + 1 /\ kafkaBreaks < MaxK2vBreaks
      /\ UNCHANGED <<created, dropped, disturbed>>
    BY DEF InitFails, K2vBreak, k2vMessages
<1>2. AtRest'
    BY <1>1 DEF Killed, AtRest, NoneFinishes
<1> QED
    BY <1>1, <1>2, K2vAssumption DEF K2vInv, Killed

LEMMA FinishesInv ==
    ASSUME K2vInv, NEW c \in Consumers, FinishEnds(c) \/ FinishFails(c)
    PROVE  K2vInv'
<1>1. /\ finishing[c] > 0 /\ finishing' = [finishing EXCEPT ![c] = @ - 1]
      /\ UNCHANGED <<k2vLink, created, dropped>>
    BY DEF FinishEnds, FinishFails, k2vMessages
<1>2. finishing' \in [Consumers -> Nat]
    BY <1>1 DEF K2vInv
<1>3. kafkaBreaks' \in 0..MaxK2vBreaks
    BY K2vAssumption DEF FinishEnds, FinishFails, K2vBreak, K2vInv
<1>4. ASSUME ~disturbed'
      PROVE  ~disturbed /\ AtRest' /\ UNCHANGED kafkaBreaks
    <2>1. FinishEnds(c) /\ ~disturbed
        BY <1>4 DEF FinishEnds, FinishFails
    <2>2. Finishing
        BY <1>1, <2>1 DEF K2vInv, AtRest, Starting, NoneFinishes
    <2>3. c = consumer
        BY <1>1, <2>2 DEF Finishing
    <2>4. NoneFinishes'
        BY <1>1, <2>2, <2>3 DEF Finishing, NoneFinishes
    <2> QED
        BY <2>1, <2>2, <2>3, <2>4 DEF FinishEnds, Finishing, AtRest
<1> QED
    BY <1>1, <1>2, <1>3, <1>4 DEF K2vInv

\* Only a consumer of a connected bridge takes actuations.
LEMMA TakesInv ==
    ASSUME K2vInv, NEW c \in Consumers, NEW a \in Actuations, Takes(c, a)
    PROVE  K2vInv'
<1>1. /\ c \in registered /\ dropped' = (IF mqttConnected THEN dropped ELSE dropped \cup {a})
      /\ UNCHANGED <<k2vLink, mqttConnected, wasInitialized, consumer, created, starting, finishing,
                     registered, kafkaBreaks, disturbed>>
    BY DEF Takes, k2vHandlers
<1>2. ~disturbed => mqttConnected
    BY <1>1 DEF K2vInv, AtRest, Starting, Finishing
<1> QED
    BY <1>1, <1>2 DEF K2vInv, AtRest, Starting, Finishing, NoneFinishes

LEMMA K2vInvStep == K2vInv /\ [K2vNext]_k2vVars => K2vInv'
<1> SUFFICES ASSUME K2vInv, [K2vNext]_k2vVars
             PROVE  K2vInv'
    OBVIOUS
<1>1. CASE Connects
    BY <1>1, ConnectsInv
<1>2. CASE Closes
    BY <1>2, ClosesInv
<1>3. ASSUME NEW c \in Consumers, InitEnds(c) \/ InitFails(c)
      PROVE  K2vInv'
    BY <1>3, InitEndsInv, InitFailsInv
<1>4. ASSUME NEW c \in Consumers, FinishEnds(c) \/ FinishFails(c)
      PROVE  K2vInv'
    BY <1>4, FinishesInv
<1>5. ASSUME NEW c \in Consumers, NEW a \in Actuations, Takes(c, a)
      PROVE  K2vInv'
    BY <1>5, TakesInv
<1>6. CASE UNCHANGED k2vVars
    BY <1>6 DEF k2vVars, k2vHandlers, k2vMessages, K2vInv, AtRest, Starting, Finishing, NoneFinishes
<1> QED
    BY <1>1, <1>2, <1>3, <1>4, <1>5, <1>6 DEF K2vNext

LEMMA ConsumerKept ==
    K2vInv => ConsumerFollowsConnection
<1> SUFFICES ASSUME K2vInv, ~disturbed
             PROVE  /\ dropped = {}
                    /\ ~Busy => /\ (k2vLink = "up") <=> mqttConnected
                                /\ mqttConnected <=> wasInitialized
                                /\ registered = (IF mqttConnected THEN {consumer} ELSE {})
    BY DEF ConsumerFollowsConnection
<1>1. ASSUME ~Busy
      PROVE  AtRest
    <2>1. ~Starting /\ ~Finishing
        BY <1>1 DEF Busy, Starting, Finishing
    <2> QED
        BY <2>1 DEF K2vInv
<1>2. dropped = {}
    BY DEF K2vInv
<1> QED
    BY <1>1, <1>2 DEF AtRest

\* As long as connections leave the bridge the time to work them off, it consumes exactly while
\* it is connected, with the consumer it knows, and drops nothing.
THEOREM ConsumerIsKept == K2vSpec => []ConsumerFollowsConnection
BY ConsumerKept, K2vInvInit, K2vInvStep, PTL DEF K2vSpec

\* A death of the process that has still to come: an end is awaited that leaves no consumer, or
\* has left none to the connection that awaits its own.
Owed == (\E c \in Consumers : finishing[c] > 0) \/ (starting # {} /\ consumer = NoConsumer)

\* Disturbed or not, a break pays for two consumers: that of the next connection, and that of
\* the one after the death it may lead to.
ConsumersInv ==
    /\ consumer \in Consumers \cup {NoConsumer}
    /\ starting \subseteq Consumers /\ registered \subseteq Consumers
    /\ created + (IF k2vLink = "up" THEN 0 ELSE 1) + (IF Owed THEN 1 ELSE 0) <= 2 * kafkaBreaks + 1
    /\ kafka \cup published \cup dropped = Actuations

LEMMA ConsumersInvInit == K2vInit => ConsumersInv
BY K2vAssumption DEF K2vInit, ConsumersInv, Owed

LEMMA ConsumersInvStep == K2vInv /\ ConsumersInv /\ [K2vNext]_k2vVars => ConsumersInv'
<1> SUFFICES ASSUME K2vInv, ConsumersInv, [K2vNext]_k2vVars
             PROVE  ConsumersInv'
    OBVIOUS
<1> USE K2vAssumption DEF k2vMessages, k2vHandlers
<1>0. created \in Nat /\ kafkaBreaks \in Nat /\ kafkaBreaks <= MaxK2vBreaks /\ k2vLink \in {"up", "down"}
    BY DEF K2vInv
<1>1. CASE Connects
    <2>1. CASE created' = created
        <3>1. Owed' = Owed
            BY <1>1, <2>1, <1>0 DEF Connects, Owed
        <3> QED
            BY <1>0, <1>1, <2>1, <3>1 DEF Connects, ConsumersInv
    <2>2. CASE created' = created + 1 /\ consumer' = created' /\ starting' = starting \cup {created'}
        <3>1. k2vLink = "down" /\ k2vLink' = "up" /\ UNCHANGED <<finishing, registered, kafka, published, dropped, kafkaBreaks>>
            BY <1>1 DEF Connects
        <3>2. created' \in Consumers
            BY <1>0, <2>2, <3>1 DEF ConsumersInv, Consumers
        <3>3. Owed' => Owed
            BY <2>2, <3>1, <3>2 DEF Owed, Consumers
        <3> QED
            BY <1>0, <2>2, <3>1, <3>2, <3>3 DEF ConsumersInv
    <2> QED
        BY <1>1, <2>1, <2>2 DEF Connects
<1>2. CASE Closes
    BY <1>0, <1>2 DEF Closes, K2vBreak, ConsumersInv
<1>3. ASSUME NEW c \in Consumers, InitEnds(c)
      PROVE  ConsumersInv'
    <2>1. CASE consumer = NoConsumer
        <3>1. Owed /\ ~Owed'
            BY <1>3, <2>1 DEF InitEnds, Killed, Owed
        <3> QED
            BY <1>0, <1>3, <2>1, <3>1 DEF InitEnds, Killed, ConsumersInv
    <2>2. CASE consumer # NoConsumer
        <3>1. Owed' => Owed
            BY <1>3, <2>2 DEF InitEnds, Owed
        <3> QED
            BY <1>0, <1>3, <2>2, <3>1 DEF InitEnds, ConsumersInv
    <2> QED
        BY <2>1, <2>2
<1>4. ASSUME NEW c \in Consumers, InitFails(c)
      PROVE  ConsumersInv'
    BY <1>0, <1>4 DEF InitFails, Killed, K2vBreak, ConsumersInv
<1>5. ASSUME NEW c \in Consumers, FinishEnds(c)
      PROVE  ConsumersInv'
    <2>1. Owed
        BY <1>5 DEF FinishEnds, Owed
    <2> QED
        BY <1>0, <1>5, <2>1 DEF FinishEnds, ConsumersInv
<1>6. ASSUME NEW c \in Consumers, FinishFails(c)
      PROVE  ConsumersInv'
    BY <1>0, <1>6 DEF FinishFails, K2vBreak, ConsumersInv
<1>7. ASSUME NEW c \in Consumers, NEW a \in Actuations, Takes(c, a)
      PROVE  ConsumersInv'
    <2>1. Owed' = Owed
        BY <1>7 DEF Takes, Owed
    <2> QED
        BY <1>0, <1>7, <2>1 DEF Takes, ConsumersInv
<1>8. CASE UNCHANGED k2vVars
    BY <1>8 DEF k2vVars, ConsumersInv, Owed
<1> QED
    BY <1>1, <1>2, <1>3, <1>4, <1>5, <1>6, <1>7, <1>8 DEF K2vNext

\* However connections, disconnections and deaths of the process cross, the consumers in use are
\* among those 2 * MaxK2vBreaks + 1, and every actuation is in Kafka, published or dropped.
THEOREM K2vTypeCorrect == K2vSpec => []K2vTypeOK
<1>1. K2vInv /\ ConsumersInv => K2vTypeOK
    BY DEF K2vInv, ConsumersInv, K2vTypeOK
<1> QED
    BY <1>1, K2vInvInit, K2vInvStep, ConsumersInvInit, ConsumersInvStep, PTL DEF K2vSpec

-----------------------------------------------------------------------------
(* dojot_disconnect_plugin *)

\* No timer is of a session to come.
TimersInv == \A c \in Clients : \A t \in timers[c] : t <= sessions

\* Until a session of the client is taken over, the table names its only timer.
UntakenInv(c) ==
    c \notin takenOver =>
        IF c \in DojotUsers /\ mqttSession[c] # None
        THEN timers[c] = {mqttSession[c]} /\ ets[c] = mqttSession[c]
        ELSE timers[c] = {} /\ ets[c] = None

DisconnectInv ==
    /\ mqttSession \in [Clients -> Nat] /\ ets \in [Clients -> Nat] /\ timers \in [Clients -> SUBSET Nat]
    /\ sessions \in Nat
    /\ TimersInv
    /\ \A c \in Clients : UntakenInv(c)
    /\ TimersFollowSessions

LEMMA DisconnectInvInit == DisconnectInit => DisconnectInv
BY DisconnectAssumption DEF DisconnectInit, DisconnectInv, TimersInv, UntakenInv, TimersFollowSessions, None

LEMMA DisconnectInvStep == DisconnectInv /\ [DisconnectNext]_disconnectVars => DisconnectInv'
<1> SUFFICES ASSUME DisconnectInv, [DisconnectNext]_disconnectVars
             PROVE  DisconnectInv'
    OBVIOUS
<1> USE DisconnectAssumption DEF DisconnectInv, Stored, Table, None
<1>1. ASSUME NEW c \in Clients, Starts(c)
      PROVE  DisconnectInv'
    <2>1. \A o \in Clients : UntakenInv(o)'
        BY <1>1 DEF Starts, New, Registered, UntakenInv
    <2> QED
        <3>1. \A o \in DojotUsers : mqttSession'[o] # None => timers'[o] # {}
            BY <1>1 DEF Starts, New, Registered, TimersFollowSessions
        <3>2. sessions' \in Nat /\ mqttSession' \in [Clients -> Nat] /\ UNCHANGED <<early, takenOver>>
            BY <1>1 DEF Starts, New
        <3>3. ets' \in [Clients -> Nat]
            BY <1>1, <3>2 DEF Starts, Registered
        <3>4. timers' \in [Clients -> SUBSET Nat]
            BY <1>1, <3>2 DEF Starts, Registered
        <3>6. TimersInv'
            BY <1>1 DEF Starts, Registered, New, TimersInv
        <3>5. TimersFollowSessions'
            BY <3>1, <3>2 DEF TimersFollowSessions
        <3> QED
            BY <2>1, <3>2, <3>3, <3>4, <3>5, <3>6
<1>2. ASSUME NEW c \in Clients, TakesOver(c)
      PROVE  DisconnectInv'
    <2>1. \A o \in Clients : UntakenInv(o)'
        BY <1>2 DEF TakesOver, New, UntakenInv
    <2> QED
        <3>1. \A o \in DojotUsers : mqttSession'[o] # None => timers'[o] # {}
            <4>1. /\ timers' = [timers EXCEPT ![c] = timers'[c]]
                  /\ mqttSession' = [mqttSession EXCEPT ![c] = sessions + 1]
                BY <1>2 DEF TakesOver, New
            <4>2. ASSUME c \in DojotUsers
                  PROVE  timers'[c] # {}
                <5>1. timers[c] # {} /\ sessions + 1 \notin timers[c]
                    BY <1>2, <4>2 DEF TakesOver, TimersFollowSessions, TimersInv
                <5>2. \/ sessions + 1 \in timers'[c]
                      \/ timers'[c] = (timers[c] \cup {sessions + 1}) \ {sessions + 1}
                    BY <1>2, <4>2 DEF TakesOver, New, Registered, Gone
                <5> QED
                    BY <5>1, <5>2
            <4> QED
                BY <4>1, <4>2 DEF TimersFollowSessions
        <3>2. sessions' \in Nat /\ mqttSession' \in [Clients -> Nat] /\ early' \subseteq takenOver'
            BY <1>2 DEF TakesOver, New, TimersFollowSessions
        <3>3. ets' \in [Clients -> Nat]
            BY <1>2, <3>2 DEF TakesOver, New, Registered, Gone
        <3>4. timers' \in [Clients -> SUBSET Nat]
            BY <1>2, <3>2 DEF TakesOver, New, Registered, Gone
        <3>6. TimersInv'
            BY <1>2 DEF TakesOver, New, Registered, Gone, TimersInv
        <3>5. TimersFollowSessions'
            BY <3>1, <3>2 DEF TimersFollowSessions
        <3> QED
            BY <2>1, <3>2, <3>3, <3>4, <3>5, <3>6
<1>3. ASSUME NEW c \in Clients, Ends(c)
      PROVE  DisconnectInv'
    <2>1. \A o \in Clients : UntakenInv(o)'
        BY <1>3 DEF Ends, Gone, UntakenInv
    <2> QED
        <3>1. \A o \in DojotUsers : mqttSession'[o] # None => timers'[o] # {}
            BY <1>3 DEF Ends, Gone, TimersFollowSessions
        <3>2. sessions' \in Nat /\ mqttSession' \in [Clients -> Nat] /\ early' \subseteq takenOver'
            BY <1>3 DEF Ends, TimersFollowSessions
        <3>3. ets' \in [Clients -> Nat]
            BY <1>3, <3>2 DEF Ends, Gone
        <3>4. timers' \in [Clients -> SUBSET Nat]
            BY <1>3, <3>2 DEF Ends, Gone
        <3>6. TimersInv'
            BY <1>3 DEF Ends, Gone, TimersInv
        <3>5. TimersFollowSessions'
            BY <3>1, <3>2 DEF TimersFollowSessions
        <3> QED
            BY <2>1, <3>2, <3>3, <3>4, <3>5, <3>6
<1>4. ASSUME NEW c \in Clients, NEW t \in 1..MaxSessions, Fires(c, t)
      PROVE  DisconnectInv'
    <2>1. \A o \in Clients : UntakenInv(o)'
        BY <1>4 DEF Fires, Gone, UntakenInv
    <2> QED
        <3>1. \A o \in DojotUsers : mqttSession'[o] # None => timers'[o] # {}
            BY <1>4 DEF Fires, Gone, TimersFollowSessions
        <3>2. sessions' \in Nat /\ mqttSession' \in [Clients -> Nat] /\ early' \subseteq takenOver'
            BY <1>4 DEF Fires, UntakenInv, TimersFollowSessions
        <3>3. ets' \in [Clients -> Nat]
            BY <1>4, <3>2 DEF Fires, Gone
        <3>4. timers' \in [Clients -> SUBSET Nat]
            BY <1>4, <3>2 DEF Fires, Gone
        <3>6. TimersInv'
            BY <1>4 DEF Fires, Gone, TimersInv
        <3>5. TimersFollowSessions'
            BY <3>1, <3>2 DEF TimersFollowSessions
        <3> QED
            BY <2>1, <3>2, <3>3, <3>4, <3>5, <3>6
<1>5. CASE UNCHANGED disconnectVars
    BY <1>5 DEF disconnectVars, UntakenInv, TimersInv, TimersFollowSessions
<1> QED
    BY <1>1, <1>2, <1>3, <1>4, <1>5 DEF DisconnectNext

\* A device that is connected has a timer that will end its session, and a timer ends another
\* session than its own only where one was taken over.
THEOREM TimersAreKept == DisconnectSpec => []TimersFollowSessions
<1>1. DisconnectInv => TimersFollowSessions
    BY DEF DisconnectInv
<1> QED
    BY <1>1, DisconnectInvInit, DisconnectInvStep, PTL DEF DisconnectSpec

\* Sessions are numbered up to the bound, and so are their timers.
NumbersInv == sessions \in 0..MaxSessions /\ DisconnectTypeOK

LEMMA NumbersInvInit == DisconnectInit => NumbersInv
BY DisconnectAssumption DEF DisconnectInit, NumbersInv, DisconnectTypeOK, None

LEMMA NumbersInvStep == NumbersInv /\ [DisconnectNext]_disconnectVars => NumbersInv'
<1> SUFFICES ASSUME NumbersInv, [DisconnectNext]_disconnectVars
             PROVE  NumbersInv'
    OBVIOUS
<1> USE DisconnectAssumption DEF NumbersInv, DisconnectTypeOK, Stored, Table, None
<1>1. ASSUME NEW c \in Clients, Starts(c) \/ TakesOver(c)
      PROVE  NumbersInv'
    <2>1. sessions' \in 1..MaxSessions /\ mqttSession' \in [Clients -> 0..MaxSessions]
        BY <1>1 DEF Starts, TakesOver, New
    <2>2. ets' \in [Clients -> 0..MaxSessions]
        BY <1>1, <2>1 DEF Starts, TakesOver, Registered, Gone
    <2>3. timers' \in [Clients -> SUBSET (1..MaxSessions)]
        BY <1>1, <2>1 DEF Starts, TakesOver, Registered, Gone
    <2> QED
        BY <2>1, <2>2, <2>3
<1>2. ASSUME NEW c \in Clients, Ends(c)
      PROVE  NumbersInv'
    BY <1>2 DEF Ends, Gone
<1>3. ASSUME NEW c \in Clients, NEW t \in 1..MaxSessions, Fires(c, t)
      PROVE  NumbersInv'
    BY <1>3 DEF Fires, Gone
<1>4. CASE UNCHANGED disconnectVars
    BY <1>4 DEF disconnectVars
<1> QED
    BY <1>1, <1>2, <1>3, <1>4 DEF DisconnectNext

\* The table and the timers are of the sessions VerneMQ has numbered.
THEOREM DisconnectTypeCorrect == DisconnectSpec => []DisconnectTypeOK
BY NumbersInvInit, NumbersInvStep, PTL DEF DisconnectSpec, NumbersInv

-----------------------------------------------------------------------------
(* device-basic-authentication: the credentials of devices *)

PostPhases == {"ended", "validate", "findTenant", "createTenant", "upsert"}
SyncPhases == {"ended", "findAll", "loadTenants", "loadOnly", "findDevices", "getDevices", "remove",
               "deleteMany", "deleteOne"}

\* The shapes.
ListShape == listed \in BOOLEAN /\ served \in BOOLEAN /\ aliased \in BOOLEAN
BasicShape ==
    /\ thing \in [Things -> {"new", "present", "gone"}] /\ tenantThere \in BOOLEAN
    /\ bare \in BOOLEAN /\ cut \in BOOLEAN
    /\ deletions \in Nat /\ errors \in Nat /\ opening \in Nat
    /\ credentials \subseteq Things
    /\ records \in Nat /\ callbacks \in Nat /\ hasIds \in BOOLEAN
    /\ ListShape
    /\ wipes \in [deleteMany : Nat, deleteOne : Nat]
    /\ post \in [Posts -> [phase : PostPhases, dev : SUBSET Things]]
    /\ sync \in [Syncs -> [phase : SyncPhases, todo : SUBSET Things]]

\* A tenant that Keycloak never had is known to nobody.
NeverThere == ~tenantThere /\ deletions = 0
\* Nor on the list of tenants.
ListAbsent == NeverThere => ~listed /\ ~served
UnknownIsAbsent ==
    NeverThere =>
        /\ records = 0 /\ opening = 0
        /\ \A p \in Posts : post[p].phase = "ended"
        /\ \A s \in Syncs : sync[s].phase \in {"ended", "findAll", "loadOnly"}

\* What is about to be removed may go: the credentials of a tenant that was deleted,
DeletionsOnly ==
    /\ wipes.deleteMany > 0 \/ wipes.deleteOne > 0 => deletions > 0
    /\ \A s \in Syncs : sync[s].phase \in {"deleteMany", "deleteOne"} => deletions > 0

\* and of devices that are gone, or that an answer had no room for.  No credential is written for a device before it is there, so that
\* one the device manager no longer names does not come back.
RemovalsOnly ==
    /\ \A d \in credentials : thing[d] # "new"
    /\ \A p \in Posts : post[p].phase \in {"findTenant", "createTenant", "upsert"} =>
           \A d \in post[p].dev : thing[d] # "new"
    /\ \A s \in Syncs :
        /\ sync[s].phase = "getDevices" => \A d \in sync[s].todo : thing[d] # "new"
        /\ sync[s].phase = "remove" => \A d \in sync[s].todo : thing[d] = "gone" \/ cut

\* A request creates a record of the tenant only after it found none.
CreatingPosts == {p \in Posts : post[p].phase = "createTenant"}
RecordsCount == records + Cardinality(CreatingPosts) <= Cardinality(Posts)

\* A run of the synchronisation holds back at most the registration it will make at its end.
Running == {s \in Syncs : sync[s] # Ended}
CallbacksCount ==
    /\ callbacks + Cardinality(Running) <= MaxCallbacks
    /\ hasIds => callbacks > 0

\* All of it together.
BasicInv ==
    /\ BasicShape /\ ListAbsent /\ UnknownIsAbsent /\ DeletionsOnly /\ RemovalsOnly
    /\ RecordsCount /\ CallbacksCount

\* At the start only the tenants that are there are known.
LEMMA BasicInvInit == BasicInit => BasicInv
<1> SUFFICES ASSUME BasicInit
             PROVE  BasicInv
    OBVIOUS
<1>1. BasicShape
    BY DEF BasicInit, BasicShape, ListShape, Ended, PostPhases, SyncPhases
<1>2. ListAbsent /\ UnknownIsAbsent /\ DeletionsOnly /\ RemovalsOnly
    BY DEF BasicInit, UnknownIsAbsent, ListAbsent, NeverThere, DeletionsOnly, RemovalsOnly, Ended
<1>3. RecordsCount
    <2>1. CreatingPosts = {}
        BY DEF BasicInit, CreatingPosts
    <2> QED
        BY <2>1, RequestsAreFinite, FS_EmptySet, FS_CardinalityType DEF BasicInit, RecordsCount
<1>4. CallbacksCount
    <2>1. Running = {}
        BY DEF BasicInit, Running
    <2> QED
        BY <2>1, BasicCredentialsAssumption, FS_EmptySet DEF BasicInit, CallbacksCount
<1> QED
    BY <1>1, <1>2, <1>3, <1>4 DEF BasicInv

\* What the device manager and Keycloak do: devices do not come back, and a tenant leaves by a
\* deletion.
LEMMA OutsideKeeps ==
    ASSUME BasicInv, TenantChanges \/ \E d \in Things : ThingChanges(d)
    PROVE  BasicInv'
<1> USE DEF BasicInv
<1>1. UNCHANGED <<mongoVars, listVars, consumerVars, post, sync>>
    BY DEF TenantChanges, ThingChanges
<1>2. RecordsCount' /\ CallbacksCount'
    BY <1>1 DEF RecordsCount, CreatingPosts, CallbacksCount, Running, mongoVars, consumerVars
<1>3. CASE TenantChanges
    <2>1. thing' = thing /\ UNCHANGED answerVars /\ tenantThere' = ~tenantThere /\ deletions' \in Nat /\ deletions <= deletions'
          /\ (tenantThere => deletions' > 0) /\ errors' = errors
        BY <1>3 DEF TenantChanges, BasicShape
    <2>2. BasicShape'
        BY <1>1, <2>1 DEF BasicShape, ListShape, answerVars, mongoVars, listVars, consumerVars
    <2>3. UnknownIsAbsent' /\ ListAbsent'
        BY <1>1, <2>1 DEF BasicShape, UnknownIsAbsent, ListAbsent, NeverThere, mongoVars, listVars
    <2>4. DeletionsOnly' /\ RemovalsOnly'
        BY <1>1, <2>1 DEF BasicShape, DeletionsOnly, RemovalsOnly, answerVars, mongoVars, consumerVars
    <2> QED
        BY <1>2, <2>2, <2>3, <2>4
<1>4. ASSUME NEW d \in Things, ThingChanges(d)
      PROVE  BasicInv'
    <2>1. /\ thing' \in [Things -> {"new", "present", "gone"}]
          /\ \A x \in Things : (thing[x] # "new" => thing'[x] # "new") /\ (thing[x] = "gone" => thing'[x] = "gone")
        BY <1>4 DEF ThingChanges, BasicShape
    <2>2. UNCHANGED <<answerVars, tenantThere, deletions, errors>>
        BY <1>4 DEF ThingChanges
    <2>3. BasicShape'
        BY <1>1, <2>1, <2>2 DEF BasicShape, ListShape, answerVars, mongoVars, listVars, consumerVars
    <2>4. UnknownIsAbsent' /\ ListAbsent' /\ DeletionsOnly'
        BY <1>1, <2>2 DEF ListAbsent, UnknownIsAbsent, DeletionsOnly, NeverThere, mongoVars, listVars, consumerVars
    <2>5. RemovalsOnly'
        <3>1. /\ credentials \subseteq Things /\ \A p \in Posts : post[p].dev \subseteq Things
              /\ \A s \in Syncs : sync[s].todo \subseteq Things
            BY DEF BasicShape
        <3> QED
            BY <1>1, <2>1, <2>2, <3>1 DEF RemovalsOnly, answerVars, mongoVars
    <2> QED
        BY <1>2, <2>3, <2>4, <2>5
<1> QED
    BY <1>3, <1>4

\* The handlers of events.
LEMMA EventsKeep ==
    ASSUME BasicInv, \/ \E d \in Things : OnThingRemoved(d)
                     \/ OnTenantCreated \/ SessionOpens \/ OnTenantDeleted \/ Wipe
    PROVE  BasicInv'
<1> USE DEF BasicInv
<1>1. UNCHANGED <<outside, callbacks, hasIds, post, sync>>
    BY DEF OnThingRemoved, OnTenantCreated, SessionOpens, OnTenantDeleted, Wipe, consumerVars
<1>2. CallbacksCount'
    BY <1>1 DEF CallbacksCount, Running
<1>3. /\ credentials' \subseteq credentials
      /\ records' \in Nat /\ records' <= records
      /\ wipes' \in [deleteMany : Nat, deleteOne : Nat]
      /\ opening' \in Nat
    <2>1. ASSUME NEW d \in Things, OnThingRemoved(d)
          PROVE  <1>3!:
        BY <2>1 DEF BasicShape, OnThingRemoved, consumerVars, listVars
    <2>2. CASE OnTenantCreated \/ SessionOpens
        BY <2>2 DEF BasicShape, OnTenantCreated, SessionOpens, consumerVars, mongoVars
    <2>4. CASE OnTenantDeleted
        <3>1. wipes.deleteMany \in Nat /\ wipes.deleteOne \in Nat
            BY DEF BasicShape
        <3>2. wipes' = [wipes EXCEPT !.deleteMany = wipes.deleteMany + 1]
            BY <2>4 DEF OnTenantDeleted
        <3>3. wipes' \in [deleteMany : Nat, deleteOne : Nat]
            BY <3>1, <3>2 DEF BasicShape
        <3> QED
            BY <2>4, <3>3 DEF BasicShape, OnTenantDeleted, mongoVars
    <2>3. CASE Wipe
        <3>1. UNCHANGED listVars /\ wipes.deleteMany \in Nat /\ wipes.deleteOne \in Nat
            BY <2>3 DEF Wipe, BasicShape
        <3>2. \/ /\ wipes.deleteMany > 0 /\ DeleteMany
                 /\ wipes' = [deleteMany |-> wipes.deleteMany - 1, deleteOne |-> wipes.deleteOne + 1]
              \/ /\ wipes.deleteOne > 0 /\ DeleteOne
                 /\ wipes' = [wipes EXCEPT !.deleteOne = @ - 1]
            BY <2>3 DEF Wipe
        <3>3. wipes' \in [deleteMany : Nat, deleteOne : Nat]
            BY <3>1, <3>2 DEF BasicShape
        <3> QED
            BY <3>1, <3>2, <3>3 DEF BasicShape, DeleteMany, DeleteOne, listVars
    <2> QED
        BY <2>1, <2>2, <2>3, <2>4
<1>4. wipes'.deleteMany > 0 \/ wipes'.deleteOne > 0 => deletions > 0
    BY DEF BasicShape, DeletionsOnly, OnThingRemoved, OnTenantCreated, SessionOpens, OnTenantDeleted,
           Wipe, consumerVars
<1>5. NeverThere => opening' = 0
    BY DEF BasicShape, UnknownIsAbsent, NeverThere, OnThingRemoved, OnTenantCreated, SessionOpens,
           OnTenantDeleted, Wipe, listVars
<1>list. ListShape' /\ ListAbsent'
    <2>1. CASE UNCHANGED <<listed, served, aliased>>
        BY <1>1, <2>1 DEF BasicShape, ListShape, ListAbsent, NeverThere, outside
    <2>2. CASE SessionOpens
        <3>1. ~NeverThere
            BY <2>2 DEF SessionOpens, UnknownIsAbsent
        <3> QED
            BY <1>1, <2>2, <3>1 DEF BasicShape, ListShape, ListAbsent, NeverThere, SessionOpens, Push, outside
    <2>3. CASE OnTenantDeleted
        <3>1. \/ UNCHANGED <<listed, served, aliased>>
              \/ listed' = FALSE /\ aliased' = FALSE /\ served' = served
            BY <2>3 DEF OnTenantDeleted, Replace
        <3>2. UNCHANGED <<tenantThere, deletions>> /\ ListShape /\ ListAbsent
            BY <1>1 DEF BasicShape, outside, answerVars
        <3>3. CASE UNCHANGED <<listed, served, aliased>>
            BY <3>2, <3>3 DEF ListShape, ListAbsent, NeverThere
        <3>4. CASE listed' = FALSE /\ aliased' = FALSE /\ served' = served
            <4>1. ListShape'
                BY <3>2, <3>4 DEF ListShape
            <4>2. NeverThere' => NeverThere
                BY <3>2 DEF NeverThere
            <4>3. NeverThere => ~served
                BY <3>2 DEF ListAbsent
            <4>4. ListAbsent'
                BY <3>4, <4>2, <4>3 DEF ListAbsent
            <4> QED
                BY <4>1, <4>4
        <3> QED
            BY <3>1, <3>3, <3>4
    <2> QED
        BY <2>1, <2>2, <2>3 DEF OnThingRemoved, OnTenantCreated, Wipe, listVars
<1>6. BasicShape'
    BY <1>1, <1>3, <1>list DEF BasicShape, outside, answerVars
<1>7. UnknownIsAbsent'
    BY <1>1, <1>3, <1>5 DEF BasicShape, UnknownIsAbsent, NeverThere, outside
<1>8. DeletionsOnly' /\ RemovalsOnly'
    BY <1>1, <1>3, <1>4 DEF DeletionsOnly, RemovalsOnly, outside, answerVars
<1>9. RecordsCount'
    <2>1. CreatingPosts' = CreatingPosts
        BY <1>1 DEF CreatingPosts
    <2>2. Cardinality(CreatingPosts) \in Nat /\ Cardinality(Posts) \in Nat
        BY RequestsAreFinite, FS_Subset, FS_CardinalityType DEF CreatingPosts
    <2> QED
        BY <1>3, <2>1, <2>2 DEF RecordsCount, BasicShape
<1> QED
    BY <1>2, <1>6, <1>7, <1>8, <1>9, <1>list

\* A request moves on, of a tenant that is known.
LEMMA PostMoves ==
    ASSUME BasicInv, NEW p \in Posts, NEW w \in [phase : PostPhases, dev : SUBSET Things],
           post' = [post EXCEPT ![p] = w], ~NeverThere,
           w.phase \in {"findTenant", "createTenant", "upsert"} => \A d \in w.dev : thing[d] # "new",
           UNCHANGED <<outside, listVars, consumerVars, sync>>,
           records' \in Nat, RecordsCount',
           credentials' \subseteq Things, \A d \in credentials' : thing[d] # "new"
    PROVE  BasicInv'
<1> USE DEF BasicInv
<1>1. CallbacksCount' /\ DeletionsOnly'
    BY DEF CallbacksCount, Running, DeletionsOnly, consumerVars, outside
<1>2. /\ post' \in [Posts -> [phase : PostPhases, dev : SUBSET Things]]
      /\ \A x \in Posts : post'[x] = IF x = p THEN w ELSE post[x]
    BY DEF BasicShape
<1>3. BasicShape'
    BY <1>2 DEF BasicShape, ListShape, outside, answerVars, listVars, consumerVars
<1>4. UnknownIsAbsent' /\ ListAbsent'
    BY DEF UnknownIsAbsent, ListAbsent, NeverThere, outside
<1>5. RemovalsOnly'
    BY <1>2 DEF RemovalsOnly, outside, answerVars
<1> QED
    BY <1>1, <1>3, <1>4, <1>5

\* A request for credentials, from its arrival to its end.
LEMMA PostsKeep ==
    ASSUME BasicInv, NEW p \in Posts, PostSteps(p) \/ \E d \in Things : PostArrives(p, d)
    PROVE  BasicInv'
<1> USE DEF BasicInv, At, To
<1>1. /\ post \in [Posts -> [phase : PostPhases, dev : SUBSET Things]]
      /\ post[p].phase \in PostPhases /\ post[p].dev \subseteq Things
      /\ credentials \subseteq Things /\ records \in Nat /\ CreatingPosts \subseteq Posts
      /\ \A d \in credentials : thing[d] # "new"
    BY DEF BasicShape, RemovalsOnly, CreatingPosts
<1>2. /\ Cardinality(Posts) \in Nat /\ Cardinality(CreatingPosts) \in Nat /\ IsFiniteSet(CreatingPosts)
      /\ Cardinality(CreatingPosts') \in Nat /\ Cardinality(CreatingPosts') <= Cardinality(Posts)
    <2>1. CreatingPosts' \subseteq Posts
        BY DEF CreatingPosts
    <2> QED
        BY <1>1, <2>1, RequestsAreFinite, FS_Subset, FS_CardinalityType
<1>3. UNCHANGED <<outside, listVars, consumerVars, sync>>
    BY DEF PostSteps, PostArrives, PostValidated, PostFindsTenant, PostCreatesTenant, PostUpserts
<1>4. ASSUME NEW phase \in PostPhases
      PROVE  [post EXCEPT ![p].phase = phase] = [post EXCEPT ![p] = [phase |-> phase, dev |-> post[p].dev]]
    <2>1. [post[p] EXCEPT !.phase = phase] = [phase |-> phase, dev |-> post[p].dev]
        BY <1>1
    <2> QED
        BY <2>1
<1>5. ASSUME NEW d \in Things, PostArrives(p, d)
      PROVE  BasicInv'
    <2> DEFINE w == [phase |-> "validate", dev |-> {d}]
    <2>1. w \in [phase : PostPhases, dev : SUBSET Things] /\ post' = [post EXCEPT ![p] = w]
        BY <1>5 DEF PostArrives, PostPhases
    <2>2. UNCHANGED mongoVars /\ post[p].phase = "ended" /\ ~NeverThere
        BY <1>5 DEF PostArrives, ListAbsent
    <2>3. CreatingPosts' = CreatingPosts
        BY <1>1, <2>1, <2>2 DEF CreatingPosts
    <2> QED
        BY <1>1, <1>3, <2>1, <2>2, <2>3, PostMoves DEF mongoVars, RecordsCount
<1>6. CASE PostValidated(p)
    <2> DEFINE passes == \A d \in post[p].dev : thing[d] = "present"
               w == [phase |-> IF passes THEN "findTenant" ELSE "ended", dev |-> post[p].dev]
    <2>1. w \in [phase : PostPhases, dev : SUBSET Things] /\ post' = [post EXCEPT ![p] = w]
        BY <1>1, <1>4, <1>6 DEF PostValidated, PostPhases
    <2>2. UNCHANGED mongoVars /\ post[p].phase = "validate" /\ ~NeverThere
        BY <1>6 DEF PostValidated, UnknownIsAbsent
    <2>3. CreatingPosts' = CreatingPosts
        BY <1>1, <2>1, <2>2 DEF CreatingPosts
    <2>4. w.phase \in {"findTenant", "createTenant", "upsert"} => \A d \in w.dev : thing[d] # "new"
        OBVIOUS
    <2> QED
        BY <1>1, <1>3, <2>1, <2>2, <2>3, <2>4, PostMoves DEF mongoVars, RecordsCount
<1>7. CASE PostFindsTenant(p)
    <2> DEFINE w == [phase |-> IF records = 0 THEN "createTenant" ELSE "upsert", dev |-> post[p].dev]
    <2>1. w \in [phase : PostPhases, dev : SUBSET Things] /\ post' = [post EXCEPT ![p] = w]
        BY <1>1, <1>4, <1>7 DEF PostFindsTenant, PostPhases
    <2>2. UNCHANGED mongoVars /\ post[p].phase = "findTenant" /\ ~NeverThere
        BY <1>7 DEF PostFindsTenant, UnknownIsAbsent
    <2>3. records # 0 => CreatingPosts' = CreatingPosts
        BY <1>1, <2>1, <2>2 DEF CreatingPosts
    <2>5. RecordsCount'
        BY <1>1, <1>2, <2>2, <2>3 DEF mongoVars, RecordsCount
    <2>6. \A d \in w.dev : thing[d] # "new"
        BY <2>2 DEF RemovalsOnly
    <2> QED
        BY <1>1, <1>3, <2>1, <2>2, <2>5, <2>6, PostMoves DEF mongoVars
<1>8. CASE PostCreatesTenant(p)
    <2> DEFINE w == [phase |-> "upsert", dev |-> post[p].dev]
    <2>1. w \in [phase : PostPhases, dev : SUBSET Things] /\ post' = [post EXCEPT ![p] = w]
        BY <1>1, <1>4, <1>8 DEF PostCreatesTenant, PostPhases
    <2>2. /\ records' = records + 1 /\ credentials' = credentials
          /\ post[p].phase = "createTenant" /\ ~NeverThere /\ records' \in Nat
        BY <1>1, <1>8 DEF PostCreatesTenant, UnknownIsAbsent
    <2>3. CreatingPosts' = CreatingPosts \ {p} /\ p \in CreatingPosts
        BY <1>1, <2>1, <2>2 DEF CreatingPosts
    <2>4. Cardinality(CreatingPosts') = Cardinality(CreatingPosts) - 1
        BY <1>2, <2>3, FS_RemoveElement
    <2>5. RecordsCount'
        BY <1>1, <1>2, <2>2, <2>4 DEF RecordsCount
    <2>6. \A d \in w.dev : thing[d] # "new"
        BY <2>2 DEF RemovalsOnly
    <2> QED
        BY <1>1, <1>3, <2>1, <2>2, <2>5, <2>6, PostMoves
<1>9. CASE PostUpserts(p)
    <2> DEFINE w == [phase |-> "ended", dev |-> {}]
    <2>1. w \in [phase : PostPhases, dev : SUBSET Things] /\ post' = [post EXCEPT ![p] = w]
        BY <1>9 DEF PostUpserts, PostPhases
    <2>2. /\ records' = records /\ credentials' = credentials \cup post[p].dev
          /\ post[p].phase = "upsert" /\ ~NeverThere
        BY <1>9 DEF PostUpserts, UnknownIsAbsent
    <2>3. CreatingPosts' = CreatingPosts
        BY <1>1, <2>1, <2>2 DEF CreatingPosts
    <2>4. \A d \in credentials' : thing[d] # "new"
        BY <1>1, <2>2 DEF RemovalsOnly
    <2> QED
        BY <1>1, <1>3, <2>1, <2>2, <2>3, <2>4, PostMoves DEF RecordsCount
<1> QED
    BY <1>5, <1>6, <1>7, <1>8, <1>9 DEF PostSteps

\* Where a run of the synchronisation may stand, and what a step of it may change around it.
RunSound(w) ==
    /\ NeverThere => w.phase \in {"ended", "findAll", "loadOnly"}
    /\ w.phase \in {"deleteMany", "deleteOne"} => deletions > 0
    /\ w.phase = "getDevices" => \A d \in w.todo : thing[d] # "new"
    /\ w.phase = "remove" => \A d \in w.todo : thing[d] = "gone" \/ cut'
RunEffects ==
    /\ UNCHANGED <<thing, bare, tenantThere, deletions, opening, wipes, post>>
    /\ cut' \in BOOLEAN /\ (cut => cut')
    /\ errors' \in Nat /\ callbacks' \in Nat /\ hasIds' \in BOOLEAN
    /\ credentials' \subseteq credentials /\ records' \in Nat /\ records' <= records
    /\ ListShape' /\ ListAbsent'

\* A run moves on.
LEMMA SyncMoves ==
    ASSUME BasicInv, NEW s \in Syncs, NEW w \in [phase : SyncPhases, todo : SUBSET Things],
           sync' = [sync EXCEPT ![s] = w], RunSound(w), RunEffects, CallbacksCount'
    PROVE  BasicInv'
<1> USE DEF BasicInv, RunSound, RunEffects
<1>1. /\ sync' \in [Syncs -> [phase : SyncPhases, todo : SUBSET Things]]
      /\ \A x \in Syncs : sync'[x] = IF x = s THEN w ELSE sync[x]
    BY DEF BasicShape
<1>2. BasicShape'
    BY <1>1 DEF BasicShape
<1>3. UnknownIsAbsent'
    <2> SUFFICES ASSUME NeverThere
                 PROVE  /\ records' = 0 /\ opening' = 0
                        /\ \A p \in Posts : post'[p].phase = "ended"
                        /\ \A x \in Syncs : sync'[x].phase \in {"ended", "findAll", "loadOnly"}
        BY DEF UnknownIsAbsent, NeverThere
    <2> QED
        BY <1>1 DEF UnknownIsAbsent
<1>4. DeletionsOnly'
    BY <1>1 DEF DeletionsOnly
<1>5. RemovalsOnly'
    BY <1>1 DEF RemovalsOnly
<1>6. RecordsCount'
    <2>1. CreatingPosts' = CreatingPosts
        BY DEF CreatingPosts
    <2>2. Cardinality(CreatingPosts) \in Nat /\ Cardinality(Posts) \in Nat
        BY RequestsAreFinite, FS_Subset, FS_CardinalityType DEF CreatingPosts
    <2> QED
        BY <2>1, <2>2 DEF RecordsCount, BasicShape
<1> QED
    BY <1>2, <1>3, <1>4, <1>5, <1>6

\* The registrations, with those the runs will make.
LEMMA RunningCount ==
    ASSUME BasicInv, NEW s \in Syncs, NEW w \in [phase : SyncPhases, todo : SUBSET Things],
           sync' = [sync EXCEPT ![s] = w]
    PROVE  /\ Cardinality(Running) \in Nat /\ Cardinality(Running') \in Nat
           /\ Cardinality(Running') <= Cardinality(Running) + 1
           /\ sync[s] # Ended => Cardinality(Running') <= Cardinality(Running)
           /\ sync[s] # Ended /\ w = Ended => Cardinality(Running') = Cardinality(Running) - 1
<1>1. \A x \in Syncs : sync'[x] = IF x = s THEN w ELSE sync[x]
    BY DEF BasicInv, BasicShape
<1>2. /\ IsFiniteSet(Running) /\ Cardinality(Running) \in Nat
      /\ IsFiniteSet(Running') /\ Cardinality(Running') \in Nat
    BY RequestsAreFinite, FS_Subset, FS_CardinalityType DEF Running
<1>3. /\ Running' \subseteq Running \cup {s} /\ s \in Syncs
      /\ sync[s] # Ended => s \in Running
      /\ sync[s] # Ended /\ w = Ended => Running' = Running \ {s}
    BY <1>1 DEF Running
<1>4. /\ IsFiniteSet(Running \cup {s}) /\ Cardinality(Running \cup {s}) \in Nat
      /\ Cardinality(Running \cup {s}) <= Cardinality(Running) + 1
    <2>1. /\ IsFiniteSet(Running \cup {s})
          /\ Cardinality(Running \cup {s}) \in {Cardinality(Running), Cardinality(Running) + 1}
        BY <1>2, FS_AddElement
    <2> QED
        BY <1>2, <2>1
<1>5. Cardinality(Running') <= Cardinality(Running \cup {s})
    BY <1>3, <1>4, FS_Subset
<1>6. sync[s] # Ended => Running \cup {s} = Running
    BY <1>3
<1>7. sync[s] # Ended /\ w = Ended => Cardinality(Running') = Cardinality(Running) - 1
    BY <1>2, <1>3, FS_RemoveElement
<1> QED
    BY <1>2, <1>4, <1>5, <1>6, <1>7

\* A run goes on without a registration, or makes one and ends.
LEMMA RunCounts ==
    ASSUME BasicInv, NEW s \in Syncs, sync[s] # Ended
    PROVE  /\ \A phase \in SyncPhases, todo \in SUBSET Things :
                  Goto(s, phase, todo) /\ UNCHANGED <<callbacks, hasIds>> => CallbacksCount'
           /\ Finally(s) => /\ CallbacksCount' /\ callbacks' \in Nat /\ hasIds' \in BOOLEAN
                            /\ Ended \in [phase : SyncPhases, todo : SUBSET Things]
<1>1. callbacks \in Nat /\ CallbacksCount
    BY DEF BasicInv, BasicShape
<1>2. ASSUME NEW phase \in SyncPhases, NEW todo \in SUBSET Things,
             Goto(s, phase, todo), UNCHANGED <<callbacks, hasIds>>
      PROVE  CallbacksCount'
    <2> DEFINE w == [phase |-> phase, todo |-> todo]
    <2>1. w \in [phase : SyncPhases, todo : SUBSET Things] /\ sync' = [sync EXCEPT ![s] = w]
        BY <1>2 DEF Goto
    <2> HIDE DEF w
    <2>2. /\ Cardinality(Running) \in Nat /\ Cardinality(Running') \in Nat
          /\ Cardinality(Running') <= Cardinality(Running)
        BY <2>1, RunningCount
    <2> QED
        BY <1>1, <1>2, <2>2, BasicCredentialsAssumption DEF CallbacksCount
<1>3. ASSUME Finally(s)
      PROVE  /\ CallbacksCount' /\ callbacks' \in Nat /\ hasIds' \in BOOLEAN
             /\ Ended \in [phase : SyncPhases, todo : SUBSET Things]
    <2>1. Ended \in [phase : SyncPhases, todo : SUBSET Things]
        BY DEF Ended, SyncPhases
    <2>2. /\ Cardinality(Running) \in Nat /\ Cardinality(Running') \in Nat
          /\ Cardinality(Running') = Cardinality(Running) - 1
        BY <1>3, <2>1, RunningCount DEF Finally
    <2>3. callbacks' = callbacks + 1 /\ hasIds' = TRUE
        BY <1>3 DEF Finally
    <2> QED
        BY <1>1, <2>1, <2>2, <2>3, BasicCredentialsAssumption DEF CallbacksCount
<1> QED
    BY <1>2, <1>3

\* The synchronisation, from suspending the events to listening again.
LEMMA SyncsKeep ==
    ASSUME BasicInv, NEW s \in Syncs, SyncBegins(s) \/ SyncSteps(s) \/ SyncFails(s)
    PROVE  BasicInv'
<1>1. /\ sync[s].phase \in SyncPhases /\ sync[s].todo \subseteq Things /\ errors \in Nat
      /\ callbacks \in Nat /\ hasIds \in BOOLEAN /\ records \in Nat /\ credentials \subseteq Things
      /\ tenantThere \in BOOLEAN
    BY DEF BasicInv, BasicShape
<1>2. NeverThere => records = 0 /\ sync[s].phase \in {"ended", "findAll", "loadOnly"}
    BY DEF BasicInv, UnknownIsAbsent
<1>same. UNCHANGED <<tenantThere, deletions, listed, served, aliased>> => ListShape' /\ ListAbsent'
    BY DEF BasicInv, BasicShape, ListShape, ListAbsent, NeverThere
<1>cut. UNCHANGED answerVars => UNCHANGED bare /\ cut' \in BOOLEAN /\ (cut => cut')
    BY DEF BasicInv, BasicShape, answerVars
<1>3. sync[s].phase # "ended" => sync[s] # Ended
    BY DEF Ended
<1>4. \A phase \in SyncPhases, todo \in SUBSET Things :
          [phase |-> phase, todo |-> todo] \in [phase : SyncPhases, todo : SUBSET Things]
    OBVIOUS
<1> USE DEF SyncPhases
<1>5. CASE SyncBegins(s)
    <2> DEFINE w == [phase |-> "findAll", todo |-> {}]
    <2>1. /\ UNCHANGED <<outside, mongoVars, listVars, wipes, post>> /\ hasIds' = FALSE
          /\ callbacks' = (IF hasIds THEN callbacks - 1 ELSE callbacks)
          /\ callbacks' + Cardinality(Running) < MaxCallbacks
          /\ w \in [phase : SyncPhases, todo : SUBSET Things] /\ sync' = [sync EXCEPT ![s] = w]
        BY <1>5 DEF SyncBegins, Goto, Running
    <2>2. /\ Cardinality(Running) \in Nat /\ Cardinality(Running') \in Nat
          /\ Cardinality(Running') <= Cardinality(Running) + 1
        BY <2>1, RunningCount
    <2>3. callbacks' \in Nat
        BY <1>1, <2>1 DEF BasicInv, CallbacksCount
    <2>4. CallbacksCount'
        BY <2>1, <2>2, <2>3, BasicCredentialsAssumption DEF CallbacksCount
    <2>5. /\ UNCHANGED <<thing, tenantThere, deletions, opening, wipes, post, errors, listed, served, aliased>>
          /\ UNCHANGED mongoVars /\ UNCHANGED answerVars /\ hasIds' \in BOOLEAN
        BY <2>1 DEF outside, listVars
    <2>8. RunEffects
        BY <1>1, <1>same, <1>cut, <2>3, <2>5 DEF RunEffects, mongoVars
    <2>9. RunSound(w)
        BY <2>1 DEF RunSound
    <2> HIDE DEF w
    <2> QED
        BY <2>1, <2>4, <2>8, <2>9, SyncMoves
<1>6. CASE SyncFindsRecords(s)
    <2> DEFINE w == [phase |-> IF records > 0 THEN "loadTenants" ELSE "loadOnly", todo |-> {}]
    <2>1. /\ UNCHANGED <<outside, mongoVars, listVars, consumerVars, post>> /\ sync[s] # Ended
          /\ Goto(s, w.phase, {})
          /\ w \in [phase : SyncPhases, todo : SUBSET Things] /\ sync' = [sync EXCEPT ![s] = w]
        BY <1>3, <1>6 DEF SyncFindsRecords, Goto
    <2>2. CallbacksCount'
        BY <2>1, RunCounts DEF consumerVars
    <2>8. RunEffects
        BY <1>1, <1>same, <1>cut, <2>1 DEF RunEffects, outside, mongoVars, listVars, consumerVars
    <2>9. RunSound(w)
        BY <1>2 DEF RunSound
    <2> HIDE DEF w
    <2> QED
        BY <2>1, <2>2, <2>8, <2>9, SyncMoves
<1>7. CASE SyncLoadsTenants(s)
    <2>1. /\ UNCHANGED <<outside, mongoVars, opening, post>> /\ sync[s] # Ended
          /\ sync[s].phase \in {"loadTenants", "loadOnly"}
        BY <1>3, <1>7 DEF SyncLoadsTenants
    <2>4. ListShape' /\ ListAbsent'
        <3>1. listed' = tenantThere /\ aliased' = FALSE /\ served' = served /\ UNCHANGED outside
            BY <1>7 DEF SyncLoadsTenants, Replace
        <3> QED
            BY <3>1 DEF BasicInv, BasicShape, ListShape, ListAbsent, NeverThere, outside
    <2>2. CASE sync[s].phase = "loadOnly"
        <3>1. Finally(s)
            BY <1>7, <2>2 DEF SyncLoadsTenants
        <3>2. /\ CallbacksCount' /\ callbacks' \in Nat /\ hasIds' \in BOOLEAN
              /\ Ended \in [phase : SyncPhases, todo : SUBSET Things]
            BY <2>1, <3>1, RunCounts
        <3>3. sync' = [sync EXCEPT ![s] = Ended] /\ Ended.phase = "ended" /\ UNCHANGED wipes
            BY <3>1 DEF Finally, Ended
        <3>8. RunEffects
            BY <1>1, <1>cut, <2>1, <2>4, <3>2, <3>3 DEF RunEffects, outside, mongoVars
        <3>9. RunSound(Ended)
            BY <3>3 DEF RunSound
        <3> QED
            BY <3>2, <3>3, <3>8, <3>9, SyncMoves
    <2>3. CASE sync[s].phase = "loadTenants"
        <3> DEFINE w == [phase |-> IF tenantThere THEN "findDevices" ELSE "deleteMany", todo |-> {}]
        <3>1. /\ Goto(s, w.phase, {}) /\ UNCHANGED consumerVars
              /\ w \in [phase : SyncPhases, todo : SUBSET Things] /\ sync' = [sync EXCEPT ![s] = w]
            BY <1>7, <2>3 DEF SyncLoadsTenants, Goto
        <3>2. CallbacksCount'
            BY <2>1, <3>1, RunCounts DEF consumerVars
        <3>3. ~tenantThere => deletions > 0
            BY <1>2, <2>3 DEF NeverThere, BasicInv, BasicShape
        <3>8. RunEffects
            BY <1>1, <1>cut, <2>1, <2>4, <3>1 DEF RunEffects, outside, mongoVars, consumerVars
        <3>9. RunSound(w)
            BY <1>2, <2>3, <3>3 DEF RunSound
        <3> HIDE DEF w
        <3> QED
            BY <3>1, <3>2, <3>8, <3>9, SyncMoves
    <2> QED
        BY <2>1, <2>2, <2>3
<1>8. CASE SyncFindsCredentials(s)
    <2> DEFINE w == [phase |-> "getDevices", todo |-> credentials]
    <2>1. /\ UNCHANGED <<outside, mongoVars, listVars, consumerVars, post>> /\ sync[s] # Ended
          /\ Goto(s, "getDevices", credentials) /\ ~NeverThere
          /\ w \in [phase : SyncPhases, todo : SUBSET Things] /\ sync' = [sync EXCEPT ![s] = w]
        BY <1>1, <1>2, <1>3, <1>8 DEF SyncFindsCredentials, Goto
    <2>2. CallbacksCount'
        BY <1>1, <2>1, RunCounts DEF consumerVars
    <2>3. \A d \in w.todo : thing[d] # "new"
        BY DEF BasicInv, RemovalsOnly
    <2>8. RunEffects
        BY <1>1, <1>same, <1>cut, <2>1 DEF RunEffects, outside, mongoVars, listVars, consumerVars
    <2>9. RunSound(w)
        BY <2>1, <2>3 DEF RunSound
    <2> HIDE DEF w
    <2> QED
        BY <2>1, <2>2, <2>8, <2>9, SyncMoves
<1>9. CASE SyncGetsDevices(s)
    <2>1. PICK answer \in SUBSET Present :
              cut' = (cut \/ answer # Present) /\ Goto(s, "remove", sync[s].todo \ answer)
        BY <1>9 DEF SyncGetsDevices, Answers
    <2> DEFINE w == [phase |-> "remove", todo |-> sync[s].todo \ answer]
    <2>2. /\ UNCHANGED <<thing, bare, tenantThere, deletions, errors, mongoVars, listVars, consumerVars, post>>
          /\ sync[s] # Ended /\ ~NeverThere /\ sync[s].phase = "getDevices"
          /\ w \in [phase : SyncPhases, todo : SUBSET Things] /\ sync' = [sync EXCEPT ![s] = w]
        BY <1>1, <1>2, <1>3, <1>9, <2>1 DEF SyncGetsDevices, Goto
    <2>3. CallbacksCount'
        <3>1. sync[s].todo \ answer \in SUBSET Things
            BY <1>1
        <3> QED
            BY <2>1, <2>2, <3>1, RunCounts DEF consumerVars
    <2>4. ASSUME NEW d \in w.todo
          PROVE  thing[d] = "gone" \/ cut'
        <3>1. d \in Things /\ d \notin answer /\ thing[d] \in {"present", "gone"}
            BY <1>1, <2>2 DEF BasicInv, BasicShape, RemovalsOnly
        <3> QED
            BY <2>1, <3>1 DEF Present
    <2>5. cut' \in BOOLEAN /\ (cut => cut')
        BY <2>1 DEF BasicInv, BasicShape
    <2>8. RunEffects
        BY <1>1, <1>same, <2>2, <2>5 DEF RunEffects, mongoVars, listVars, consumerVars
    <2>9. RunSound(w)
        BY <2>2, <2>4 DEF RunSound
    <2> HIDE DEF w
    <2> QED
        BY <2>2, <2>3, <2>8, <2>9, SyncMoves
<1>find. CASE SyncCannotFind(s)
    <2>1. UNCHANGED <<outside, mongoVars, listVars, post>> /\ sync[s] # Ended /\ Finally(s)
        BY <1>3, <1>find DEF SyncCannotFind
    <2>2. /\ CallbacksCount' /\ callbacks' \in Nat /\ hasIds' \in BOOLEAN
          /\ Ended \in [phase : SyncPhases, todo : SUBSET Things]
        BY <2>1, RunCounts
    <2>3. sync' = [sync EXCEPT ![s] = Ended] /\ Ended.phase = "ended" /\ UNCHANGED wipes
        BY <2>1 DEF Finally, Ended
    <2>8. RunEffects
        BY <1>1, <1>same, <1>cut, <2>1, <2>2, <2>3 DEF RunEffects, outside, answerVars, mongoVars, listVars
    <2>9. RunSound(Ended)
        BY <2>3 DEF RunSound
    <2> QED
        BY <2>2, <2>3, <2>8, <2>9, SyncMoves
<1>10. CASE SyncRemoves(s)
    <2>1. /\ UNCHANGED <<outside, records, listVars, post>> /\ sync[s] # Ended
          /\ ~NeverThere /\ sync[s].phase = "remove"
        BY <1>2, <1>3, <1>10 DEF SyncRemoves
    <2>2. CASE sync[s].todo = {}
        <3>1. Finally(s) /\ UNCHANGED credentials
            BY <1>10, <2>2 DEF SyncRemoves
        <3>2. /\ CallbacksCount' /\ callbacks' \in Nat /\ hasIds' \in BOOLEAN
              /\ Ended \in [phase : SyncPhases, todo : SUBSET Things]
            BY <2>1, <3>1, RunCounts
        <3>3. sync' = [sync EXCEPT ![s] = Ended] /\ Ended.phase = "ended" /\ UNCHANGED wipes
            BY <3>1 DEF Finally, Ended
        <3>8. RunEffects
            BY <1>1, <1>same, <1>cut, <2>1, <3>1, <3>2, <3>3 DEF RunEffects, outside, listVars
        <3>9. RunSound(Ended)
            BY <3>3 DEF RunSound
        <3> QED
            BY <3>2, <3>3, <3>8, <3>9, SyncMoves
    <2>3. CASE sync[s].todo # {}
        <3>1. PICK d \in sync[s].todo :
                  /\ credentials' = credentials \ {d} /\ Goto(s, "remove", sync[s].todo \ {d})
                  /\ UNCHANGED consumerVars
            BY <1>10, <2>3 DEF SyncRemoves
        <3> DEFINE w == [phase |-> "remove", todo |-> sync[s].todo \ {d}]
        <3>2. w \in [phase : SyncPhases, todo : SUBSET Things] /\ sync' = [sync EXCEPT ![s] = w]
            BY <1>1, <3>1 DEF Goto
        <3>3. CallbacksCount'
            <4>1. sync[s].todo \ {d} \in SUBSET Things
                BY <1>1
            <4> QED
                BY <2>1, <3>1, <4>1, RunCounts DEF consumerVars
        <3>4. \A x \in w.todo : thing[x] = "gone" \/ cut'
            BY <2>1 DEF BasicInv, RemovalsOnly, outside, answerVars
        <3>8. RunEffects
            BY <1>1, <1>same, <1>cut, <2>1, <3>1 DEF RunEffects, outside, listVars, consumerVars
        <3>9. RunSound(w)
            BY <2>1, <3>4 DEF RunSound
        <3> HIDE DEF w
        <3> QED
            BY <3>2, <3>3, <3>8, <3>9, SyncMoves
    <2> QED
        BY <2>2, <2>3
<1>11. CASE SyncWipes(s)
    <2>1. /\ UNCHANGED <<outside, listVars, post>> /\ sync[s] # Ended
          /\ ~NeverThere /\ deletions > 0
        BY <1>2, <1>3, <1>11 DEF SyncWipes, BasicInv, DeletionsOnly
    <2>2. CASE sync[s].phase = "deleteMany"
        <3> DEFINE w == [phase |-> "deleteOne", todo |-> {}]
        <3>1. /\ Goto(s, "deleteOne", {}) /\ UNCHANGED consumerVars /\ UNCHANGED records /\ credentials' = {}
              /\ w \in [phase : SyncPhases, todo : SUBSET Things] /\ sync' = [sync EXCEPT ![s] = w]
            BY <1>11, <2>2 DEF SyncWipes, DeleteMany, Goto
        <3>2. CallbacksCount'
            BY <2>1, <3>1, RunCounts DEF consumerVars
        <3>8. RunEffects
            BY <1>1, <1>same, <1>cut, <2>1, <3>1 DEF RunEffects, outside, listVars, consumerVars
        <3>9. RunSound(w)
            BY <2>1 DEF RunSound
        <3> HIDE DEF w
        <3> QED
            BY <3>1, <3>2, <3>8, <3>9, SyncMoves
    <2>3. CASE sync[s].phase = "deleteOne"
        <3>1. Finally(s) /\ UNCHANGED credentials /\ records' = IF records > 0 THEN records - 1 ELSE 0
            BY <1>11, <2>3 DEF SyncWipes, DeleteOne
        <3>2. /\ CallbacksCount' /\ callbacks' \in Nat /\ hasIds' \in BOOLEAN
              /\ Ended \in [phase : SyncPhases, todo : SUBSET Things]
            BY <2>1, <3>1, RunCounts
        <3>3. /\ sync' = [sync EXCEPT ![s] = Ended] /\ Ended.phase = "ended" /\ UNCHANGED wipes
              /\ records' \in Nat /\ records' <= records
            BY <1>1, <3>1 DEF Finally, Ended
        <3>8. RunEffects
            BY <1>1, <1>same, <1>cut, <2>1, <3>1, <3>2, <3>3 DEF RunEffects, outside, listVars
        <3>9. RunSound(Ended)
            BY <3>3 DEF RunSound
        <3> QED
            BY <3>2, <3>3, <3>8, <3>9, SyncMoves
    <2> QED
        BY <1>11, <2>2, <2>3 DEF SyncWipes
<1>12. CASE SyncFails(s)
    <2>1. /\ UNCHANGED <<thing, answerVars, tenantThere, deletions, mongoVars, listVars, post>>
          /\ sync[s] # Ended /\ errors' = errors + 1 /\ Finally(s)
        BY <1>3, <1>12 DEF SyncFails
    <2>2. /\ CallbacksCount' /\ callbacks' \in Nat /\ hasIds' \in BOOLEAN
          /\ Ended \in [phase : SyncPhases, todo : SUBSET Things]
        BY <2>1, RunCounts
    <2>3. sync' = [sync EXCEPT ![s] = Ended] /\ Ended.phase = "ended" /\ UNCHANGED wipes
        BY <2>1 DEF Finally, Ended
    <2>8. RunEffects
        BY <1>1, <1>same, <1>cut, <2>1, <2>2, <2>3 DEF RunEffects, mongoVars, listVars
    <2>9. RunSound(Ended)
        BY <2>3 DEF RunSound
    <2> QED
        BY <2>2, <2>3, <2>8, <2>9, SyncMoves
<1> QED
    BY <1>5, <1>6, <1>7, <1>8, <1>9, <1>find, <1>10, <1>11, <1>12 DEF SyncSteps

\* Every step keeps the invariant.
LEMMA BasicInvStep == BasicInv /\ [BasicNext]_basicVars => BasicInv'
<1> SUFFICES ASSUME BasicInv, [BasicNext]_basicVars
             PROVE  BasicInv'
    OBVIOUS
<1>1. CASE UNCHANGED basicVars
    BY <1>1 DEF basicVars, outside, answerVars, mongoVars, listVars, consumerVars, BasicInv, BasicShape,
                ListShape, ListAbsent, UnknownIsAbsent, NeverThere, DeletionsOnly, RemovalsOnly, RecordsCount, CreatingPosts,
                CallbacksCount, Running
<1> QED
    BY <1>1, OutsideKeeps, EventsKeep, PostsKeep, SyncsKeep DEF BasicNext

\* So it always holds.
LEMMA BasicInvariant == BasicSpec => []BasicInv
BY BasicInvInit, BasicInvStep, PTL DEF BasicSpec

LEMMA BasicTypeFromInv == BasicInv => BasicTypeOK
<1> SUFFICES ASSUME BasicInv
             PROVE  BasicTypeOK
    OBVIOUS
<1>1. /\ Cardinality(Posts) \in Nat /\ Cardinality(CreatingPosts) \in Nat /\ Cardinality(Running) \in Nat
    BY RequestsAreFinite, FS_Subset, FS_CardinalityType DEF CreatingPosts, Running
<1>2. records \in 0 .. Cardinality(Posts) /\ callbacks \in 0 .. MaxCallbacks
    BY <1>1, BasicCredentialsAssumption DEF BasicInv, BasicShape, RecordsCount, CallbacksCount
<1> QED
    BY <1>2 DEF BasicInv, BasicShape, CallbacksCount, BasicTypeOK

\* The state is well typed: a tenant never has more records than there are concurrent requests, and
\* runs of the synchronisation that overlap leave no more registrations behind than allowed for.
THEOREM BasicTypeCorrect == BasicSpec => []BasicTypeOK
BY BasicInvariant, BasicTypeFromInv, PTL

LEMMA CredentialsKept ==
    BasicInv /\ [BasicNext]_basicVars =>
        \A d \in credentials \ credentials' : thing[d] # "present" \/ deletions > 0 \/ ~tenantThere \/ cut
<1> SUFFICES ASSUME BasicInv, [BasicNext]_basicVars, NEW d \in credentials \ credentials'
             PROVE  thing[d] # "present" \/ deletions > 0 \/ ~tenantThere \/ cut
    OBVIOUS
<1>1. CASE Wipe
    BY <1>1 DEF Wipe, BasicInv, DeletionsOnly
<1>2. ASSUME NEW x \in Things, OnThingRemoved(x)
      PROVE  thing[d] # "present"
    BY <1>2 DEF OnThingRemoved
<1>3. ASSUME NEW p \in Posts, PostSteps(p)
      PROVE  FALSE
    BY <1>3 DEF PostSteps, PostValidated, PostFindsTenant, PostCreatesTenant, PostUpserts, mongoVars
<1>4. ASSUME NEW s \in Syncs, SyncRemoves(s)
      PROVE  thing[d] # "present" \/ cut
    <2>1. \A x \in sync[s].todo : thing[x] = "gone" \/ cut
        BY <1>4 DEF SyncRemoves, BasicInv, RemovalsOnly
    <2> QED
        BY <1>4, <2>1 DEF SyncRemoves
<1>5. ASSUME NEW s \in Syncs, SyncWipes(s)
      PROVE  deletions > 0
    BY <1>5 DEF SyncWipes, BasicInv, DeletionsOnly
<1>6. CASE UNCHANGED credentials
    BY <1>6
<1>7. CASE UNCHANGED basicVars
    BY <1>6, <1>7 DEF basicVars, mongoVars
<1>8. ASSUME NEW x \in Things, ThingChanges(x)
      PROVE  UNCHANGED credentials
    BY <1>8 DEF ThingChanges, mongoVars
<1>9. TenantChanges \/ OnTenantCreated \/ SessionOpens \/ OnTenantDeleted => UNCHANGED credentials
    BY DEF TenantChanges, OnTenantCreated, SessionOpens, OnTenantDeleted, mongoVars
<1>10. ASSUME NEW p \in Posts, NEW x \in Things, PostArrives(p, x)
       PROVE  UNCHANGED credentials
    BY <1>10 DEF PostArrives, mongoVars
<1>11. ASSUME NEW s \in Syncs, \/ SyncBegins(s) \/ SyncFails(s) \/ SyncFindsRecords(s)
                               \/ SyncLoadsTenants(s) \/ SyncFindsCredentials(s) \/ SyncGetsDevices(s)
                               \/ SyncCannotFind(s)
       PROVE  UNCHANGED credentials
    BY <1>11 DEF SyncBegins, SyncFails, SyncFindsRecords, SyncLoadsTenants, SyncFindsCredentials,
                 SyncGetsDevices, SyncCannotFind, mongoVars
<1> QED
    BY <1>1, <1>2, <1>3, <1>4, <1>5, <1>6, <1>7, <1>8, <1>9, <1>10, <1>11 DEF BasicNext, SyncSteps

\* No event, however late or repeated, no run of the synchronisation, however it overlaps with others
\* and with the device manager's changes, takes the credential of a device that the device manager
\* has, as long as its tenant was not deleted and no answer of the device manager was cut to a page.
THEOREM DevicesKeepCredentials == BasicSpec => CredentialsOfDevicesKept
BY CredentialsKept, BasicInvariant, PTL DEF BasicSpec, CredentialsOfDevicesKept

-----------------------------------------------------------------------------
(* The four of them *)

recoveryVars == <<subject, v2kVars, k2vVars, disconnectVars, basicVars>>

RecoveryInv ==
    /\ subject \in Subjects
    /\ V2kInv /\ QueueInv /\ K2vInv /\ ConsumersInv /\ DisconnectInv /\ NumbersInv /\ BasicInv

LEMMA RecoveryInvInit == RecoveryInit => RecoveryInv
BY V2kInvInit, QueueInvInit, K2vInvInit, ConsumersInvInit, DisconnectInvInit, NumbersInvInit, BasicInvInit
DEF RecoveryInit, RecoveryInv

\* A step is, for each of them, one of its own or none.
LEMMA RecoveryMoves ==
    ASSUME [RecoveryNext]_recoveryVars
    PROVE  /\ UNCHANGED subject
           /\ [V2kNext]_v2kVars /\ [K2vNext]_k2vVars
           /\ [DisconnectNext]_disconnectVars /\ [BasicNext]_basicVars
BY DEF RecoveryNext, recoveryVars

LEMMA RecoveryInvStep == RecoveryInv /\ [RecoveryNext]_recoveryVars => RecoveryInv'
<1> SUFFICES ASSUME RecoveryInv, [RecoveryNext]_recoveryVars
             PROVE  RecoveryInv'
    OBVIOUS
<1> QED
    BY RecoveryMoves, V2kInvStep, QueueInvStep, K2vInvStep, ConsumersInvStep, DisconnectInvStep, NumbersInvStep,
       BasicInvStep
    DEF RecoveryInv

\* Whichever component runs, the others keep what they have.
THEOREM RecoveryTypeCorrect == RecoverySpec => []RecoveryTypeOK
<1>1. RecoveryInv => RecoveryTypeOK
    BY BasicTypeFromInv DEF RecoveryInv, V2kInv, QueueInv, K2vInv, ConsumersInv, NumbersInv,
       V2kTypeOK, K2vTypeOK, RecoveryTypeOK
<1> QED
    BY <1>1, RecoveryInvInit, RecoveryInvStep, PTL DEF RecoverySpec, recoveryVars

\* What each of the four keeps alone it keeps with the others: the bridges, the plugin and the basic
\* authentication share nothing.
THEOREM RecoveryStaysSound ==
    RecoverySpec => /\ [](ProducedOnce /\ ConsumerFollowsConnection /\ TimersFollowSessions)
                    /\ CredentialsOfDevicesKept
<1>1. RecoveryInv => ProducedOnce /\ ConsumerFollowsConnection /\ TimersFollowSessions
    BY ProducedOnceKept, ConsumerKept DEF RecoveryInv, DisconnectInv
<1>2. RecoveryInv /\ [RecoveryNext]_recoveryVars =>
          [\A d \in credentials \ credentials' : thing[d] # "present" \/ deletions > 0 \/ ~tenantThere \/ cut]_basicVars
    BY RecoveryMoves, CredentialsKept DEF RecoveryInv
<1> QED
    BY <1>1, <1>2, RecoveryInvInit, RecoveryInvStep, PTL DEF RecoverySpec, recoveryVars, CredentialsOfDevicesKept

=============================================================================
