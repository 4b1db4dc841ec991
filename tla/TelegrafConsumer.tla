-------------------------- MODULE TelegrafConsumer --------------------------
(***************************************************************************)
(* telegraf/plugins/inputs/kafka_consumer_vdojot: one goroutine opens      *)
(* sessions of a consumer group and another replaces the consumer at each  *)
(* refresh of the topics.  In a session, one claim per partition reserves  *)
(* a slot for each message, hands it to Telegraf's outputs with a tracking *)
(* id, and frees the slot when the outputs answer.  sarama and Telegraf    *)
(* are external; the tracked messages of a session whose handler is gone   *)
(* are not marked.                                                         *)
(***************************************************************************)
EXTENDS Naturals, FiniteSets

CONSTANTS
    Partitions,
    MaxOffset,       \* messages of a partition
    MaxUndelivered,  \* max_undelivered_messages
    MaxSessions,     \* sessions
    MaxRefreshes     \* ticks of the refresh of the topics

ASSUME TelegrafAssumption ==
    /\ IsFiniteSet(Partitions) /\ MaxUndelivered \in Nat \ {0}
    /\ {MaxOffset, MaxSessions, MaxRefreshes} \subseteq Nat

VARIABLES
    consumer,        \* number of the consumer in k.consumer
    open,            \* consumers not closed
    consuming,       \* the consumer the loop called Consume on, 0 when it is between two calls
    claim,           \* step of each claim
    fetched,         \* next offset of each claim
    slots,           \* in use in the semaphore of the handler
    undelivered,     \* messages handed to Telegraf in this session
    marked,       \* marked offsets
    sessions, refreshes,
    stopping

marks == <<fetched, marked>>
loopVars == <<consumer, open, consuming, refreshes, stopping>>
telegrafVars == <<loopVars, claim, marks, slots, undelivered, sessions>>

Ready == [p \in Partitions |-> "reserve"]
Ended == [p \in Partitions |-> "ended"]

TelegrafInit ==
    /\ consumer = 1 /\ open = {1} /\ consuming = 0
    /\ claim = Ended
    /\ fetched = [p \in Partitions |-> 0] /\ marked = [p \in Partitions |-> 0]
    /\ slots = 0 /\ undelivered = {}
    /\ sessions = 0 /\ refreshes = 0 /\ stopping = FALSE

-----------------------------------------------------------------------------
(* Start: the two goroutines *)

\* Mutant: one handler for all the sessions; Setup resets its map only.
OpensSessionAgain ==
    /\ consuming = 0 /\ ~stopping /\ sessions < MaxSessions /\ consumer \in open
    /\ sessions' = sessions + 1 /\ consuming' = consumer
    /\ claim' = Ready /\ fetched' = marked
    /\ undelivered' = {}
    /\ UNCHANGED <<consumer, open, refreshes, stopping, marked, slots>>

\* A new handler for each call of Consume; claims begin at the marks.
OpensSession ==
    /\ consuming = 0 /\ ~stopping /\ sessions < MaxSessions /\ consumer \in open
    /\ sessions' = sessions + 1 /\ consuming' = consumer
    /\ claim' = Ready /\ fetched' = marked
    /\ slots' = 0 /\ undelivered' = {}
    /\ UNCHANGED <<consumer, open, refreshes, stopping, marked>>

\* The session is over for its claims: a rebalance, a closed consumer, or the end of the plugin.
\* The one waiting in Reserve, or for a message with its slot reserved, returns.
ClaimReturns(p) ==
    /\ claim[p] \in {"reserve", "receive"}
    /\ claim' = [claim EXCEPT ![p] = "ended"]
    /\ UNCHANGED <<loopVars, marks, slots, undelivered, sessions>>

\* Cleanup, and Consume returns.
ClosesSession ==
    /\ consuming # 0 /\ claim = Ended
    /\ consuming' = 0 /\ undelivered' = {}
    /\ UNCHANGED <<consumer, open, refreshes, stopping, claim, marks, slots, sessions>>

\* The loop ends: it closes the consumer it finds in k.consumer.
ClosesConsumer ==
    /\ stopping /\ consuming = 0 /\ consumer \in open
    /\ open' = open \ {consumer}
    /\ UNCHANGED <<consumer, consuming, refreshes, stopping, claim, marks, slots, undelivered, sessions>>

Stops ==
    /\ ~stopping /\ stopping' = TRUE
    /\ UNCHANGED <<consumer, open, consuming, refreshes, claim, marks, slots, undelivered, sessions>>

\* The ticker, which nothing stops: it closes k.consumer and puts another in its place.  When it finds
\* no topics the sessions have no claims; when it cannot make a consumer the next call on it panics, and
\* Telegraf ends.
Refreshes ==
    /\ refreshes < MaxRefreshes /\ refreshes' = refreshes + 1
    /\ consumer' = consumer + 1 /\ open' = (open \ {consumer}) \cup {consumer + 1}
    /\ UNCHANGED <<consuming, stopping, claim, marks, slots, undelivered, sessions>>

-----------------------------------------------------------------------------
(* ConsumerGroupHandler *)

\* Mutant: a slot is reserved whether one is free or not.
ReservesMore(p) ==
    /\ claim[p] = "reserve"
    /\ slots' = slots + 1
    /\ claim' = [claim EXCEPT ![p] = "receive"]
    /\ UNCHANGED <<loopVars, marks, undelivered, sessions>>

Reserves(p) ==
    /\ claim[p] = "reserve" /\ slots < MaxUndelivered
    /\ slots' = slots + 1
    /\ claim' = [claim EXCEPT ![p] = "receive"]
    /\ UNCHANGED <<loopVars, marks, undelivered, sessions>>

\* Handle: a message that is too long is marked, one that cannot be parsed is not; both free the slot.
HandlesMessage(p) ==
    /\ claim[p] = "receive" /\ fetched[p] < MaxOffset
    /\ fetched' = [fetched EXCEPT ![p] = @ + 1]
    /\ claim' = [claim EXCEPT ![p] = "reserve"]
    /\ \/ /\ undelivered' = undelivered \cup {<<p, fetched[p] + 1>>}
          /\ UNCHANGED <<slots, marked>>
       \/ /\ slots' = slots - 1 /\ UNCHANGED undelivered
          /\ marked' \in {marked, [marked EXCEPT ![p] = fetched[p] + 1]}
    /\ UNCHANGED <<loopVars, sessions>>

\* onDelivery: a mark never goes back; a rejected message is not marked.
Delivers(m) ==
    /\ consuming # 0 /\ m \in undelivered
    /\ undelivered' = undelivered \ {m} /\ slots' = slots - 1
    /\ \/ marked' = [marked EXCEPT ![m[1]] = IF m[2] > @ THEN m[2] ELSE @]
       \/ UNCHANGED marked
    /\ UNCHANGED <<loopVars, claim, fetched, sessions>>

TelegrafNext ==
    \/ OpensSession \/ ClosesSession \/ ClosesConsumer \/ Stops \/ Refreshes
    \/ \E p \in Partitions : ClaimReturns(p) \/ Reserves(p) \/ HandlesMessage(p)
    \/ \E m \in undelivered : Delivers(m)

TelegrafSpec == TelegrafInit /\ [][TelegrafNext]_telegrafVars

-----------------------------------------------------------------------------
TelegrafTypeOK ==
    /\ consumer \in 1..(MaxRefreshes + 1) /\ open \subseteq 1..(MaxRefreshes + 1)
    /\ consuming \in 0..(MaxRefreshes + 1)
    /\ claim \in [Partitions -> {"reserve", "receive", "ended"}]
    /\ {fetched, marked} \subseteq [Partitions -> 0..MaxOffset]
    /\ slots \in 0..MaxUndelivered
    /\ undelivered \subseteq Partitions \X (1..MaxOffset)
    /\ sessions \in 0..MaxSessions /\ refreshes \in 0..MaxRefreshes /\ stopping \in BOOLEAN

\* A slot is in use for a message Telegraf has not answered, or for the one a claim waits for, and for
\* nothing else: consumption cannot stop for want of slots while nothing is undelivered, whatever could
\* not be parsed, was rejected, or ended with an earlier session (Reserve, Handle, onDelivery, Start).
SlotsAreReturned ==
    (\A p \in Partitions : claim[p] # "ended") =>
        slots = Cardinality(undelivered) + Cardinality({p \in Partitions : claim[p] = "receive"})
=============================================================================
