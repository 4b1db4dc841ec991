------------------------------ MODULE KafkaWs -------------------------------
(***************************************************************************)
(* kafka-ws: websockets that receive the messages of one Kafka topic each.  *)
(*                                                                         *)
(* A client obtains a ticket, presents it when it opens the websocket, and  *)
(* is served until one side closes.  The websocket is open before the       *)
(* middlewares look at the ticket (express-ws shakes hands first), so that  *)
(* it may close before onConnection runs.  Sessions share one Kafka         *)
(* callback per topic and one processing rule per (topic, fields, where);   *)
(* the lifetime of a session is a key in Redis, whose expiration Redis      *)
(* announces to a subscriber, once, and to nobody if nobody listens.        *)
(***************************************************************************)
EXTENDS Naturals, FiniteSets

CONSTANTS
    Sessions,       \* websocket connections over a behaviour
    Topics, Tenants,
    TenantOf,       \* topic -> the tenant that prefixes its name
    Tickets,        \* HMACs of (tenant, expiration, second of issue)
    HolderOf,       \* ticket -> the tenant of its token
    Rules,          \* processing rules: fields and conditions
    MaxFaults,      \* bound: connections lost
    MaxIssues       \* bound: times that each ticket is issued

ASSUME KwAssumption ==
    /\ TenantOf \in [Topics -> Tenants]
    /\ HolderOf \in [Tickets -> Tenants]
    /\ MaxFaults \in Nat /\ MaxIssues \in Nat

VARIABLES
    stored,         \* tickets that Redis holds
    issued, used,   \* history: times each ticket was issued, and redeemed
    ws,             \* ws[s]: the websocket: "none", "open", "closing", "closed"
    stage,          \* stage[s]: its request: "none", "admitted", "redeemed", "done"
    sess,           \* sess[s]: what the request of session s says
    handler,        \* sessions whose 'close' event has a handler
    early,          \* history: sessions whose 'close' event found no handler
    topicMap,       \* topicMap[t]: sessions with a callback on topic t
    registered,     \* topics with a callback on the Kafka consumer
    rules,          \* rules[<<t, r>>]: how many sessions share the rule
    expirationMap,  \* sessions whose close is armed in RedisExpireMgmt
    keys,           \* keys[s]: the session's key in Redis: "none", "set", "expired"
    notices,        \* announcements of expired keys on their way
    pub, sub,       \* the two Redis connections
    isKafkaAvailable,
    received,       \* history: received[s]: topics of which s was sent a message
    missed,         \* history: sessions whose lifetime an outage of Redis touched
    faults

ticketVars == <<stored, issued, used>>
sessVars == <<ws, stage, sess, handler, early>>
subsVars == <<topicMap, registered, rules>>
expireVars == <<expirationMap, keys, notices, missed>>
linkVars == <<pub, sub, isKafkaAvailable, faults>>
kwVars == <<ticketVars, sessVars, subsVars, expireVars, linkVars, received>>

SessRequest == [ticket : Tickets, topic : Topics, rule : Rules, wellFormed : BOOLEAN]

\* StateManager.isReady(): every connection has signalled that it is up.
IsReady == pub = "up" /\ sub = "up" /\ isKafkaAvailable

\* clients.sub.connected && clients.pub.connected; a subscriber that has
\* connected is deaf until its SUBSCRIBE has been answered.
BothConnected == pub = "up" /\ sub \in {"connected", "up"}

KwInit ==
    /\ stored = {}
    /\ issued = [k \in Tickets |-> 0]
    /\ used = [k \in Tickets |-> 0]
    /\ ws = [s \in Sessions |-> "none"]
    /\ stage = [s \in Sessions |-> "none"]
    /\ sess \in [Sessions -> SessRequest]
    /\ handler = {}
    /\ early = {}
    /\ topicMap = [t \in Topics |-> {}]
    /\ registered = {}
    /\ rules = [tr \in Topics \X Rules |-> 0]
    /\ expirationMap = {}
    /\ keys = [s \in Sessions |-> "none"]
    /\ notices = {}
    /\ pub = "up"
    /\ sub = "up"
    /\ isKafkaAvailable = TRUE
    /\ received = [s \in Sessions |-> {}]
    /\ missed = {}
    /\ faults = 0

-----------------------------------------------------------------------------
(* Tickets *)

\* GET /ticket: SETEX of the ticket.  The token names the second it was issued
\* in and nothing unique, so that a ticket may be issued more than once.
IssueTicket(k) ==
    /\ IsReady
    /\ issued[k] < MaxIssues
    /\ stored' = stored \cup {k}
    /\ issued' = [issued EXCEPT ![k] = @ + 1]
    /\ UNCHANGED <<used, sessVars, subsVars, expireVars, linkVars, received>>

TicketExpires(k) ==
    /\ k \in stored
    /\ stored' = stored \ {k}
    /\ UNCHANGED <<issued, used, sessVars, subsVars, expireVars, linkVars, received>>

\* A websocket opens, and its request passes the interceptor of the application.
Admit(s) ==
    /\ ws[s] = "none"
    /\ IsReady
    /\ ws' = [ws EXCEPT ![s] = "open"]
    /\ stage' = [stage EXCEPT ![s] = "admitted"]
    /\ UNCHANGED <<ticketVars, sess, handler, early, subsVars, expireVars, linkVars, received>>

\* The server closes a websocket; one that is closing or closed stays so.
Close(s) == ws' = IF ws[s] = "open" THEN [ws EXCEPT ![s] = "closing"] ELSE ws

\* What the token of ticket k leads to: the next middleware, or the error handler.
Introspect(s, k, valid) ==
    IF k \in stored /\ valid
    THEN /\ used' = [used EXCEPT ![k] = @ + 1]
         /\ stage' = [stage EXCEPT ![s] = "redeemed"]
         /\ UNCHANGED ws
    ELSE /\ stage' = [stage EXCEPT ![s] = "done"]
         /\ Close(s)
         /\ UNCHANGED used

\* Mutant: the ticket is read and left to its time to live.
RedeemKeeping(s) ==
    /\ stage[s] = "admitted"
    /\ \E valid \in BOOLEAN : Introspect(s, sess[s].ticket, valid)
    /\ UNCHANGED <<stored, issued, sess, handler, early, subsVars, expireVars, linkVars, received>>

\* retrieveEncodedToken: GET and DEL in one MULTI.  The token may have expired
\* by a clock that is not Redis's.
Redeem(s) ==
    /\ stage[s] = "admitted"
    /\ stored' = stored \ {sess[s].ticket}
    /\ \E valid \in BOOLEAN : Introspect(s, sess[s].ticket, valid)
    /\ UNCHANGED <<issued, sess, handler, early, subsVars, expireVars, linkVars, received>>

-----------------------------------------------------------------------------
(* Sessions *)

\* Mutant: a ticket of any tenant opens any topic.
AllowedAlways(s) == sess[s].topic \in Topics

\* checkTenantCanAccessTopic
Allowed(s) == TenantOf[sess[s].topic] = HolderOf[sess[s].ticket]

\* setExpiration and addConnection: nothing is armed while Redis is away.
ArmExpiration(s) ==
    /\ expirationMap' = IF BothConnected THEN expirationMap \cup {s} ELSE expirationMap
    /\ keys' = IF BothConnected THEN [keys EXCEPT ![s] = "set"] ELSE keys
    /\ missed' = IF BothConnected THEN missed ELSE missed \cup {s}
    /\ UNCHANGED notices

\* addRule and addCallback
Subscribe(s) ==
    LET t == sess[s].topic IN
    /\ rules' = [rules EXCEPT ![<<t, sess[s].rule>>] = @ + 1]
    /\ topicMap' = [topicMap EXCEPT ![t] = @ \cup {s}]
    /\ registered' = registered \cup {t}

\* onConnection, whether or not the websocket is still there.  Closing it (Kafka
\* away, foreign topic) does not end the function; a condition that cannot be
\* parsed does, with the expiration armed and before 'close' has a handler.
Connect(s) ==
    /\ stage[s] = "redeemed"
    /\ stage' = [stage EXCEPT ![s] = "done"]
    /\ IF isKafkaAvailable /\ Allowed(s) /\ sess[s].wellFormed THEN UNCHANGED ws ELSE Close(s)
    /\ ArmExpiration(s)
    /\ IF sess[s].wellFormed
       THEN Subscribe(s) /\ handler' = handler \cup {s}
       ELSE UNCHANGED <<subsVars, handler>>
    /\ UNCHANGED <<ticketVars, sess, early, linkVars, received>>

\* The client closes, or its connection breaks, whatever its request waits for.
ClientCloses(s) ==
    /\ ws[s] = "open"
    /\ Close(s)
    /\ UNCHANGED <<ticketVars, stage, sess, handler, early, subsVars, expireVars, linkVars, received>>

\* Mutant: the topic's Kafka callback goes with the first session that leaves.
UnsubscribeFirst(s) ==
    LET t == sess[s].topic IN
        /\ rules' = [rules EXCEPT ![<<t, sess[s].rule>>] = @ - 1]
        /\ topicMap' = [topicMap EXCEPT ![t] = @ \ {s}]
        /\ registered' = registered \ {t}

\* removeRule and removeCallback
Unsubscribe(s) ==
    LET t == sess[s].topic
        left == topicMap[t] \ {s}
    IN  /\ rules' = [rules EXCEPT ![<<t, sess[s].rule>>] = @ - 1]
        /\ topicMap' = [topicMap EXCEPT ![t] = left]
        /\ registered' = IF left = {} THEN registered \ {t} ELSE registered

\* Mutant: the key is deleted and the entry stays.
DisarmExpirationKeeping(s) ==
    /\ keys' = IF BothConnected /\ s \in expirationMap /\ keys[s] = "set"
               THEN [keys EXCEPT ![s] = "none"] ELSE keys
    /\ missed' = IF BothConnected THEN missed ELSE missed \cup {s}
    /\ UNCHANGED <<expirationMap, notices>>

\* removeConnection: while Redis is away the entry stays.
DisarmExpiration(s) ==
    /\ expirationMap' = IF BothConnected THEN expirationMap \ {s} ELSE expirationMap
    /\ keys' = IF BothConnected /\ s \in expirationMap /\ keys[s] = "set"
               THEN [keys EXCEPT ![s] = "none"] ELSE keys
    /\ missed' = IF BothConnected THEN missed ELSE missed \cup {s}
    /\ UNCHANGED notices

\* The closing handshake ends: 'close' is emitted, once.
CloseEvent(s) ==
    /\ ws[s] = "closing"
    /\ ws' = [ws EXCEPT ![s] = "closed"]
    /\ IF s \in handler
       THEN Unsubscribe(s) /\ DisarmExpiration(s) /\ UNCHANGED early
       ELSE early' = early \cup {s} /\ UNCHANGED <<subsVars, expireVars>>
    /\ UNCHANGED <<ticketVars, stage, sess, handler, linkVars, received>>

\* Kafka delivers a message that the rules M let through.  The websocket
\* library sends nothing on a connection that is closing.
Deliver(t, M) ==
    /\ t \in registered
    /\ isKafkaAvailable
    /\ received' = [s \in Sessions |->
                       IF s \in topicMap[t] /\ sess[s].rule \in M /\ ws[s] = "open"
                       THEN received[s] \cup {t} ELSE received[s]]
    /\ UNCHANGED <<ticketVars, sessVars, subsVars, expireVars, linkVars>>

-----------------------------------------------------------------------------
(* Expiration *)

\* Redis drops the key and announces it to who is subscribed at that moment.
KeyExpires(s) ==
    /\ keys[s] = "set"
    /\ keys' = [keys EXCEPT ![s] = "expired"]
    /\ notices' = IF sub = "up" THEN notices \cup {s} ELSE notices
    /\ missed' = IF sub = "up" THEN missed ELSE missed \cup {s}
    /\ UNCHANGED <<ticketVars, sessVars, subsVars, expirationMap, linkVars, received>>

\* Mutant: the entry is removed and the websocket left open.
OnExpiredForgetting(s) ==
    /\ s \in notices
    /\ notices' = notices \ {s}
    /\ expirationMap' = expirationMap \ {s}
    /\ UNCHANGED <<ticketVars, sessVars, subsVars, keys, missed, linkVars, received>>

\* onMessage: the armed close runs; closing twice does nothing.
OnExpired(s) ==
    /\ s \in notices
    /\ notices' = notices \ {s}
    /\ IF s \in expirationMap THEN Close(s) ELSE UNCHANGED ws
    /\ UNCHANGED <<ticketVars, stage, sess, handler, early, subsVars, expirationMap, keys, missed,
                   linkVars, received>>

-----------------------------------------------------------------------------
(* Connections *)

LosesPub ==
    /\ pub = "up" /\ faults < MaxFaults
    /\ pub' = "down"
    /\ faults' = faults + 1
    /\ UNCHANGED <<ticketVars, sessVars, subsVars, expireVars, sub, isKafkaAvailable, received>>

\* Announcements that have not been read are gone.
LosesSub ==
    /\ sub # "down" /\ faults < MaxFaults
    /\ sub' = "down"
    /\ missed' = missed \cup notices
    /\ notices' = {}
    /\ faults' = faults + 1
    /\ UNCHANGED <<ticketVars, sessVars, subsVars, expirationMap, keys, pub, isKafkaAvailable, received>>

PubConnects ==
    /\ pub = "down"
    /\ pub' = "up"
    /\ UNCHANGED <<ticketVars, sessVars, subsVars, expireVars, sub, isKafkaAvailable, faults, received>>

\* 'connect', and then the answer to subscribe().
SubConnects ==
    /\ sub # "up"
    /\ sub' = IF sub = "down" THEN "connected" ELSE "up"
    /\ UNCHANGED <<ticketVars, sessVars, subsVars, expireVars, pub, isKafkaAvailable, faults, received>>

\* checkHealth
LosesKafka ==
    /\ isKafkaAvailable /\ faults < MaxFaults
    /\ isKafkaAvailable' = FALSE
    /\ faults' = faults + 1
    /\ UNCHANGED <<ticketVars, sessVars, subsVars, expireVars, pub, sub, received>>

KafkaRecovers ==
    /\ ~isKafkaAvailable
    /\ isKafkaAvailable' = TRUE
    /\ UNCHANGED <<ticketVars, sessVars, subsVars, expireVars, pub, sub, faults, received>>

-----------------------------------------------------------------------------
KwNext ==
    \/ \E k \in Tickets : IssueTicket(k) \/ TicketExpires(k)
    \/ \E s \in Sessions :
        \/ Admit(s) \/ Redeem(s) \/ Connect(s) \/ ClientCloses(s) \/ CloseEvent(s)
        \/ KeyExpires(s) \/ OnExpired(s)
    \/ \E t \in Topics, M \in SUBSET Rules : Deliver(t, M)
    \/ LosesPub \/ LosesSub \/ PubConnects \/ SubConnects \/ LosesKafka \/ KafkaRecovers

KwSpec == KwInit /\ [][KwNext]_kwVars

\* A key with a lifetime expires, an announcement is read, a closing handshake
\* ends (the library gives up on the peer after 30 s), and an admitted request
\* is worked off.  Clients need not close, and Redis need not come back.
KwFairness ==
    \A s \in Sessions :
        /\ WF_kwVars(Redeem(s))
        /\ WF_kwVars(Connect(s))
        /\ WF_kwVars(KeyExpires(s))
        /\ WF_kwVars(OnExpired(s))
        /\ WF_kwVars(CloseEvent(s))

KwFairSpec == KwSpec /\ KwFairness

-----------------------------------------------------------------------------
(* Properties *)

\* Shapes of the state of kafka-ws.
KwTypeOK ==
    /\ stored \subseteq Tickets
    /\ issued \in [Tickets -> Nat] /\ used \in [Tickets -> Nat]
    /\ ws \in [Sessions -> {"none", "open", "closing", "closed"}]
    /\ stage \in [Sessions -> {"none", "admitted", "redeemed", "done"}]
    /\ sess \in [Sessions -> SessRequest]
    /\ handler \subseteq Sessions /\ early \subseteq Sessions
    /\ topicMap \in [Topics -> SUBSET Sessions]
    /\ registered \subseteq Topics
    /\ rules \in [Topics \X Rules -> Nat]
    /\ expirationMap \subseteq Sessions
    /\ keys \in [Sessions -> {"none", "set", "expired"}]
    /\ notices \subseteq Sessions
    /\ pub \in {"down", "up"} /\ sub \in {"down", "connected", "up"}
    /\ isKafkaAvailable \in BOOLEAN
    /\ received \in [Sessions -> SUBSET Topics]
    /\ missed \subseteq Sessions
    /\ faults \in Nat

\* A ticket opens one session for each time it was issued, however requests that
\* present it interleave: "single-use ticket".
TicketsAreSingleUse == \A k \in Tickets : used[k] <= issued[k]

\* Sessions that a 'close' event will unsubscribe, and those it has missed: closed
\* before onConnection subscribed them, they are never unsubscribed.
Served(t) == {s \in handler : sess[s].topic = t /\ (ws[s] # "closed" \/ s \in early)}

\* The shared resources follow the sessions through any order of arrivals and
\* departures: a topic has its one Kafka callback exactly while some session
\* needs it, no session loses it when another one leaves, and a rule counts
\* its users.  The one leak is a client that leaves while its ticket is read.
SharingFollowsSessions ==
    \A t \in Topics :
        /\ topicMap[t] = Served(t)
        /\ t \in registered <=> Served(t) # {}
        /\ \A r \in Rules : rules[<<t, r>>] = Cardinality({s \in Served(t) : sess[s].rule = r})

\* onConnection goes on after it has closed a websocket on a foreign topic, and
\* subscribes it; still no tenant is sent a message of another one's topic.
TenantIsolation ==
    \A s \in Sessions : \A t \in received[s] : TenantOf[t] = HolderOf[sess[s].ticket]

\* Every armed expiration belongs to a session that is still there; the ways in
\* which the map leaks are a 'close' without a handler (a malformed condition,
\* a client gone too early) and an outage of Redis.
NoStaleExpiration ==
    \A s \in expirationMap : ws[s] = "closed" => s \in early \cup missed

\* A session whose lifetime no outage of Redis touched is closed in the end,
\* though its client never closes it.
LifetimeWithoutOutage == \A s \in Sessions : ws[s] = "open" ~> ws[s] = "closed" \/ s \in missed

\* The documentation's maximum lifetime of a connection, for every session.
LifetimeIsLimited == \A s \in Sessions : ws[s] = "open" ~> ws[s] = "closed"

=============================================================================
