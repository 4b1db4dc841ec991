--------------------------- MODULE CertificateAcl ---------------------------
(***************************************************************************)
(* certificate-acl: a Kafka consumer that keeps, in Redis, who owns each    *)
(* certificate, and an HTTP query that reads Redis and falls back to        *)
(* x509-identity-mgmt.                                                     *)
(*                                                                         *)
(* The callback of a record issues a Redis command and returns; the record *)
(* is acknowledged when the command's promise resolves, and a failed or     *)
(* timed-out command sends SIGTERM to the process.  Both the consumer and   *)
(* the query use one Redis connection, which executes commands in order.   *)
(* The Kafka client commits, from time to time, a run of acknowledged       *)
(* offsets that starts at the committed one.                               *)
(***************************************************************************)
EXTENDS OwnershipEvents

CONSTANTS
    Queries,        \* concurrent HTTP requests for an owner
    MaxInFlight,    \* bound: Redis commands not answered yet
    MaxFaults,      \* bound: lost connections, timeouts and kills
    MaxQueries,     \* bound: cache misses over a behaviour
    MaxRecords      \* bound, per partition: records that producers append

ASSUME AclBounds ==
    {MaxInFlight, MaxFaults, MaxQueries} \subseteq Nat /\ MaxRecords \in [Partitions -> Nat]

VARIABLES
    proc,           \* "starting" (init() pending), "running", "stopping" (SIGTERM sent)
    link,           \* the Redis connection: "connecting", "up", "down"
    suspended,      \* KafkaConsumer.suspended
    callback,       \* the topic's callback has an id: records are delivered
    position,       \* position[p]: the next offset to deliver
    acked,          \* acked[p]: offsets whose ack() ran in this incarnation
    committed,      \* committed[p]: the group's committed offset, kept by Kafka
    cmds,           \* Redis commands sent and not executed, in order
    replies,        \* <<p, o>> executed, whose promise has not resolved yet
    redis,          \* redis[f]: the owner stored for f, or NoOwner
    query,          \* query[q]: the state of one HTTP request
    applied,        \* history: <<p, o>> whose command Redis has executed
    filled,         \* history: fingerprints a query has written to Redis
    faults, asked   \* counters for the bounds

consumerVars == <<position, acked, committed>>
redisVars == <<cmds, replies, redis, applied, filled>>
queryVars == <<query, asked>>
aclVars == <<proc, link, suspended, callback, consumerVars, redisVars, queryVars, faults>>

Records == Partitions \X Nat
IdleQuery == [phase |-> "idle", fp |-> NoOwner, owner |-> NoOwner]

\* Mutant: the DEL of a removal names a key nothing is kept under.
EventCmdMissesRemovals(p, o) ==
    LET r == log[p][o + 1] IN
    [kind |-> "event", rec |-> <<p, o>>, fp |-> r.fp, abandoned |-> FALSE,
     owner |-> IF r.owner = NoOwner THEN redis[r.fp] ELSE r.owner]

\* A SET or DEL: for the record at <<p, o>>, or for a query ("fill").
\* A command is abandoned when its timeout has rejected the promise.
EventCmd(p, o) ==
    [kind |-> "event", rec |-> <<p, o>>, fp |-> log[p][o + 1].fp,
     owner |-> log[p][o + 1].owner, abandoned |-> FALSE]
FillCmd(f, o) ==
    [kind |-> "fill", rec |-> << >>, fp |-> f, owner |-> o, abandoned |-> FALSE]

AclInit ==
    /\ proc = "starting"
    /\ link = "connecting"
    /\ suspended = FALSE
    /\ callback = FALSE
    /\ position = [p \in Partitions |-> 0]
    /\ acked = [p \in Partitions |-> {}]
    /\ committed = [p \in Partitions |-> 0]
    /\ cmds = << >>
    /\ replies = {}
    /\ redis = [f \in Fingerprints |-> NoOwner]
    /\ query = [q \in Queries |-> IdleQuery]
    /\ applied = {}
    /\ filled = {}
    /\ faults = 0
    /\ asked = 0

-----------------------------------------------------------------------------
(* Life cycle and connection with Redis *)

\* Mutant: App.init does not look at a suspension that came first.
StartRegardless ==
    /\ proc = "starting"
    /\ proc' = "running"
    /\ callback' = TRUE
    /\ UNCHANGED <<log, link, suspended, consumerVars, redisVars, queryVars, faults>>

\* kafkaConsumer.init() resolved: App.init registers processData, with no
\* callback id if the consumer is already suspended.
Start ==
    /\ proc = "starting"
    /\ proc' = "running"
    /\ callback' = ~suspended
    /\ UNCHANGED <<log, link, suspended, consumerVars, redisVars, queryVars, faults>>

\* Commands whose failure would send SIGTERM.
Pending == {i \in DOMAIN cmds : cmds[i].kind = "event" /\ ~cmds[i].abandoned}

\* Mutant: the consumer is not resumed.
RedisConnectsOnly ==
    /\ link = "connecting" \/ (link = "down" /\ Pending = {})
    /\ link' = "up"
    /\ UNCHANGED <<log, proc, suspended, callback, consumerVars, redisVars, queryVars, faults>>

\* Redis 'connect' -> 'healthy' -> resume(): a suspended consumer subscribes
\* again, and Kafka hands it the partitions from the committed offsets, with
\* the acknowledgements of the previous assignment forgotten.  A
\* reconnection is attempted every redis.reconnect.after.ms (5 s), by when a
\* command queued meanwhile has exceeded redis.operation.timeout.ms (1 s).
RedisConnects ==
    /\ \/ link = "connecting"
       \/ link = "down" /\ Pending = {}
    /\ link' = "up"
    /\ suspended' = FALSE
    /\ callback' = (callback \/ (suspended /\ proc # "starting"))
    /\ position' = IF suspended THEN committed ELSE position
    /\ acked' = IF suspended THEN [p \in Partitions |-> {}] ELSE acked
    /\ UNCHANGED <<log, proc, committed, redisVars, queryVars, faults>>

\* Redis 'reconnecting' or 'end' -> 'unhealthy' -> suspend().  The client rejects
\* the commands a lost connection leaves unanswered, executed or not; before
\* the first connection they stay in its offline queue.
RedisDisconnects ==
    /\ link # "down"
    /\ faults < MaxFaults
    /\ link' = "down"
    /\ suspended' = TRUE
    /\ callback' = FALSE
    /\ IF link = "up"
       THEN /\ proc' = IF Pending # {} \/ replies # {} THEN "stopping" ELSE proc
            /\ cmds' = << >>
            /\ replies' = {}
       ELSE UNCHANGED <<proc, cmds, replies>>
    /\ faults' = faults + 1
    /\ UNCHANGED <<log, redis, applied, filled, consumerVars, queryVars>>

\* Mutant: a new consumer starts at the end of each partition.
ExitForgettingOffsets ==
    /\ proc' = "starting"
    /\ link' = "connecting"
    /\ suspended' = FALSE
    /\ callback' = FALSE
    /\ position' = [p \in Partitions |-> Len(log[p])]
    /\ acked' = [p \in Partitions |-> {}]
    /\ cmds' = << >>
    /\ replies' = {}
    /\ query' = [q \in Queries |-> IdleQuery]
    /\ UNCHANGED <<log, committed, redis, applied, filled, asked>>

\* The process ends, after SIGTERM's handlers or killed.  Commands Redis has
\* not executed and promises that have not resolved are gone; what the group
\* committed and what Redis stores stay.
Exit ==
    /\ proc' = "starting"
    /\ link' = "connecting"
    /\ suspended' = FALSE
    /\ callback' = FALSE
    /\ position' = committed
    /\ acked' = [p \in Partitions |-> {}]
    /\ cmds' = << >>
    /\ replies' = {}
    /\ query' = [q \in Queries |-> IdleQuery]
    /\ UNCHANGED <<log, committed, redis, applied, filled, asked>>

Terminated == proc = "stopping" /\ Exit /\ UNCHANGED faults

Killed ==
    /\ proc # "stopping" /\ faults < MaxFaults
    /\ Exit
    /\ faults' = faults + 1

-----------------------------------------------------------------------------
(* Consuming a record: App.processData *)

Deliverable(p, types) ==
    /\ callback
    /\ position[p] < Len(log[p])
    /\ log[p][position[p] + 1].type \in types

\* create and update set the owner, delete removes the entry.
DeliverOwnership(p) ==
    /\ Deliverable(p, {"create", "update", "delete"})
    /\ Len(cmds) < MaxInFlight
    /\ cmds' = Append(cmds, EventCmd(p, position[p]))
    /\ position' = [position EXCEPT ![p] = @ + 1]
    /\ UNCHANGED <<log, proc, link, suspended, callback, acked, committed, replies,
                   redis, applied, filled, queryVars, faults>>

\* An unexpected event type is discarded and acknowledged at once.
DeliverForeign(p) ==
    /\ Deliverable(p, {"foreign"})
    /\ acked' = [acked EXCEPT ![p] = @ \cup {position[p]}]
    /\ position' = [position EXCEPT ![p] = @ + 1]
    /\ applied' = applied \cup {<<p, position[p]>>}
    /\ UNCHANGED <<log, proc, link, suspended, callback, committed, cmds, replies,
                   redis, filled, queryVars, faults>>

\* A record that cannot be parsed or lacks an attribute terminates the service.
DeliverMalformed(p) ==
    /\ Deliverable(p, {"malformed"})
    /\ position' = [position EXCEPT ![p] = @ + 1]
    /\ proc' = "stopping"
    /\ UNCHANGED <<log, link, suspended, callback, acked, committed, redisVars,
                   queryVars, faults>>

\* Redis executes the oldest command.
RedisExecutes ==
    /\ link = "up"
    /\ cmds # << >>
    /\ LET c == Head(cmds) IN
        /\ redis' = [redis EXCEPT ![c.fp] = c.owner]
        /\ IF c.kind = "event"
           THEN /\ applied' = applied \cup {c.rec}
                /\ replies' = IF c.abandoned THEN replies ELSE replies \cup {c.rec}
                /\ UNCHANGED filled
           ELSE /\ filled' = filled \cup {c.fp}
                /\ UNCHANGED <<applied, replies>>
    /\ cmds' = Tail(cmds)
    /\ UNCHANGED <<log, proc, link, suspended, callback, consumerVars, queryVars, faults>>

\* The promise of an executed command resolves: ack().
Ack(r) ==
    /\ r \in replies
    /\ replies' = replies \ {r}
    /\ acked' = [acked EXCEPT ![r[1]] = @ \cup {r[2]}]
    /\ UNCHANGED <<log, proc, link, suspended, callback, position, committed, cmds,
                   redis, applied, filled, queryVars, faults>>

\* Mutant: the error is ignored and the record acknowledged.
CommandTimesOutSilently(i) ==
    /\ ~cmds[i].abandoned
    /\ link = "down" \/ faults < MaxFaults
    /\ cmds' = [cmds EXCEPT ![i].abandoned = TRUE]
    /\ acked' = IF cmds[i].kind = "event"
                THEN [acked EXCEPT ![cmds[i].rec[1]] = @ \cup {cmds[i].rec[2]}] ELSE acked
    /\ faults' = IF link = "down" THEN faults ELSE faults + 1
    /\ UNCHANGED <<log, proc, link, suspended, callback, position, committed, replies,
                   redis, applied, filled, queryVars>>

\* operation.timeout.ms elapses first.  The record's callback sends SIGTERM and
\* never acknowledges; a query only logs.  Redis may still execute the command.
CommandTimesOut(i) ==
    /\ ~cmds[i].abandoned
    /\ link = "down" \/ faults < MaxFaults
    /\ cmds' = [cmds EXCEPT ![i].abandoned = TRUE]
    /\ proc' = IF cmds[i].kind = "event" THEN "stopping" ELSE proc
    /\ faults' = IF link = "down" THEN faults ELSE faults + 1
    /\ UNCHANGED <<log, link, suspended, callback, consumerVars, replies, redis,
                   applied, filled, queryVars>>

\* Kafka client: commit a run of acknowledged offsets from the committed one.
Commit(p) ==
    \E n \in committed[p] + 1 .. position[p] :
        /\ \A o \in committed[p] .. n - 1 : o \in acked[p]
        /\ committed' = [committed EXCEPT ![p] = n]
        /\ UNCHANGED <<log, proc, link, suspended, callback, position, acked,
                       redisVars, queryVars, faults>>

-----------------------------------------------------------------------------
(* HTTP query: queryOwnerByFingerprint (a hit answers and changes nothing) *)

\* GET finds no entry, or fails: x509-identity-mgmt is asked.
QueryMisses(q, f) ==
    /\ query[q].phase = "idle"
    /\ redis[f] = NoOwner \/ link # "up"
    /\ asked < MaxQueries
    /\ asked' = asked + 1
    /\ query' = [query EXCEPT ![q] = [phase |-> "asking", fp |-> f, owner |-> NoOwner]]
    /\ UNCHANGED <<log, proc, link, suspended, callback, consumerVars, redisVars, faults>>

\* x509-identity-mgmt answers o; with no owner, or an error, the query ends.
ServiceAnswers(q, o) ==
    /\ query[q].phase = "asking"
    /\ query' = [query EXCEPT ![q] =
                    IF o = NoOwner THEN IdleQuery
                    ELSE [@ EXCEPT !.phase = "answered", !.owner = o]]
    /\ UNCHANGED <<log, proc, link, suspended, callback, consumerVars, redisVars, asked,
                   faults>>

\* The answer is returned, and written to Redis without waiting for it.
QueryFills(q) ==
    /\ query[q].phase = "answered"
    /\ Len(cmds) < MaxInFlight
    /\ cmds' = Append(cmds, FillCmd(query[q].fp, query[q].owner))
    /\ query' = [query EXCEPT ![q] = IdleQuery]
    /\ UNCHANGED <<log, proc, link, suspended, callback, consumerVars, replies, redis,
                   applied, filled, asked, faults>>

-----------------------------------------------------------------------------
AclStep ==
    \/ Start \/ RedisConnects \/ RedisDisconnects \/ Terminated \/ Killed
    \/ \E p \in Partitions :
        DeliverOwnership(p) \/ DeliverForeign(p) \/ DeliverMalformed(p) \/ Commit(p)
    \/ RedisExecutes
    \/ \E r \in replies : Ack(r)
    \/ \E i \in DOMAIN cmds : CommandTimesOut(i)
    \/ \E q \in Queries :
        (\E f \in Fingerprints : QueryMisses(q, f)) \/ QueryFills(q)

\* What x509-identity-mgmt, or another producer on a matching topic, may append
\* to partition p.  A removal is keyed by the previous owner.
Publishable(p) ==
    LET here == {o \in Owners : PartitionOf[o] = p} IN
        [type : {"create", "update"}, fp : Fingerprints, owner : here]
        \cup (IF here = {} THEN {} ELSE {Removal(f) : f \in Fingerprints})
        \cup [type : {"foreign", "malformed"}, fp : Fingerprints, owner : {NoOwner}]

Publish(p, e) ==
    /\ Len(log[p]) < MaxRecords[p]
    /\ Append2Partition(p, e)
    /\ UNCHANGED aclVars

\* certificate-acl on its own: anything may be published, and the service may
\* answer a query with any owner.
AclNext ==
    \/ AclStep
    \/ \E p \in Partitions : \E e \in Publishable(p) : Publish(p, e)
    \/ \E q \in Queries : \E o \in Owners \cup {NoOwner} : ServiceAnswers(q, o)

LogAndAclInit == InitLog /\ AclInit
AclSpec == LogAndAclInit /\ [][AclNext]_<<log, aclVars>>

\* What the code's scheduling guarantees once faults stop: the event loop runs
\* resolved promises and timers, Redis and Kafka answer, the client commits
\* periodically, SIGTERM ends the process and its supervisor starts it again.
AclFairness ==
    /\ WF_<<log, aclVars>>(Start)
    /\ WF_<<log, aclVars>>(RedisConnects)
    /\ WF_<<log, aclVars>>(link = "down" /\ \E i \in DOMAIN cmds : CommandTimesOut(i))
    /\ WF_<<log, aclVars>>(Terminated)
    /\ WF_<<log, aclVars>>(RedisExecutes)
    /\ WF_<<log, aclVars>>(\E r \in replies : Ack(r))
    /\ \A p \in Partitions :
        /\ WF_<<log, aclVars>>(DeliverOwnership(p))
        /\ WF_<<log, aclVars>>(DeliverForeign(p))
        /\ WF_<<log, aclVars>>(Commit(p))

AclFairSpec == AclSpec /\ AclFairness

-----------------------------------------------------------------------------
(* Properties *)

Cmd ==
    [kind : {"event"}, rec : Records, fp : Fingerprints,
     owner : Owners \cup {NoOwner}, abandoned : BOOLEAN]
    \cup
    [kind : {"fill"}, rec : {<< >>}, fp : Fingerprints,
     owner : Owners, abandoned : BOOLEAN]

\* Shapes of the state of certificate-acl.
AclTypeOK ==
    /\ LogTypeOK
    /\ proc \in {"starting", "running", "stopping"}
    /\ link \in {"connecting", "up", "down"}
    /\ suspended \in BOOLEAN
    /\ callback \in BOOLEAN
    /\ position \in [Partitions -> Nat]
    /\ acked \in [Partitions -> SUBSET Nat]
    /\ committed \in [Partitions -> Nat]
    /\ cmds \in Seq(Cmd)
    /\ replies \subseteq Records
    /\ redis \in [Fingerprints -> Owners \cup {NoOwner}]
    /\ query \in [Queries -> [phase : {"idle", "asking", "answered"},
                              fp : Fingerprints \cup {NoOwner},
                              owner : Owners \cup {NoOwner}]]
    /\ applied \subseteq Records
    /\ filled \subseteq Fingerprints
    /\ faults \in Nat
    /\ asked \in Nat

\* No event is lost by the consumer: an offset below the committed one has taken
\* effect in Redis (or was discarded on purpose), whatever commands failed or
\* timed out before or after it and however often the process restarted.
CommitBehindRedis ==
    \A p \in Partitions : \A o \in 0 .. committed[p] - 1 : <<p, o>> \in applied

\* suspend() and resume() keep the subscription in step with Redis: records are
\* never delivered during an outage, and a service that has started with Redis
\* up is never left deaf, whichever of the two connected first.
CallbackFollowsRedis ==
    /\ link = "down" => ~callback
    /\ link = "up" /\ proc # "starting" => callback

\* The consumer has issued, and Redis executed, everything in the log.
CaughtUp ==
    /\ proc = "running"
    /\ cmds = << >>
    /\ \A p \in Partitions : position[p] = Len(log[p])

\* Redelivery after suspensions, timeouts and restarts replays old events over
\* newer ones, but once the consumer has caught up the entry of a certificate
\* is what the last event of some partition says (no entry if no partition has
\* an event of it).  Certificates a query has written to Redis are left out.
AclFollowsLog ==
    CaughtUp =>
        \A f \in Fingerprints \ filled :
            LET P == {p \in Partitions : OffsetsOf(p, f) # {}} IN
                IF P = {} THEN redis[f] = NoOwner
                ELSE \E p \in P : redis[f] = OutcomeIn(p, f)

WellFormed == \A p \in Partitions : \A i \in DOMAIN log[p] : log[p][i].type # "malformed"

\* Suspensions, timeouts and restarts delay the consumer and never wedge it: as
\* long as no record is malformed (such a record is never acknowledged, and is
\* met again after each restart), everything published is in the end committed.
EventsConsumed ==
    []WellFormed => <>[](\A p \in Partitions : committed[p] = Len(log[p]))

=============================================================================
