------------------------ MODULE CertificateAclProofs ------------------------
(***************************************************************************)
(* What certificate-acl guarantees for every number of certificates,       *)
(* owners, partitions and queries, and every bound of the model: its type  *)
(* invariant, that no event is lost by the consumer, that its subscription *)
(* follows the connection with Redis, and that a consumer which has caught *)
(* up leaves Redis with what the log says.                                 *)
(***************************************************************************)
EXTENDS CertificateAcl, TLAPS

allVars == <<log, aclVars>>

\* A query that waits for its answer, or has it, is about a certificate; the
\* answer is an owner.  (What makes the shape of a fill command inductive.)
QueriesOK ==
    \A q \in Queries :
        /\ query[q].phase # "idle" => query[q].fp \in Fingerprints
        /\ query[q].phase = "answered" => query[q].owner \in Owners

TypeInv == AclTypeOK /\ QueriesOK

-----------------------------------------------------------------------------
(* Lemmas about the data *)

\* A delivered record gives a well-formed command.
LEMMA EventCmdType ==
    ASSUME LogTypeOK, NEW p \in Partitions, NEW o \in Nat, o < Len(log[p])
    PROVE  EventCmd(p, o) \in Cmd
<1>1. log[p] \in Seq(OwnershipEvent)
    BY DEF LogTypeOK
<1>2. o + 1 \in 1 .. Len(log[p])
    BY <1>1
<1>3. log[p][o + 1] \in OwnershipEvent
    BY <1>1, <1>2
<1>4. /\ log[p][o + 1].fp \in Fingerprints
      /\ log[p][o + 1].owner \in Owners \cup {NoOwner}
    BY <1>3 DEF OwnershipEvent
<1>5. <<p, o>> \in Records
    BY DEF Records
<1> QED
    BY <1>4, <1>5 DEF EventCmd, Cmd

\* Abandoning a command leaves a command.
LEMMA AbandonType ==
    ASSUME NEW s \in Seq(Cmd), NEW i \in DOMAIN s
    PROVE  [s EXCEPT ![i].abandoned = TRUE] \in Seq(Cmd)
<1>1. s[i] \in Cmd
    OBVIOUS
<1>2. [s[i] EXCEPT !.abandoned = TRUE] \in Cmd
    BY <1>1 DEF Cmd
<1> QED
    BY <1>2

\* What a producer may append is an event.
LEMMA PublishableType ==
    ASSUME NEW p \in Partitions, NEW e \in Publishable(p)
    PROVE  e \in OwnershipEvent
BY DEF Publishable, OwnershipEvent, EventTypes, Removal

QueryState ==
    [phase : {"idle", "asking", "answered"}, fp : Fingerprints \cup {NoOwner},
     owner : Owners \cup {NoOwner}]

\* A query that is over has the shape of a query.
LEMMA IdleType == IdleQuery \in QueryState
BY DEF IdleQuery, QueryState

-----------------------------------------------------------------------------
(* The type invariant *)

\* certificate-acl starts in its shape.
LEMMA TypeInit == InitLog /\ AclInit => TypeInv
<1> SUFFICES ASSUME InitLog, AclInit
             PROVE  TypeInv
    OBVIOUS
<1>1. LogTypeOK
    BY DEF InitLog, LogTypeOK
<1>2. cmds \in Seq(Cmd)
    BY DEF AclInit
<1>3. /\ position \in [Partitions -> Nat]
      /\ acked \in [Partitions -> SUBSET Nat]
      /\ committed \in [Partitions -> Nat]
    BY DEF AclInit
<1>4. query \in [Queries -> QueryState] /\ QueriesOK
    BY IdleType DEF AclInit, IdleQuery, QueriesOK
<1>5. redis \in [Fingerprints -> Owners \cup {NoOwner}]
    BY DEF AclInit
<1>6. /\ proc = "starting" /\ link = "connecting" /\ suspended = FALSE /\ callback = FALSE
      /\ replies = {} /\ applied = {} /\ filled = {} /\ faults = 0 /\ asked = 0
    BY DEF AclInit
<1> QED
    BY <1>1, <1>2, <1>3, <1>4, <1>5, <1>6 DEF TypeInv, AclTypeOK, QueryState

\* So does an event that anyone appends.
LEMMA TypePublishes ==
    ASSUME TypeInv, NEW p \in Partitions, NEW e \in OwnershipEvent, Append2Partition(p, e), UNCHANGED aclVars
    PROVE  TypeInv'
<1>1. log' \in [Partitions -> Seq(OwnershipEvent)]
    BY DEF TypeInv, Append2Partition, AclTypeOK, LogTypeOK
<1> QED
    BY <1>1 DEF TypeInv, AclTypeOK, LogTypeOK, QueriesOK, aclVars, consumerVars, redisVars, queryVars

\* Every step of certificate-acl, and of its environment, keeps the shape.
LEMMA TypeStep == TypeInv /\ [AclNext]_allVars => TypeInv'
<1> SUFFICES ASSUME TypeInv, [AclNext]_allVars
             PROVE  TypeInv'
    OBVIOUS
<1> USE DEF TypeInv
<1>1. CASE Start
    BY <1>1 DEF Start, AclTypeOK, LogTypeOK, QueriesOK, consumerVars, redisVars, queryVars
<1>2. CASE RedisConnects
    BY <1>2 DEF RedisConnects, AclTypeOK, LogTypeOK, QueriesOK, consumerVars, redisVars, queryVars
<1>3. CASE RedisDisconnects
    <2>1. cmds' \in Seq(Cmd) /\ replies' \subseteq Records
        <3>1. CASE link = "up"
            <4>1. cmds' = << >> /\ replies' = {}
                BY <1>3, <3>1 DEF RedisDisconnects
            <4> QED
                BY <4>1
        <3>2. CASE link # "up"
            BY <1>3, <3>2 DEF RedisDisconnects, AclTypeOK
        <3> QED
            BY <3>1, <3>2
    <2>2. proc' \in {"starting", "running", "stopping"}
        BY <1>3 DEF RedisDisconnects, AclTypeOK
    <2>3. faults' \in Nat
        BY <1>3 DEF RedisDisconnects, AclTypeOK
    <2> QED
        BY <1>3, <2>1, <2>2, <2>3 DEF RedisDisconnects, AclTypeOK, LogTypeOK, QueriesOK, consumerVars, queryVars
<1>4. ASSUME Exit, faults' \in Nat
      PROVE  TypeInv'
    <2>1. query' \in [Queries -> QueryState] /\ QueriesOK'
        BY <1>4, IdleType DEF Exit, IdleQuery, QueriesOK
    <2>2. position' \in [Partitions -> Nat] /\ acked' \in [Partitions -> SUBSET Nat]
        BY <1>4 DEF Exit, AclTypeOK
    <2>3. cmds' \in Seq(Cmd) /\ replies' \subseteq Records
        BY <1>4 DEF Exit
    <2> QED
        BY <1>4, <2>1, <2>2, <2>3 DEF Exit, AclTypeOK, LogTypeOK, QueryState
<1>5. CASE Terminated
    BY <1>4, <1>5 DEF Terminated, AclTypeOK
<1>6. CASE Killed
    BY <1>4, <1>6 DEF Killed, AclTypeOK
<1>7. ASSUME NEW p \in Partitions, DeliverOwnership(p)
      PROVE  TypeInv'
    <2>1. position[p] \in Nat /\ position[p] < Len(log[p])
        BY <1>7 DEF DeliverOwnership, Deliverable, AclTypeOK
    <2>2. EventCmd(p, position[p]) \in Cmd
        BY <2>1, EventCmdType DEF AclTypeOK
    <2>3. cmds' \in Seq(Cmd)
        BY <1>7, <2>2 DEF DeliverOwnership, AclTypeOK
    <2>4. position' \in [Partitions -> Nat]
        BY <1>7, <2>1 DEF DeliverOwnership, AclTypeOK
    <2> QED
        BY <1>7, <2>3, <2>4 DEF DeliverOwnership, AclTypeOK, LogTypeOK, QueriesOK, queryVars
<1>8. ASSUME NEW p \in Partitions, DeliverForeign(p)
      PROVE  TypeInv'
    <2>1. position[p] \in Nat /\ acked[p] \subseteq Nat
        BY DEF AclTypeOK
    <2>2. position' \in [Partitions -> Nat] /\ acked' \in [Partitions -> SUBSET Nat]
        BY <1>8, <2>1 DEF DeliverForeign, AclTypeOK
    <2>3. applied' \subseteq Records
        BY <1>8, <2>1 DEF DeliverForeign, AclTypeOK, Records
    <2> QED
        BY <1>8, <2>2, <2>3 DEF DeliverForeign, AclTypeOK, LogTypeOK, QueriesOK, queryVars
<1>9. ASSUME NEW p \in Partitions, DeliverMalformed(p)
      PROVE  TypeInv'
    BY <1>9 DEF DeliverMalformed, AclTypeOK, LogTypeOK, QueriesOK, redisVars, queryVars
<1>10. CASE RedisExecutes
    <2>1. Head(cmds) \in Cmd /\ Tail(cmds) \in Seq(Cmd)
        BY <1>10 DEF RedisExecutes, AclTypeOK
    <2>2. /\ Head(cmds).fp \in Fingerprints
          /\ Head(cmds).owner \in Owners \cup {NoOwner}
          /\ Head(cmds).kind = "event" => Head(cmds).rec \in Records
        BY <2>1 DEF Cmd
    <2>3. redis' \in [Fingerprints -> Owners \cup {NoOwner}] /\ cmds' \in Seq(Cmd)
        BY <1>10, <2>1, <2>2 DEF RedisExecutes, AclTypeOK
    <2>4. applied' \subseteq Records /\ replies' \subseteq Records /\ filled' \subseteq Fingerprints
        BY <1>10, <2>2 DEF RedisExecutes, AclTypeOK
    <2> QED
        BY <1>10, <2>3, <2>4 DEF RedisExecutes, AclTypeOK, LogTypeOK, QueriesOK, consumerVars, queryVars
<1>11. ASSUME NEW r \in replies, Ack(r)
       PROVE  TypeInv'
    <2>1. r[1] \in Partitions /\ r[2] \in Nat
        BY DEF AclTypeOK, Records
    <2> QED
        BY <1>11, <2>1 DEF Ack, AclTypeOK, LogTypeOK, QueriesOK, queryVars
<1>12. ASSUME NEW i \in DOMAIN cmds, CommandTimesOut(i)
       PROVE  TypeInv'
    <2>1. cmds' \in Seq(Cmd)
        BY <1>12, AbandonType DEF CommandTimesOut, AclTypeOK
    <2> QED
        BY <1>12, <2>1 DEF CommandTimesOut, AclTypeOK, LogTypeOK, QueriesOK, consumerVars, queryVars
<1>13. ASSUME NEW p \in Partitions, Commit(p)
       PROVE  TypeInv'
    <2>1. committed' \in [Partitions -> Nat]
        BY <1>13 DEF Commit, AclTypeOK
    <2> QED
        BY <1>13, <2>1 DEF Commit, AclTypeOK, LogTypeOK, QueriesOK, redisVars, queryVars
<1>14. ASSUME NEW q \in Queries, NEW f \in Fingerprints, QueryMisses(q, f)
       PROVE  TypeInv'
    BY <1>14 DEF QueryMisses, AclTypeOK, LogTypeOK, QueriesOK, consumerVars, redisVars
<1>15. ASSUME NEW q \in Queries, QueryFills(q)
       PROVE  TypeInv'
    <2>1. query[q].fp \in Fingerprints /\ query[q].owner \in Owners
        BY <1>15 DEF QueryFills, QueriesOK
    <2>2. FillCmd(query[q].fp, query[q].owner) \in Cmd
        BY <2>1 DEF FillCmd, Cmd
    <2>3. cmds' \in Seq(Cmd)
        BY <1>15, <2>2 DEF QueryFills, AclTypeOK
    <2> QED
        BY <1>15, <2>3 DEF QueryFills, AclTypeOK, LogTypeOK, QueriesOK, IdleQuery, consumerVars
<1>16. ASSUME NEW p \in Partitions, NEW e \in Publishable(p), Publish(p, e)
       PROVE  TypeInv'
    BY <1>16, PublishableType, TypePublishes DEF Publish
<1>17. ASSUME NEW q \in Queries, NEW o \in Owners \cup {NoOwner}, ServiceAnswers(q, o)
       PROVE  TypeInv'
    BY <1>17 DEF ServiceAnswers, AclTypeOK, LogTypeOK, QueriesOK, IdleQuery, consumerVars, redisVars
<1>18. CASE UNCHANGED allVars
    BY <1>18 DEF allVars, AclTypeOK, LogTypeOK, QueriesOK, aclVars, consumerVars, redisVars, queryVars
<1> QED
    BY <1>1, <1>2, <1>3, <1>5, <1>6, <1>7, <1>8, <1>9, <1>10, <1>11, <1>12, <1>13, <1>14,
       <1>15, <1>16, <1>17, <1>18 DEF AclNext, AclStep

\* The state of certificate-acl always has its shape.
THEOREM AclTypeCorrect == AclSpec => []AclTypeOK
<1>1. TypeInv => AclTypeOK
    BY DEF TypeInv
<1>2. AclSpec => []TypeInv
    BY TypeInit, TypeStep, PTL DEF AclSpec, LogAndAclInit, allVars
<1> QED
    BY <1>1, <1>2, PTL

-----------------------------------------------------------------------------
(* No event is lost *)

\* What makes CommitBehindRedis inductive: a promise resolves only when Redis
\* has executed the command, and only then is the record acknowledged.
AcksBehindRedis ==
    /\ replies \subseteq applied
    /\ \A p \in Partitions : \A o \in acked[p] : <<p, o>> \in applied

DurabilityInv == AcksBehindRedis /\ CommitBehindRedis

\* Nothing is committed or acknowledged at the start.
LEMMA DurabilityInit == AclInit => DurabilityInv
BY DEF AclInit, DurabilityInv, AcksBehindRedis, CommitBehindRedis

\* No step acknowledges or commits ahead of Redis: one case per action, and the
\* two that say something are Ack and Commit.
LEMMA DurabilityStep == TypeInv /\ DurabilityInv /\ [AclNext]_allVars => DurabilityInv'
<1> SUFFICES ASSUME TypeInv, DurabilityInv, [AclNext]_allVars
             PROVE  DurabilityInv'
    OBVIOUS
<1> USE DEF DurabilityInv, AcksBehindRedis, CommitBehindRedis
\* Most steps leave all four variables alone, or forget acknowledgements.
<1>1. ASSUME UNCHANGED <<committed, applied>>, replies' \subseteq replies,
             acked' = acked \/ acked' = [p \in Partitions |-> {}]
      PROVE  DurabilityInv'
    BY <1>1
<1>2. CASE Start
    BY <1>1, <1>2 DEF Start, consumerVars, redisVars
<1>3. CASE RedisConnects
    BY <1>1, <1>3 DEF RedisConnects, redisVars
<1>4. CASE RedisDisconnects
    BY <1>1, <1>4 DEF RedisDisconnects, consumerVars
<1>5. CASE Terminated \/ Killed
    BY <1>1, <1>5 DEF Terminated, Killed, Exit
<1>6. ASSUME NEW p \in Partitions, DeliverOwnership(p) \/ DeliverMalformed(p)
      PROVE  DurabilityInv'
    BY <1>1, <1>6 DEF DeliverOwnership, DeliverMalformed, redisVars
<1>7. ASSUME NEW p \in Partitions, DeliverForeign(p)
      PROVE  DurabilityInv'
    <2>1. applied' = applied \cup {<<p, position[p]>>}
        BY <1>7 DEF DeliverForeign
    <2>2. acked' = [acked EXCEPT ![p] = @ \cup {position[p]}]
        BY <1>7 DEF DeliverForeign
    <2>3. acked \in [Partitions -> SUBSET Nat]
        BY DEF TypeInv, AclTypeOK
    <2>4. \A x \in Partitions : \A o \in acked'[x] : <<x, o>> \in applied'
        BY <2>1, <2>2, <2>3
    <2> QED
        BY <1>7, <2>1, <2>4 DEF DeliverForeign
<1>8. CASE RedisExecutes
    <2>1. applied \subseteq applied'
        BY <1>8 DEF RedisExecutes
    <2>2. replies' \subseteq applied'
        BY <1>8, <2>1 DEF RedisExecutes
    <2>3. UNCHANGED <<acked, committed>>
        BY <1>8 DEF RedisExecutes, consumerVars
    <2> QED
        BY <2>1, <2>2, <2>3
<1>9. ASSUME NEW r \in replies, Ack(r)
      PROVE  DurabilityInv'
    <2>1. r = <<r[1], r[2]>> /\ r[1] \in Partitions
        BY DEF TypeInv, AclTypeOK, Records
    <2>2. acked \in [Partitions -> SUBSET Nat]
        BY DEF TypeInv, AclTypeOK
    <2>3. acked' = [acked EXCEPT ![r[1]] = @ \cup {r[2]}] /\ UNCHANGED <<applied, committed>>
        BY <1>9 DEF Ack
    <2>4. r \in applied
        OBVIOUS
    <2>5. \A x \in Partitions : \A o \in acked'[x] : <<x, o>> \in applied'
        BY <2>1, <2>2, <2>3, <2>4
    <2> QED
        BY <1>9, <2>3, <2>5 DEF Ack
<1>10. ASSUME NEW i \in DOMAIN cmds, CommandTimesOut(i)
       PROVE  DurabilityInv'
    BY <1>1, <1>10 DEF CommandTimesOut, consumerVars
\* The committed run consists of acknowledged offsets.
<1>11. ASSUME NEW p \in Partitions, Commit(p)
       PROVE  DurabilityInv'
    <2>1. PICK n \in committed[p] + 1 .. position[p] :
              /\ \A o \in committed[p] .. n - 1 : o \in acked[p]
              /\ committed' = [committed EXCEPT ![p] = n]
              /\ UNCHANGED <<acked, applied, replies>>
        BY <1>11 DEF Commit, redisVars
    <2>2. committed \in [Partitions -> Nat] /\ position[p] \in Nat
        BY DEF TypeInv, AclTypeOK
    <2>3. ASSUME NEW o \in 0 .. n - 1
          PROVE  <<p, o>> \in applied
        <3>1. CASE o < committed[p]
            BY <2>2, <3>1
        <3>2. CASE o >= committed[p]
            BY <2>1, <2>2, <3>2
        <3> QED
            BY <2>2, <3>1, <3>2
    <2> QED
        BY <2>1, <2>2, <2>3
<1>12. ASSUME NEW q \in Queries,
              (\E f \in Fingerprints : QueryMisses(q, f)) \/ QueryFills(q)
                  \/ (\E o \in Owners \cup {NoOwner} : ServiceAnswers(q, o))
       PROVE  DurabilityInv'
    BY <1>1, <1>12 DEF QueryMisses, QueryFills, ServiceAnswers, consumerVars, redisVars
<1>13. ASSUME NEW p \in Partitions, NEW e \in Publishable(p), Publish(p, e)
       PROVE  DurabilityInv'
    BY <1>1, <1>13 DEF Publish, aclVars, consumerVars, redisVars
<1>14. CASE UNCHANGED allVars
    BY <1>1, <1>14 DEF allVars, aclVars, consumerVars, redisVars
<1> QED
    BY <1>2, <1>3, <1>4, <1>5, <1>6, <1>7, <1>8, <1>9, <1>10, <1>11, <1>12, <1>13, <1>14
    DEF AclNext, AclStep

\* The consumer never commits past a record Redis has not executed (or that was
\* discarded on purpose): whatever fails, times out or is killed, no event is
\* lost by it.
THEOREM NoEventLost == AclSpec => []CommitBehindRedis
<1>1. DurabilityInv => CommitBehindRedis
    BY DEF DurabilityInv
<1>2. AclSpec => [](TypeInv /\ DurabilityInv)
    BY TypeInit, TypeStep, DurabilityInit, DurabilityStep, PTL DEF AclSpec, LogAndAclInit, allVars
<1> QED
    BY <1>1, <1>2, PTL

-----------------------------------------------------------------------------
(* The subscription follows the connection *)

\* The flag that resume() looks at tells an outage apart, and with the state of
\* the process it determines whether the callback is registered.  A process
\* that is starting has no command for a record whose failure could end it.
SubscriptionInv ==
    /\ link = "down" => suspended
    /\ link = "up" => ~suspended
    /\ callback <=> ~suspended /\ proc # "starting"
    /\ proc = "starting" => \A i \in DOMAIN cmds : cmds[i].kind # "event"

\* The service starts without a subscription, waiting for Redis and Kafka.
LEMMA SubscriptionInit == AclInit => SubscriptionInv
BY DEF AclInit, SubscriptionInv

\* suspend(), resume() and the start of the service keep the flag, the connection
\* and the callback together, in whichever order they come.
LEMMA SubscriptionStep == TypeInv /\ SubscriptionInv /\ [AclNext]_allVars => SubscriptionInv'
<1> SUFFICES ASSUME TypeInv, SubscriptionInv, [AclNext]_allVars
             PROVE  SubscriptionInv'
    OBVIOUS
<1> USE DEF SubscriptionInv
<1>1. suspended \in BOOLEAN /\ callback \in BOOLEAN /\ cmds \in Seq(Cmd)
    BY DEF TypeInv, AclTypeOK
\* Most steps leave the connection and the subscription alone, and the process
\* unless a record's command or the record itself ends it.
<1>2. ASSUME UNCHANGED <<link, suspended, callback, proc>>,
             proc = "starting" => \A i \in DOMAIN cmds' : cmds'[i].kind # "event"
      PROVE  SubscriptionInv'
    BY <1>2
<1>3. ASSUME UNCHANGED <<link, suspended, callback>>, proc # "starting", proc' = "stopping"
      PROVE  SubscriptionInv'
    BY <1>3
<1>4. CASE Start
    BY <1>1, <1>4 DEF Start, redisVars
<1>5. CASE RedisConnects
    BY <1>1, <1>5 DEF RedisConnects, redisVars
<1>6. CASE RedisDisconnects
    <2>1. CASE link = "up"
        BY <1>6, <2>1 DEF RedisDisconnects
    <2>2. CASE link # "up"
        BY <1>6, <2>2 DEF RedisDisconnects
    <2> QED
        BY <2>1, <2>2
<1>7. CASE Terminated \/ Killed
    BY <1>7 DEF Terminated, Killed, Exit
<1>8. ASSUME NEW p \in Partitions, DeliverOwnership(p)
      PROVE  SubscriptionInv'
    BY <1>2, <1>8 DEF DeliverOwnership, Deliverable
<1>9. ASSUME NEW p \in Partitions, DeliverForeign(p) \/ Commit(p)
      PROVE  SubscriptionInv'
    BY <1>2, <1>9 DEF DeliverForeign, Commit, redisVars
<1>10. ASSUME NEW p \in Partitions, DeliverMalformed(p)
       PROVE  SubscriptionInv'
    BY <1>3, <1>10 DEF DeliverMalformed, Deliverable
<1>11. CASE RedisExecutes
    <2>1. cmds' = Tail(cmds) /\ cmds # << >>
        BY <1>11 DEF RedisExecutes
    <2>2. \A i \in DOMAIN cmds' : i + 1 \in DOMAIN cmds /\ cmds'[i] = cmds[i + 1]
        BY <1>1, <2>1
    <2> QED
        BY <1>2, <1>11, <2>2 DEF RedisExecutes
<1>12. ASSUME NEW r \in replies, Ack(r)
       PROVE  SubscriptionInv'
    BY <1>2, <1>12 DEF Ack
<1>13. ASSUME NEW i \in DOMAIN cmds, CommandTimesOut(i)
       PROVE  SubscriptionInv'
    <2>1. CASE cmds[i].kind = "event"
        BY <1>3, <1>13, <2>1 DEF CommandTimesOut
    <2>2. CASE cmds[i].kind # "event"
        <3>1. cmds[i] \in Cmd
            BY <1>1
        <3>2. cmds'[i].kind = cmds[i].kind
            BY <1>1, <1>13, <3>1 DEF CommandTimesOut, Cmd
        <3>3. \A j \in DOMAIN cmds' : j \in DOMAIN cmds /\ (j # i => cmds'[j] = cmds[j])
            BY <1>1, <1>13 DEF CommandTimesOut
        <3> QED
            BY <1>2, <1>13, <2>2, <3>2, <3>3 DEF CommandTimesOut
    <2> QED
        BY <2>1, <2>2
<1>14. ASSUME NEW q \in Queries, NEW f \in Fingerprints, QueryMisses(q, f)
       PROVE  SubscriptionInv'
    BY <1>2, <1>14 DEF QueryMisses, redisVars
<1>15. ASSUME NEW q \in Queries, QueryFills(q)
       PROVE  SubscriptionInv'
    <2> DEFINE c == FillCmd(query[q].fp, query[q].owner)
    <2>1. cmds' = Append(cmds, c) /\ c.kind = "fill"
        BY <1>15 DEF QueryFills, FillCmd
    <2>2. \A i \in DOMAIN cmds' : cmds'[i] = c \/ (i \in DOMAIN cmds /\ cmds'[i] = cmds[i])
        BY <1>1, <2>1
    <2> QED
        BY <1>2, <1>15, <2>1, <2>2 DEF QueryFills
<1>16. ASSUME NEW q \in Queries, NEW o \in Owners \cup {NoOwner}, ServiceAnswers(q, o)
       PROVE  SubscriptionInv'
    BY <1>2, <1>16 DEF ServiceAnswers, redisVars
<1>17. ASSUME NEW p \in Partitions, NEW e \in Publishable(p), Publish(p, e)
       PROVE  SubscriptionInv'
    BY <1>2, <1>17 DEF Publish, aclVars, redisVars
<1>18. CASE UNCHANGED allVars
    BY <1>2, <1>18 DEF allVars, aclVars, redisVars
<1> QED
    BY <1>4, <1>5, <1>6, <1>7, <1>8, <1>9, <1>10, <1>11, <1>12, <1>13, <1>14, <1>15, <1>16,
       <1>17, <1>18 DEF AclNext, AclStep

\* suspend() and resume() never leave a subscription that delivers during an
\* outage of Redis, or a started service that is deaf while Redis is up.
THEOREM SubscriptionFollowsRedis == AclSpec => []CallbackFollowsRedis
<1>1. SubscriptionInv => CallbackFollowsRedis
    BY DEF SubscriptionInv, CallbackFollowsRedis
<1>2. AclSpec => [](TypeInv /\ SubscriptionInv)
    BY TypeInit, TypeStep, SubscriptionInit, SubscriptionStep, PTL DEF AclSpec, LogAndAclInit, allVars
<1> QED
    BY <1>1, <1>2, PTL

-----------------------------------------------------------------------------
(* Redis follows the log.                                                  *)
(*                                                                         *)
(* AclFollowsLog speaks of a consumer that has caught up.  What makes it    *)
(* inductive says, at any moment, which records the consumer is done with, *)
(* which are on their way, and which record each entry of Redis is from:   *)
(* one that is ahead of every record of its partition the consumer is done *)
(* with.  A redelivery starts behind that record and ends past it.         *)

\* The record at offset o of partition p is there and decides who owns a certificate.
DecidesAt(p, o) == o \in 0 .. Len(log[p]) - 1 /\ log[p][o + 1].type \in {"create", "update", "delete"}

\* The consumer is done with a record, in this assignment of the partitions or before it.
Done(p, o) == o < committed[p] \/ o \in acked[p] \/ <<p, o>> \in replies

\* The consumer is between what is committed and the end of the log, and done only with what it was
\* given.  Without a connection no promise waits to resolve.
PositionsOK ==
    /\ \A p \in Partitions :
        /\ committed[p] <= position[p] /\ position[p] <= Len(log[p])
        /\ \A o \in Nat : o \in acked[p] \/ <<p, o>> \in replies => o < position[p]
    /\ link # "up" => replies = {}
    /\ link = "connecting" => ~suspended

\* A command for a record writes what the record says, and the consumer is done with no record behind it.
CommandFits(c) ==
    \A p \in Partitions, o \in Nat : c.kind = "event" /\ c.rec = <<p, o>> =>
        /\ DecidesAt(p, o) /\ c.fp = log[p][o + 1].fp /\ c.owner = log[p][o + 1].owner
        /\ ~c.abandoned => o < position[p]
        /\ \A n \in Nat : DecidesAt(p, n) /\ Done(p, n) => n < o

\* Of one partition, no command is behind a later one, but for those an earlier assignment abandoned.
Precedes(c, d) ==
    \A p \in Partitions, o, n \in Nat :
        c.kind = "event" /\ d.kind = "event" /\ ~c.abandoned /\ c.rec = <<p, o>> /\ d.rec = <<p, n>> => o < n

CommandsOK ==
    /\ \A i \in DOMAIN cmds : CommandFits(cmds[i])
    /\ \A i, j \in DOMAIN cmds : i < j => Precedes(cmds[i], cmds[j])

\* As long as the process is not about to end, what the consumer was given is done or on its way.
OnItsWay(p, o) == \E i \in DOMAIN cmds : cmds[i].kind = "event" /\ cmds[i].rec = <<p, o>>
NothingSkipped ==
    proc # "stopping" =>
        /\ \A i \in DOMAIN cmds : cmds[i].kind = "event" => ~cmds[i].abandoned
        /\ \A p \in Partitions, o \in Nat : DecidesAt(p, o) /\ o < position[p] => Done(p, o) \/ OnItsWay(p, o)

\* Redis has what some record says, and of that partition the consumer is done with none behind it.
NothingWritten(f) == redis[f] = NoOwner /\ \A p \in Partitions : \A o \in OffsetsOf(p, f) : ~Done(p, o)
Says(p, o, f) ==
    o \in OffsetsOf(p, f) /\ redis[f] = log[p][o + 1].owner /\ \A n \in OffsetsOf(p, f) : Done(p, n) => n <= o
RedisFits == \A f \in Fingerprints \ filled : NothingWritten(f) \/ \E p \in Partitions, o \in Nat : Says(p, o, f)

\* All of it together.
ReplayInv == PositionsOK /\ CommandsOK /\ NothingSkipped /\ RedisFits

\* No record is removed or rewritten.
LogGrows ==
    \A p \in Partitions, o \in Nat :
        o < Len(log[p]) => o < Len(log'[p]) /\ log'[p][o + 1] = log[p][o + 1]

\* The consumer becomes done with no record.
DoneShrinks ==
    \A p \in Partitions, n \in Nat : DecidesAt(p, n)' /\ Done(p, n)' => DecidesAt(p, n) /\ Done(p, n)

\* A command sent before, about the same record (it may have been abandoned since).
Same(c, d) ==
    c.kind = d.kind /\ (c.kind = "event" => c.rec = d.rec /\ c.fp = d.fp /\ c.owner = d.owner
                                            /\ (~c.abandoned => ~d.abandoned))

\* The values the consumer counts with.
LEMMA Counted ==
    ASSUME TypeInv, NEW p \in Partitions
    PROVE  /\ position[p] \in Nat /\ committed[p] \in Nat /\ Len(log[p]) \in Nat
           /\ acked[p] \subseteq Nat
<1>1. log[p] \in Seq(OwnershipEvent)
    BY DEF TypeInv, AclTypeOK, LogTypeOK
<1> QED
    BY <1>1 DEF TypeInv, AclTypeOK

\* The deciding records of a certificate, one by one.
LEMMA OffsetsDecide ==
    ASSUME TypeInv, NEW p \in Partitions, NEW f
    PROVE  \A o : o \in OffsetsOf(p, f) <=> o \in Nat /\ DecidesAt(p, o) /\ log[p][o + 1].fp = f
<1>1. Len(log[p]) \in Nat
    BY Counted
<1>2. \A o : o \in 0 .. Len(log[p]) - 1 => o \in Nat
    BY <1>1
<1> QED
    BY <1>2 DEF OffsetsOf, Decides, DecidesAt

\* The last of them.
LEMMA LatestIs ==
    ASSUME TypeInv, NEW p \in Partitions, NEW f, NEW o \in OffsetsOf(p, f), \A n \in OffsetsOf(p, f) : n <= o
    PROVE  Latest(OffsetsOf(p, f)) = o
<1>1. \A x \in OffsetsOf(p, f) : (\A y \in OffsetsOf(p, f) : y <= x) => x = o
    <2> SUFFICES ASSUME NEW x \in OffsetsOf(p, f), \A y \in OffsetsOf(p, f) : y <= x
                 PROVE  x = o
        OBVIOUS
    <2>1. x \in Nat /\ o \in Nat /\ x <= o /\ o <= x
        BY OffsetsDecide
    <2> QED
        BY <2>1
<1> QED
    BY <1>1 DEF Latest

\* What Redis has fits the log as long as Redis executes nothing and the consumer becomes
\* done with nothing.
LEMMA FitsKept ==
    ASSUME TypeInv, TypeInv', RedisFits, LogGrows, DoneShrinks, redis' = redis, filled \subseteq filled'
    PROVE  RedisFits'
<1> SUFFICES ASSUME NEW f \in Fingerprints, f \notin filled'
             PROVE  NothingWritten(f)' \/ \E p \in Partitions, o \in Nat : Says(p, o, f)'
    BY DEF RedisFits
<1>1. ASSUME NEW p \in Partitions, NEW n \in OffsetsOf(p, f)', Done(p, n)'
      PROVE  n \in OffsetsOf(p, f) /\ Done(p, n)
    <2>1. n \in Nat /\ DecidesAt(p, n)' /\ log'[p][n + 1].fp = f
        <3>1. Len(log'[p]) \in Nat
            BY DEF TypeInv, AclTypeOK, LogTypeOK
        <3> QED
            BY <3>1 DEF OffsetsOf, Decides, DecidesAt
    <2>2. DecidesAt(p, n) /\ Done(p, n)
        BY <1>1, <2>1 DEF DoneShrinks
    <2>3. Len(log[p]) \in Nat
        BY Counted
    <2>4. n < Len(log[p])
        BY <2>1, <2>2, <2>3 DEF DecidesAt
    <2>5. log'[p][n + 1] = log[p][n + 1]
        BY <2>1, <2>4 DEF LogGrows
    <2> QED
        BY <2>1, <2>2, <2>5, OffsetsDecide
<1>2. CASE NothingWritten(f)
    BY <1>1, <1>2 DEF NothingWritten
<1>3. ASSUME NEW p \in Partitions, NEW o \in Nat, Says(p, o, f)
      PROVE  Says(p, o, f)'
    <2>1. o \in OffsetsOf(p, f) /\ DecidesAt(p, o) /\ log[p][o + 1].fp = f
        BY <1>3, OffsetsDecide DEF Says
    <2>2. Len(log[p]) \in Nat /\ Len(log'[p]) \in Nat
        BY DEF TypeInv, AclTypeOK, LogTypeOK
    <2>3. o < Len(log[p])
        BY <2>1, <2>2 DEF DecidesAt
    <2>4. o < Len(log'[p]) /\ log'[p][o + 1] = log[p][o + 1]
        BY <2>3 DEF LogGrows
    <2>5. o \in OffsetsOf(p, f)'
        BY <2>1, <2>2, <2>4 DEF OffsetsOf, Decides, DecidesAt
    <2> QED
        BY <1>1, <1>3, <2>4, <2>5 DEF Says
<1> QED
    BY <1>2, <1>3 DEF RedisFits

\* A command keeps fitting its record.
LEMMA CommandFitsKept ==
    ASSUME TypeInv, TypeInv', LogGrows, DoneShrinks, NEW c, NEW d, CommandFits(d), Same(c, d),
           \A p \in Partitions, o \in Nat :
               c.kind = "event" /\ c.rec = <<p, o>> /\ ~c.abandoned => o < position'[p]
    PROVE  CommandFits(c)'
<1> SUFFICES ASSUME NEW p \in Partitions, NEW o \in Nat, c.kind = "event", c.rec = <<p, o>>
             PROVE  /\ DecidesAt(p, o)' /\ c.fp = log'[p][o + 1].fp /\ c.owner = log'[p][o + 1].owner
                    /\ ~c.abandoned => o < position'[p]
                    /\ \A n \in Nat : DecidesAt(p, n)' /\ Done(p, n)' => n < o
    BY DEF CommandFits
<1>1. DecidesAt(p, o) /\ c.fp = log[p][o + 1].fp /\ c.owner = log[p][o + 1].owner
      /\ \A n \in Nat : DecidesAt(p, n) /\ Done(p, n) => n < o
    BY DEF CommandFits, Same
<1>2. Len(log[p]) \in Nat /\ Len(log'[p]) \in Nat
    BY DEF TypeInv, AclTypeOK, LogTypeOK
<1>3. o < Len(log[p])
    BY <1>1, <1>2 DEF DecidesAt
<1>4. o < Len(log'[p]) /\ log'[p][o + 1] = log[p][o + 1]
    BY <1>3 DEF LogGrows
<1>5. DecidesAt(p, o)'
    BY <1>1, <1>2, <1>4 DEF DecidesAt
<1> QED
    BY <1>1, <1>4, <1>5 DEF DoneShrinks

\* Commands that were all sent before, in the same order, keep fitting the log.
LEMMA CommandsKept ==
    ASSUME TypeInv, TypeInv', LogGrows, DoneShrinks, CommandsOK,
           \A i \in DOMAIN cmds' : cmds'[i].kind = "event" => \E k \in DOMAIN cmds : Same(cmds'[i], cmds[k]),
           \A i, j \in DOMAIN cmds' : i < j /\ cmds'[i].kind = "event" /\ cmds'[j].kind = "event" =>
               \E k, l \in DOMAIN cmds : k < l /\ Same(cmds'[i], cmds[k]) /\ Same(cmds'[j], cmds[l]),
           \A i \in DOMAIN cmds', p \in Partitions, o \in Nat :
               cmds'[i].kind = "event" /\ cmds'[i].rec = <<p, o>> /\ ~cmds'[i].abandoned => o < position'[p]
    PROVE  CommandsOK'
<1>1. ASSUME NEW i \in DOMAIN cmds'
      PROVE  CommandFits(cmds[i])'
    <2>1. CASE cmds'[i].kind # "event"
        BY <2>1 DEF CommandFits
    <2>2. CASE cmds'[i].kind = "event"
        <3>1. PICK k \in DOMAIN cmds : Same(cmds'[i], cmds[k])
            BY <2>2
        <3>2. PICK c : c = cmds'[i]
            OBVIOUS
        <3>3. PICK d : d = cmds[k]
            OBVIOUS
        <3>4. CommandFits(d)
            BY <3>3 DEF CommandsOK, CommandFits
        <3>5. CommandFits(c)'
            BY <3>1, <3>2, <3>3, <3>4, CommandFitsKept
        <3> QED
            BY <3>2, <3>5 DEF CommandFits
    <2> QED
        BY <2>1, <2>2
<1>2. ASSUME NEW i \in DOMAIN cmds', NEW j \in DOMAIN cmds', i < j
      PROVE  Precedes(cmds[i], cmds[j])'
    <2>1. CASE cmds'[i].kind = "event" /\ cmds'[j].kind = "event"
        <3>1. PICK k, l \in DOMAIN cmds : k < l /\ Same(cmds'[i], cmds[k]) /\ Same(cmds'[j], cmds[l])
            BY <1>2, <2>1
        <3>2. Precedes(cmds[k], cmds[l])
            BY <3>1 DEF CommandsOK
        <3> QED
            BY <2>1, <3>1, <3>2 DEF Precedes, Same
    <2>2. CASE cmds'[i].kind # "event" \/ cmds'[j].kind # "event"
        BY <2>2 DEF Precedes
    <2> QED
        BY <2>1, <2>2
<1> QED
    BY <1>1, <1>2 DEF CommandsOK

\* What the invariant speaks of, but for the state of the process.
ReplayVars == <<log, link, suspended, position, acked, committed, cmds, replies, redis, filled>>

\* Nothing is given to the consumer at the start.
LEMMA ReplayInit == InitLog /\ AclInit => ReplayInv
<1> SUFFICES ASSUME InitLog, AclInit
             PROVE  ReplayInv
    OBVIOUS
<1>1. \A p \in Partitions : Len(log[p]) = 0 /\ position[p] = 0 /\ committed[p] = 0 /\ acked[p] = {}
    BY DEF InitLog, AclInit
<1>2. cmds = << >> /\ replies = {} /\ link = "connecting" /\ suspended = FALSE
    BY DEF AclInit
<1>3. DOMAIN cmds = {}
    BY <1>2
<1>4. PositionsOK
    BY <1>1, <1>2 DEF PositionsOK
<1>5. CommandsOK /\ NothingSkipped
    BY <1>1, <1>3 DEF CommandsOK, NothingSkipped
<1>6. RedisFits
    <2>1. \A p \in Partitions : \A f : OffsetsOf(p, f) = {}
        BY <1>1 DEF OffsetsOf
    <2>2. \A f \in Fingerprints : redis[f] = NoOwner
        BY DEF AclInit
    <2> QED
        BY <2>1, <2>2 DEF RedisFits, NothingWritten
<1> QED
    BY <1>4, <1>5, <1>6 DEF ReplayInv

\* A step that leaves the consumer's records alone, and does not save a process that is about to end.
LEMMA ReplayIdle ==
    ASSUME ReplayInv, UNCHANGED ReplayVars, proc' # "stopping" => proc # "stopping"
    PROVE  ReplayInv'
<1> USE DEF ReplayVars
<1>1. PositionsOK'
    BY DEF ReplayInv, PositionsOK
<1>2. CommandsOK'
    BY DEF ReplayInv, CommandsOK, CommandFits, Precedes, DecidesAt, Done
<1>3. NothingSkipped'
    BY DEF ReplayInv, NothingSkipped, DecidesAt, Done, OnItsWay
<1>4. RedisFits'
    BY DEF ReplayInv, RedisFits, NothingWritten, Says, OffsetsOf, Decides, Done
<1> QED
    BY <1>1, <1>2, <1>3, <1>4 DEF ReplayInv

\* The end of the process, and a subscription anew: what was acknowledged and not committed is
\* delivered again.
LEMMA ReplayRestarts ==
    ASSUME TypeInv, TypeInv', ReplayInv, UNCHANGED <<log, committed, redis, filled>>,
           position' = committed, acked' = [p \in Partitions |-> {}], replies' = {},
           link' = "connecting" => ~suspended',
           cmds' = << >> \/ (cmds' = cmds /\ Pending = {} /\ (proc' # "stopping" => proc # "stopping"))
    PROVE  ReplayInv'
<1>1. PositionsOK'
    <2>1. ASSUME NEW p \in Partitions
          PROVE  /\ committed'[p] <= position'[p] /\ position'[p] <= Len(log'[p])
                 /\ \A o \in Nat : o \in acked'[p] \/ <<p, o>> \in replies' => o < position'[p]
        <3>1. committed[p] <= position[p] /\ position[p] <= Len(log[p])
            BY DEF ReplayInv, PositionsOK
        <3>2. position[p] \in Nat /\ committed[p] \in Nat /\ Len(log[p]) \in Nat
            BY Counted
        <3>3. committed[p] <= Len(log[p]) /\ committed[p] <= committed[p]
            BY <3>1, <3>2
        <3> QED
            BY <3>3
    <2> QED
        BY <2>1 DEF PositionsOK
<1>2. LogGrows
    BY DEF LogGrows
<1>3. DoneShrinks
    BY DEF DoneShrinks, DecidesAt, Done
<1>4. \A i \in DOMAIN cmds' : cmds'[i] = cmds[i] /\ i \in DOMAIN cmds /\ (cmds[i].kind = "event" => cmds[i].abandoned)
    <2>1. CASE cmds' = << >>
        BY <2>1
    <2>2. CASE cmds' # << >>
        <3>1. cmds' = cmds /\ Pending = {}
            BY <2>2
        <3> QED
            BY <3>1 DEF Pending
    <2> QED
        BY <2>1, <2>2
<1>5. CommandsOK'
    BY <1>2, <1>3, <1>4, CommandsKept DEF ReplayInv, Same
<1>6. NothingSkipped'
    <2> SUFFICES ASSUME proc' # "stopping"
                 PROVE  /\ \A i \in DOMAIN cmds' : cmds'[i].kind = "event" => ~cmds'[i].abandoned
                        /\ \A p \in Partitions, o \in Nat : DecidesAt(p, o)' /\ o < position'[p] =>
                               Done(p, o)' \/ OnItsWay(p, o)'
        BY DEF NothingSkipped
    <2>1. \A i \in DOMAIN cmds' : cmds'[i].kind # "event"
        <3>1. CASE cmds' = << >>
            BY <3>1
        <3>2. CASE cmds' # << >>
            BY <1>4, <3>2 DEF ReplayInv, NothingSkipped
        <3> QED
            BY <3>1, <3>2
    <2>2. \A p \in Partitions, o \in Nat : o < position'[p] => Done(p, o)'
        BY DEF Done
    <2> QED
        BY <2>1, <2>2
<1>7. RedisFits'
    BY <1>2, <1>3, FitsKept DEF ReplayInv
<1> QED
    BY <1>1, <1>5, <1>6, <1>7 DEF ReplayInv

\* The outage of Redis: the commands in flight fail, which ends the process if one was for a record.
LEMMA ReplayOutage ==
    ASSUME TypeInv, TypeInv', ReplayInv, RedisDisconnects
    PROVE  ReplayInv'
<1>1. UNCHANGED <<log, position, acked, committed, redis, filled>> /\ link' = "down"
    BY DEF RedisDisconnects, consumerVars
<1>2. CASE link # "up"
    <2>1. UNCHANGED <<proc, cmds, replies>> /\ replies = {}
        BY <1>2 DEF RedisDisconnects, ReplayInv, PositionsOK
    <2>2. PositionsOK'
        BY <1>1, <2>1 DEF ReplayInv, PositionsOK
    <2>3. CommandsOK'
        BY <1>1, <2>1 DEF ReplayInv, CommandsOK, CommandFits, Precedes, DecidesAt, Done
    <2>4. NothingSkipped'
        BY <1>1, <2>1 DEF ReplayInv, NothingSkipped, DecidesAt, Done, OnItsWay
    <2>5. RedisFits'
        BY <1>1, <2>1 DEF ReplayInv, RedisFits, NothingWritten, Says, OffsetsOf, Decides, Done
    <2> QED
        BY <2>2, <2>3, <2>4, <2>5 DEF ReplayInv
<1>3. CASE link = "up"
    <2>1. cmds' = << >> /\ replies' = {} /\ proc' = IF Pending # {} \/ replies # {} THEN "stopping" ELSE proc
        BY <1>3 DEF RedisDisconnects
    <2>2. PositionsOK'
        BY <1>1, <2>1 DEF ReplayInv, PositionsOK
    <2>3. CommandsOK'
        <3>1. DOMAIN cmds' = {}
            BY <2>1
        <3> QED
            BY <3>1 DEF CommandsOK
    <2>4. NothingSkipped'
        <3> SUFFICES ASSUME proc' # "stopping"
                     PROVE  \A p \in Partitions, o \in Nat : DecidesAt(p, o)' /\ o < position'[p] => Done(p, o)'
            <4>1. DOMAIN cmds' = {}
                BY <2>1
            <4> QED
                BY <4>1 DEF NothingSkipped
        <3>1. Pending = {} /\ replies = {} /\ proc # "stopping"
            BY <2>1
        <3>2. \A i \in DOMAIN cmds : cmds[i].kind # "event"
            BY <3>1 DEF ReplayInv, NothingSkipped, Pending
        <3>3. \A p \in Partitions, o \in Nat : DecidesAt(p, o) /\ o < position[p] => Done(p, o)
            BY <3>1, <3>2 DEF ReplayInv, NothingSkipped, OnItsWay
        <3> QED
            BY <1>1, <2>1, <3>1, <3>3 DEF DecidesAt, Done
    <2>5. RedisFits'
        <3>1. LogGrows
            BY <1>1 DEF LogGrows
        <3>2. DoneShrinks
            BY <1>1, <2>1 DEF DoneShrinks, DecidesAt, Done
        <3> QED
            BY <1>1, <3>1, <3>2, FitsKept DEF ReplayInv
    <2> QED
        BY <2>2, <2>3, <2>4, <2>5 DEF ReplayInv
<1> QED
    BY <1>2, <1>3

\* A record that decides is delivered: its command is behind those of the records before it, and the
\* consumer is done only with such records.
LEMMA ReplayDelivers ==
    ASSUME TypeInv, TypeInv', ReplayInv, NEW p \in Partitions, DeliverOwnership(p)
    PROVE  ReplayInv'
<1> DEFINE x == position[p]
           c == EventCmd(p, x)
<1>1. UNCHANGED <<log, proc, link, suspended, acked, committed, replies, redis, filled>>
      /\ cmds' = Append(cmds, c) /\ position' = [position EXCEPT ![p] = @ + 1]
    BY DEF DeliverOwnership
<1>2. x \in Nat /\ x < Len(log[p]) /\ Len(log[p]) \in Nat /\ position \in [Partitions -> Nat]
      /\ log[p][x + 1].type \in {"create", "update", "delete"}
    BY Counted DEF DeliverOwnership, Deliverable, TypeInv, AclTypeOK
<1>3. /\ position'[p] = x + 1
      /\ \A s \in Partitions : s # p => position'[s] = position[s]
      /\ \A s \in Partitions : position[s] <= position'[s]
    BY <1>1, <1>2
<1>4. DecidesAt(p, x)
    BY <1>2 DEF DecidesAt
<1>5. /\ c.kind = "event" /\ c.rec = <<p, x>> /\ c.fp = log[p][x + 1].fp
      /\ c.owner = log[p][x + 1].owner /\ c.abandoned = FALSE
    BY DEF EventCmd
<1>6. cmds \in Seq(Cmd)
    BY DEF TypeInv, AclTypeOK
<1>7. \A i \in DOMAIN cmds' : \/ i \in DOMAIN cmds /\ cmds'[i] = cmds[i]
                              \/ i = Len(cmds) + 1 /\ cmds'[i] = c
    BY <1>1, <1>6
<1>8. \A i \in DOMAIN cmds : i \in DOMAIN cmds' /\ cmds'[i] = cmds[i] /\ i < Len(cmds) + 1
    BY <1>1, <1>6
<1>9. Len(cmds) + 1 \in DOMAIN cmds' /\ cmds'[Len(cmds) + 1] = c
    BY <1>1, <1>6
<1>10. \A n \in Nat : Done(p, n) => n < x
    <2>1. committed[p] <= position[p] /\ \A o \in Nat : o \in acked[p] \/ <<p, o>> \in replies => o < position[p]
        BY DEF ReplayInv, PositionsOK
    <2>2. committed[p] \in Nat
        BY Counted
    <2> QED
        BY <1>2, <2>1, <2>2 DEF Done
<1>11. \A s \in Partitions, n \in Nat : (Done(s, n)' <=> Done(s, n)) /\ (DecidesAt(s, n)' <=> DecidesAt(s, n))
    BY <1>1 DEF Done, DecidesAt
<1>12. PositionsOK'
    <2>1. ASSUME NEW s \in Partitions
          PROVE  /\ committed'[s] <= position'[s] /\ position'[s] <= Len(log'[s])
                 /\ \A o \in Nat : o \in acked'[s] \/ <<s, o>> \in replies' => o < position'[s]
        <3>1. committed[s] <= position[s] /\ position[s] <= Len(log[s])
              /\ \A o \in Nat : o \in acked[s] \/ <<s, o>> \in replies => o < position[s]
            BY DEF ReplayInv, PositionsOK
        <3>2. position[s] \in Nat /\ committed[s] \in Nat /\ Len(log[s]) \in Nat
            BY Counted
        <3>3. position[s] <= position'[s] /\ (s = p => position'[s] = position[s] + 1)
              /\ (s # p => position'[s] = position[s]) /\ position'[s] \in Nat
            BY <1>2, <1>3, <3>2
        <3>4. committed[s] <= position'[s]
            BY <3>1, <3>2, <3>3
        <3>5. position'[s] <= Len(log[s])
            BY <1>2, <3>1, <3>2, <3>3
        <3>6. \A o \in Nat : o < position[s] => o < position'[s]
            BY <3>2, <3>3
        <3> QED
            BY <1>1, <3>1, <3>4, <3>5, <3>6
    <2> QED
        BY <1>1, <2>1 DEF ReplayInv, PositionsOK
<1>13. CommandsOK'
    <2>1. ASSUME NEW i \in DOMAIN cmds'
          PROVE  CommandFits(cmds[i])'
        <3>1. CASE i \in DOMAIN cmds /\ cmds'[i] = cmds[i]
            <4>1. PICK d : d = cmds[i]
                OBVIOUS
            <4>2. CommandFits(d)
                BY <3>1, <4>1 DEF ReplayInv, CommandsOK, CommandFits
            <4>3. \A s \in Partitions, o \in Nat : o < position[s] => o < position'[s]
                <5> TAKE s \in Partitions, o \in Nat
                <5>1. position[s] \in Nat /\ position'[s] \in Nat /\ position[s] <= position'[s]
                    BY <1>3, Counted DEF TypeInv, AclTypeOK
                <5> QED
                    BY <5>1
            <4>4. LogGrows /\ DoneShrinks
                BY <1>1, <1>11 DEF LogGrows, DoneShrinks
            <4>5. \A s \in Partitions, o \in Nat : d.kind = "event" /\ d.rec = <<s, o>> /\ ~d.abandoned => o < position'[s]
                BY <4>2, <4>3 DEF CommandFits
            <4>6. CommandFits(d)'
                BY <4>2, <4>4, <4>5, CommandFitsKept DEF Same
            <4> QED
                BY <3>1, <4>1, <4>6 DEF CommandFits
        <3>2. CASE cmds'[i] = c
            <4>1. ASSUME NEW s \in Partitions, NEW o \in Nat, c.rec = <<s, o>>
                  PROVE  s = p /\ o = x
                BY <1>5, <4>1
            <4>2. x < position'[p]
                BY <1>2, <1>3
            <4> QED
                BY <1>1, <1>4, <1>5, <1>10, <1>11, <3>2, <4>1, <4>2 DEF CommandFits
        <3> QED
            BY <1>7, <3>1, <3>2
    <2>2. ASSUME NEW i \in DOMAIN cmds', NEW j \in DOMAIN cmds', i < j
          PROVE  Precedes(cmds[i], cmds[j])'
        <3>0. Len(cmds) \in Nat /\ i \in Nat /\ j \in Nat /\ i \in DOMAIN cmds /\ cmds'[i] = cmds[i]
            BY <1>1, <1>6, <2>2
        <3>1. CASE j \in DOMAIN cmds /\ cmds'[j] = cmds[j]
            <4>1. Precedes(cmds[i], cmds[j])
                BY <2>2, <3>0, <3>1 DEF ReplayInv, CommandsOK
            <4> QED
                BY <3>0, <3>1, <4>1 DEF Precedes
        <3>2. CASE cmds'[j] = c
            <4>1. CommandFits(cmds[i])
                BY <3>0 DEF ReplayInv, CommandsOK
            <4>2. ASSUME NEW s \in Partitions, NEW o \in Nat, NEW n \in Nat, cmds[i].kind = "event",
                         ~cmds[i].abandoned, cmds[i].rec = <<s, o>>, c.rec = <<s, n>>
                  PROVE  o < n
                <5>1. s = p /\ n = x
                    BY <1>5, <4>2
                <5> QED
                    BY <4>1, <4>2, <5>1 DEF CommandFits
            <4> QED
                BY <3>0, <3>2, <4>2 DEF Precedes
        <3> QED
            BY <1>7, <3>1, <3>2
    <2> QED
        BY <2>1, <2>2 DEF CommandsOK
<1>14. NothingSkipped'
    <2> SUFFICES ASSUME proc' # "stopping"
                 PROVE  /\ \A i \in DOMAIN cmds' : cmds'[i].kind = "event" => ~cmds'[i].abandoned
                        /\ \A s \in Partitions, o \in Nat : DecidesAt(s, o)' /\ o < position'[s] =>
                               Done(s, o)' \/ OnItsWay(s, o)'
        BY DEF NothingSkipped
    <2>1. /\ \A i \in DOMAIN cmds : cmds[i].kind = "event" => ~cmds[i].abandoned
          /\ \A s \in Partitions, o \in Nat : DecidesAt(s, o) /\ o < position[s] => Done(s, o) \/ OnItsWay(s, o)
        BY <1>1 DEF ReplayInv, NothingSkipped
    <2>2. \A i \in DOMAIN cmds' : cmds'[i].kind = "event" => ~cmds'[i].abandoned
        BY <1>5, <1>7, <2>1
    <2>3. \E i \in DOMAIN cmds' : cmds'[i].kind = "event" /\ cmds'[i].rec = <<p, x>>
        BY <1>5, <1>9
    <2>4. ASSUME NEW s \in Partitions, NEW o \in Nat, DecidesAt(s, o), o < position'[s]
          PROVE  Done(s, o) \/ OnItsWay(s, o)'
        <3>1. position[s] \in Nat
            BY Counted
        <3>2. o < position[s] \/ (s = p /\ o = x)
            BY <1>2, <1>3, <2>4, <3>1
        <3>3. OnItsWay(s, o) => OnItsWay(s, o)'
            BY <1>8 DEF OnItsWay
        <3> QED
            BY <2>1, <2>3, <2>4, <3>2, <3>3 DEF OnItsWay
    <2> QED
        BY <1>11, <2>2, <2>4
<1>15. RedisFits'
    <2>1. LogGrows /\ DoneShrinks
        BY <1>1, <1>11 DEF LogGrows, DoneShrinks
    <2> QED
        BY <1>1, <2>1, FitsKept DEF ReplayInv
<1> QED
    BY <1>12, <1>13, <1>14, <1>15 DEF ReplayInv

\* A record that decides nothing is acknowledged, or ends the process: what Redis has stays right.
LEMMA ReplayDiscards ==
    ASSUME TypeInv, TypeInv', ReplayInv, NEW p \in Partitions, DeliverForeign(p) \/ DeliverMalformed(p)
    PROVE  ReplayInv'
<1> DEFINE x == position[p]
<1>1. /\ UNCHANGED <<log, link, suspended, committed, cmds, replies, redis, filled>>
      /\ position' = [position EXCEPT ![p] = @ + 1]
      /\ acked' = acked \/ acked' = [acked EXCEPT ![p] = @ \cup {x}]
      /\ proc' # "stopping" => proc # "stopping"
    BY DEF DeliverForeign, DeliverMalformed, redisVars
<1>2. x \in Nat /\ x < Len(log[p]) /\ Len(log[p]) \in Nat /\ position \in [Partitions -> Nat]
      /\ log[p][x + 1].type \notin {"create", "update", "delete"} /\ acked \in [Partitions -> SUBSET Nat]
    BY Counted DEF DeliverForeign, DeliverMalformed, Deliverable, TypeInv, AclTypeOK
<1>3. /\ position'[p] = x + 1
      /\ \A s \in Partitions : s # p => position'[s] = position[s]
    BY <1>1, <1>2
<1>4. ~DecidesAt(p, x)
    BY <1>2 DEF DecidesAt
<1>5. \A s \in Partitions, o \in Nat :
          /\ o \in acked[s] => o \in acked'[s]
          /\ o \in acked'[s] => o \in acked[s] \/ (s = p /\ o = x)
    BY <1>1, <1>2
<1>6. \A s \in Partitions, o \in Nat :
          /\ Done(s, o) => Done(s, o)'
          /\ Done(s, o)' => Done(s, o) \/ (s = p /\ o = x)
          /\ DecidesAt(s, o)' <=> DecidesAt(s, o)
    BY <1>1, <1>5 DEF Done, DecidesAt
<1>7. LogGrows /\ DoneShrinks
    <2>1. LogGrows
        BY <1>1 DEF LogGrows
    <2>2. DoneShrinks
        BY <1>4, <1>6 DEF DoneShrinks
    <2> QED
        BY <2>1, <2>2
<1>8. \A s \in Partitions, o \in Nat :
          /\ o < position[s] => o < position'[s]
          /\ o < position'[s] => o < position[s] \/ (s = p /\ o = x)
    <2> TAKE s \in Partitions, o \in Nat
    <2>1. position[s] \in Nat
        BY Counted
    <2> QED
        BY <1>2, <1>3, <2>1
<1>9. PositionsOK'
    <2>1. ASSUME NEW s \in Partitions
          PROVE  /\ committed'[s] <= position'[s] /\ position'[s] <= Len(log'[s])
                 /\ \A o \in Nat : o \in acked'[s] \/ <<s, o>> \in replies' => o < position'[s]
        <3>1. committed[s] <= position[s] /\ position[s] <= Len(log[s])
              /\ \A o \in Nat : o \in acked[s] \/ <<s, o>> \in replies => o < position[s]
            BY DEF ReplayInv, PositionsOK
        <3>2. position[s] \in Nat /\ committed[s] \in Nat /\ Len(log[s]) \in Nat
            BY Counted
        <3>3. (s = p => position'[s] = position[s] + 1 /\ position[s] < Len(log[s]))
              /\ (s # p => position'[s] = position[s])
            BY <1>2, <1>3
        <3>4. committed[s] <= position'[s]
            BY <3>1, <3>2, <3>3
        <3>5. position'[s] <= Len(log[s])
            BY <3>1, <3>2, <3>3
        <3>6. x < position'[p]
            BY <1>2, <1>3
        <3>7. \A o \in Nat : o \in acked'[s] => o < position'[s]
            BY <1>5, <1>8, <3>1, <3>6
        <3>8. \A o \in Nat : <<s, o>> \in replies' => o < position'[s]
            BY <1>1, <1>8, <3>1
        <3> QED
            BY <1>1, <3>4, <3>5, <3>7, <3>8
    <2> QED
        BY <1>1, <2>1 DEF ReplayInv, PositionsOK
<1>10. CommandsOK'
    <2>1. \A i \in DOMAIN cmds, s \in Partitions, o \in Nat :
              cmds[i].kind = "event" /\ cmds[i].rec = <<s, o>> /\ ~cmds[i].abandoned => o < position'[s]
        BY <1>8 DEF ReplayInv, CommandsOK, CommandFits
    <2> QED
        BY <1>1, <1>7, <2>1, CommandsKept DEF ReplayInv, Same
<1>11. NothingSkipped'
    <2>1. proc # "stopping" =>
              /\ \A i \in DOMAIN cmds : cmds[i].kind = "event" => ~cmds[i].abandoned
              /\ \A s \in Partitions, o \in Nat : DecidesAt(s, o) /\ o < position[s] => Done(s, o) \/ OnItsWay(s, o)
        BY DEF ReplayInv, NothingSkipped
    <2>2. \A s \in Partitions, o \in Nat : OnItsWay(s, o)' <=> OnItsWay(s, o)
        BY <1>1 DEF OnItsWay
    <2>3. proc # "stopping" => \A s \in Partitions, o \in Nat : DecidesAt(s, o)' /\ o < position'[s] =>
                                   Done(s, o)' \/ OnItsWay(s, o)'
        BY <1>4, <1>6, <1>8, <2>1, <2>2
    <2> QED
        BY <1>1, <2>1, <2>3 DEF NothingSkipped
<1>12. RedisFits'
    BY <1>1, <1>7, FitsKept DEF ReplayInv
<1> QED
    BY <1>9, <1>10, <1>11, <1>12 DEF ReplayInv

\* The promise of an executed command resolves: the consumer was done with the record already.
LEMMA ReplayAcknowledges ==
    ASSUME TypeInv, TypeInv', ReplayInv, NEW r \in replies, Ack(r)
    PROVE  ReplayInv'
<1>1. PICK p \in Partitions, x \in Nat : r = <<p, x>>
    BY DEF TypeInv, AclTypeOK, Records
<1>2. /\ UNCHANGED <<log, proc, link, suspended, position, committed, cmds, redis, filled>>
      /\ replies' = replies \ {<<p, x>>} /\ acked' = [acked EXCEPT ![p] = @ \cup {x}]
    BY <1>1 DEF Ack
<1>3. acked \in [Partitions -> SUBSET Nat]
    BY DEF TypeInv, AclTypeOK
<1>4. \A s \in Partitions, o \in Nat :
          o \in acked'[s] \/ <<s, o>> \in replies' <=> o \in acked[s] \/ <<s, o>> \in replies
    <2> TAKE s \in Partitions, o \in Nat
    <2>1. o \in acked'[s] <=> o \in acked[s] \/ (s = p /\ o = x)
        BY <1>2, <1>3
    <2>2. <<s, o>> \in replies' <=> <<s, o>> \in replies /\ ~(s = p /\ o = x)
        BY <1>2
    <2>3. <<p, x>> \in replies
        BY <1>1
    <2> QED
        BY <2>1, <2>2, <2>3
<1>5. \A s \in Partitions, o \in Nat : (Done(s, o)' <=> Done(s, o)) /\ (DecidesAt(s, o)' <=> DecidesAt(s, o))
    BY <1>2, <1>4 DEF Done, DecidesAt
<1>6. LogGrows /\ DoneShrinks
    BY <1>2, <1>5 DEF LogGrows, DoneShrinks
<1>7. PositionsOK'
    <2>1. link # "up" => replies' = {}
        BY <1>2 DEF ReplayInv, PositionsOK
    <2> QED
        BY <1>2, <1>4, <2>1 DEF ReplayInv, PositionsOK
<1>8. CommandsOK'
    <2>1. \A i \in DOMAIN cmds, s \in Partitions, o \in Nat :
              cmds[i].kind = "event" /\ cmds[i].rec = <<s, o>> /\ ~cmds[i].abandoned => o < position[s]
        BY DEF ReplayInv, CommandsOK, CommandFits
    <2> QED
        BY <1>2, <1>6, <2>1, CommandsKept DEF ReplayInv, Same
<1>9. NothingSkipped'
    BY <1>2, <1>5 DEF ReplayInv, NothingSkipped, OnItsWay
<1>10. RedisFits'
    BY <1>2, <1>6, FitsKept DEF ReplayInv
<1> QED
    BY <1>7, <1>8, <1>9, <1>10 DEF ReplayInv

\* What is committed was acknowledged.
LEMMA ReplayCommits ==
    ASSUME TypeInv, TypeInv', ReplayInv, NEW p \in Partitions, Commit(p)
    PROVE  ReplayInv'
<1>1. PICK n \in committed[p] + 1 .. position[p] :
          /\ \A o \in committed[p] .. n - 1 : o \in acked[p]
          /\ committed' = [committed EXCEPT ![p] = n]
          /\ UNCHANGED <<log, proc, link, suspended, position, acked, cmds, replies, redis, filled>>
    BY DEF Commit, redisVars
<1>2. committed \in [Partitions -> Nat] /\ position[p] \in Nat /\ committed[p] \in Nat /\ n \in Nat
      /\ committed[p] < n /\ n <= position[p]
    BY <1>1, Counted DEF TypeInv, AclTypeOK
<1>3. committed'[p] = n /\ \A s \in Partitions : s # p => committed'[s] = committed[s]
    BY <1>1, <1>2
<1>4. \A s \in Partitions, o \in Nat : (Done(s, o)' <=> Done(s, o)) /\ (DecidesAt(s, o)' <=> DecidesAt(s, o))
    <2> TAKE s \in Partitions, o \in Nat
    <2>1. CASE s # p
        BY <1>1, <1>3, <2>1 DEF Done, DecidesAt
    <2>2. CASE s = p
        <3>1. o < n => o < committed[p] \/ o \in committed[p] .. n - 1
            BY <1>2
        <3>2. o < committed[p] => o < n
            BY <1>2
        <3> QED
            BY <1>1, <1>3, <2>2, <3>1, <3>2 DEF Done, DecidesAt
    <2> QED
        BY <2>1, <2>2
<1>5. LogGrows /\ DoneShrinks
    BY <1>1, <1>4 DEF LogGrows, DoneShrinks
<1>6. PositionsOK'
    BY <1>1, <1>2, <1>3 DEF ReplayInv, PositionsOK
<1>7. CommandsOK'
    <2>1. \A i \in DOMAIN cmds, s \in Partitions, o \in Nat :
              cmds[i].kind = "event" /\ cmds[i].rec = <<s, o>> /\ ~cmds[i].abandoned => o < position[s]
        BY DEF ReplayInv, CommandsOK, CommandFits
    <2> QED
        BY <1>1, <1>5, <2>1, CommandsKept DEF ReplayInv, Same
<1>8. NothingSkipped'
    BY <1>1, <1>4 DEF ReplayInv, NothingSkipped, OnItsWay
<1>9. RedisFits'
    BY <1>1, <1>5, FitsKept DEF ReplayInv
<1> QED
    BY <1>6, <1>7, <1>8, <1>9 DEF ReplayInv

\* A command times out: it keeps its place, and one for a record ends the process.
LEMMA ReplayTimesOut ==
    ASSUME TypeInv, TypeInv', ReplayInv, NEW i \in DOMAIN cmds, CommandTimesOut(i)
    PROVE  ReplayInv'
<1>1. /\ UNCHANGED <<log, link, suspended, position, acked, committed, replies, redis, filled>>
      /\ cmds' = [cmds EXCEPT ![i].abandoned = TRUE]
      /\ proc' = IF cmds[i].kind = "event" THEN "stopping" ELSE proc
    BY DEF CommandTimesOut, consumerVars
<1>2. cmds \in Seq(Cmd) /\ cmds[i] \in Cmd
    BY DEF TypeInv, AclTypeOK
<1>3. /\ DOMAIN cmds' = DOMAIN cmds
      /\ \A j \in DOMAIN cmds : j # i => cmds'[j] = cmds[j]
      /\ cmds'[i] = [cmds[i] EXCEPT !.abandoned = TRUE]
    BY <1>1, <1>2
<1>4. /\ cmds'[i].kind = cmds[i].kind /\ cmds'[i].rec = cmds[i].rec /\ cmds'[i].fp = cmds[i].fp
      /\ cmds'[i].owner = cmds[i].owner /\ cmds'[i].abandoned = TRUE
    BY <1>2, <1>3 DEF Cmd
<1>5. \A j \in DOMAIN cmds : Same(cmds'[j], cmds[j]) /\ cmds'[j].kind = cmds[j].kind
    BY <1>3, <1>4 DEF Same
<1>6. LogGrows /\ DoneShrinks
    BY <1>1 DEF LogGrows, DoneShrinks, DecidesAt, Done
<1>7. PositionsOK'
    BY <1>1 DEF ReplayInv, PositionsOK
<1>8. CommandsOK'
    <2>1. \A j \in DOMAIN cmds, s \in Partitions, o \in Nat :
              cmds[j].kind = "event" /\ cmds[j].rec = <<s, o>> /\ ~cmds[j].abandoned => o < position[s]
        BY DEF ReplayInv, CommandsOK, CommandFits
    <2>2. \A j \in DOMAIN cmds', s \in Partitions, o \in Nat :
              cmds'[j].kind = "event" /\ cmds'[j].rec = <<s, o>> /\ ~cmds'[j].abandoned => o < position'[s]
        BY <1>1, <1>3, <1>4, <2>1
    <2>3. CommandsOK
        BY DEF ReplayInv
    <2>4. \A j \in DOMAIN cmds' : cmds'[j].kind = "event" => \E k \in DOMAIN cmds : Same(cmds'[j], cmds[k])
        BY <1>3, <1>5
    <2>5. \A j, k \in DOMAIN cmds' : j < k /\ cmds'[j].kind = "event" /\ cmds'[k].kind = "event" =>
              \E l, m \in DOMAIN cmds : l < m /\ Same(cmds'[j], cmds[l]) /\ Same(cmds'[k], cmds[m])
        BY <1>3, <1>5
    <2> QED
        BY <1>6, <2>2, <2>3, <2>4, <2>5, CommandsKept
<1>9. NothingSkipped'
    <2>1. CASE cmds[i].kind = "event"
        BY <1>1, <2>1 DEF NothingSkipped
    <2>2. CASE cmds[i].kind # "event"
        <3>1. \A s \in Partitions, o \in Nat : OnItsWay(s, o) => OnItsWay(s, o)'
            BY <1>3, <1>4, <2>2 DEF OnItsWay
        <3>2. (\A j \in DOMAIN cmds : cmds[j].kind = "event" => ~cmds[j].abandoned)
              => \A j \in DOMAIN cmds' : cmds'[j].kind = "event" => ~cmds'[j].abandoned
            BY <1>3, <1>4, <2>2
        <3>3. \A s \in Partitions, o \in Nat : (Done(s, o)' <=> Done(s, o)) /\ (DecidesAt(s, o)' <=> DecidesAt(s, o))
            BY <1>1 DEF Done, DecidesAt
        <3> QED
            BY <1>1, <2>2, <3>1, <3>2, <3>3 DEF ReplayInv, NothingSkipped
    <2> QED
        BY <2>1, <2>2
<1>10. RedisFits'
    BY <1>1, <1>6, FitsKept DEF ReplayInv
<1> QED
    BY <1>7, <1>8, <1>9, <1>10 DEF ReplayInv

\* A query's write goes behind the commands sent before it.
LEMMA ReplayFills ==
    ASSUME TypeInv, TypeInv', ReplayInv, NEW q \in Queries, QueryFills(q)
    PROVE  ReplayInv'
<1> DEFINE c == FillCmd(query[q].fp, query[q].owner)
<1>1. UNCHANGED <<log, proc, link, suspended, position, acked, committed, replies, redis, filled>>
      /\ cmds' = Append(cmds, c) /\ c.kind = "fill"
    BY DEF QueryFills, FillCmd, consumerVars
<1>2. cmds \in Seq(Cmd)
    BY DEF TypeInv, AclTypeOK
<1>3. \A i \in DOMAIN cmds' : cmds'[i].kind = "event" => i \in DOMAIN cmds /\ cmds'[i] = cmds[i]
    BY <1>1, <1>2
<1>4. \A i \in DOMAIN cmds : i \in DOMAIN cmds' /\ cmds'[i] = cmds[i]
    BY <1>1, <1>2
<1>5. LogGrows /\ DoneShrinks
    BY <1>1 DEF LogGrows, DoneShrinks, DecidesAt, Done
<1>6. PositionsOK'
    BY <1>1 DEF ReplayInv, PositionsOK
<1>7. CommandsOK'
    <2>1. \A i \in DOMAIN cmds, s \in Partitions, o \in Nat :
              cmds[i].kind = "event" /\ cmds[i].rec = <<s, o>> /\ ~cmds[i].abandoned => o < position[s]
        BY DEF ReplayInv, CommandsOK, CommandFits
    <2> QED
        BY <1>1, <1>3, <1>5, <2>1, CommandsKept DEF ReplayInv, Same
<1>8. NothingSkipped'
    <2>1. \A s \in Partitions, o \in Nat : OnItsWay(s, o) => OnItsWay(s, o)'
        BY <1>4 DEF OnItsWay
    <2>2. \A s \in Partitions, o \in Nat : (Done(s, o)' <=> Done(s, o)) /\ (DecidesAt(s, o)' <=> DecidesAt(s, o))
        BY <1>1 DEF Done, DecidesAt
    <2> QED
        BY <1>1, <1>3, <2>1, <2>2 DEF ReplayInv, NothingSkipped
<1>9. RedisFits'
    BY <1>1, <1>5, FitsKept DEF ReplayInv
<1> QED
    BY <1>6, <1>7, <1>8, <1>9 DEF ReplayInv

\* A record is appended: the consumer has not been given it.
LEMMA ReplayPublishes ==
    ASSUME TypeInv, TypeInv', ReplayInv, NEW p \in Partitions, NEW e, Append2Partition(p, e), UNCHANGED aclVars
    PROVE  ReplayInv'
<1>1. /\ UNCHANGED <<proc, link, suspended, position, acked, committed, cmds, replies, redis, filled>>
      /\ log' = [log EXCEPT ![p] = Append(@, e)]
    BY DEF Append2Partition, aclVars, consumerVars, redisVars
<1>2. log \in [Partitions -> Seq(OwnershipEvent)]
    BY DEF TypeInv, AclTypeOK, LogTypeOK
<1>3. \A s \in Partitions : Len(log[s]) <= Len(log'[s])
    BY <1>1, <1>2
<1>4. LogGrows
    <2> SUFFICES ASSUME NEW s \in Partitions, NEW o \in Nat, o < Len(log[s])
                 PROVE  o < Len(log'[s]) /\ log'[s][o + 1] = log[s][o + 1]
        BY DEF LogGrows
    <2>1. CASE s # p
        BY <1>1, <1>2, <2>1
    <2>2. CASE s = p
        <3>1. log[p] \in Seq(OwnershipEvent) /\ log'[p] = Append(log[p], e) /\ o + 1 \in 1 .. Len(log[p])
            BY <1>1, <1>2, <2>2
        <3> QED
            BY <2>2, <3>1
    <2> QED
        BY <2>1, <2>2
<1>5. \A s \in Partitions, o \in Nat : o < position[s] => o < Len(log[s])
    <2> TAKE s \in Partitions, o \in Nat
    <2>1. position[s] <= Len(log[s]) /\ position[s] \in Nat /\ Len(log[s]) \in Nat
        BY Counted DEF ReplayInv, PositionsOK
    <2> QED
        BY <2>1
<1>6. \A s \in Partitions, o \in Nat : Done(s, o) => o < position[s]
    <2> TAKE s \in Partitions, o \in Nat
    <2>1. committed[s] <= position[s] /\ (o \in acked[s] \/ <<s, o>> \in replies => o < position[s])
        BY DEF ReplayInv, PositionsOK
    <2>2. committed[s] \in Nat /\ position[s] \in Nat
        BY Counted
    <2> QED
        BY <2>1, <2>2 DEF Done
<1>7. \A s \in Partitions, o \in Nat : Done(s, o)' <=> Done(s, o)
    BY <1>1 DEF Done
<1>8. \A s \in Partitions, o \in Nat : o < position[s] => (DecidesAt(s, o)' <=> DecidesAt(s, o))
    <2> SUFFICES ASSUME NEW s \in Partitions, NEW o \in Nat, o < position[s]
                 PROVE  DecidesAt(s, o)' <=> DecidesAt(s, o)
        OBVIOUS
    <2>1. o < Len(log[s]) /\ Len(log[s]) \in Nat /\ Len(log'[s]) \in Nat
        BY <1>5 DEF TypeInv, AclTypeOK, LogTypeOK
    <2>2. o < Len(log'[s]) /\ log'[s][o + 1] = log[s][o + 1]
        BY <1>4, <2>1 DEF LogGrows
    <2>3. o \in 0 .. Len(log[s]) - 1 /\ o \in 0 .. Len(log'[s]) - 1
        BY <2>1, <2>2
    <2> QED
        BY <2>2, <2>3 DEF DecidesAt
<1>9. DoneShrinks
    BY <1>6, <1>7, <1>8 DEF DoneShrinks
<1>10. PositionsOK'
    <2>1. \A s \in Partitions : position[s] <= Len(log'[s])
        <3> TAKE s \in Partitions
        <3>1. position[s] <= Len(log[s]) /\ position[s] \in Nat /\ Len(log[s]) \in Nat /\ Len(log'[s]) \in Nat
            BY Counted DEF ReplayInv, PositionsOK, TypeInv, AclTypeOK, LogTypeOK
        <3> QED
            BY <1>3, <3>1
    <2> QED
        BY <1>1, <2>1 DEF ReplayInv, PositionsOK
<1>11. CommandsOK'
    <2>1. \A i \in DOMAIN cmds, s \in Partitions, o \in Nat :
              cmds[i].kind = "event" /\ cmds[i].rec = <<s, o>> /\ ~cmds[i].abandoned => o < position[s]
        BY DEF ReplayInv, CommandsOK, CommandFits
    <2> QED
        BY <1>1, <1>4, <1>9, <2>1, CommandsKept DEF ReplayInv, Same
<1>12. NothingSkipped'
    <2>1. \A s \in Partitions, o \in Nat : OnItsWay(s, o)' <=> OnItsWay(s, o)
        BY <1>1 DEF OnItsWay
    <2> QED
        BY <1>1, <1>7, <1>8, <2>1 DEF ReplayInv, NothingSkipped
<1>13. RedisFits'
    BY <1>1, <1>4, <1>9, FitsKept DEF ReplayInv
<1> QED
    BY <1>10, <1>11, <1>12, <1>13 DEF ReplayInv

\* Redis executes the oldest command.  That of a record makes Redis say what the record says, which is
\* ahead of everything of its partition the consumer was done with, and behind every command to come.
LEMMA ReplayExecutes ==
    ASSUME TypeInv, TypeInv', ReplayInv, RedisExecutes
    PROVE  ReplayInv'
<1>1. PICK c : c = Head(cmds)
    OBVIOUS
<1>2. cmds \in Seq(Cmd) /\ cmds # << >>
    BY DEF RedisExecutes, TypeInv, AclTypeOK
<1>3. c \in Cmd /\ c = cmds[1] /\ 1 \in DOMAIN cmds
    BY <1>1, <1>2
<1>4. /\ UNCHANGED <<log, proc, link, suspended, position, acked, committed>>
      /\ cmds' = Tail(cmds) /\ link = "up" /\ redis' = [redis EXCEPT ![c.fp] = c.owner]
    BY <1>1 DEF RedisExecutes, consumerVars
<1>5. \A i \in DOMAIN cmds' : i \in Nat /\ i + 1 \in DOMAIN cmds /\ 1 < i + 1 /\ cmds'[i] = cmds[i + 1]
    BY <1>2, <1>4
<1>6. \A k \in DOMAIN cmds : k # 1 => k - 1 \in DOMAIN cmds' /\ cmds'[k - 1] = cmds[k]
    BY <1>2, <1>4
<1>7. redis \in [Fingerprints -> Owners \cup {NoOwner}] /\ c.fp \in Fingerprints
    BY <1>3 DEF TypeInv, AclTypeOK, Cmd
<1>8. redis'[c.fp] = c.owner /\ \A f \in Fingerprints : f # c.fp => redis'[f] = redis[f]
    BY <1>4, <1>7
<1>9. LogGrows
    BY <1>4 DEF LogGrows
<1>10. CommandFits(c)
    BY <1>3 DEF ReplayInv, CommandsOK, CommandFits
<1>11. \A s \in Partitions, o \in Nat : DecidesAt(s, o)' <=> DecidesAt(s, o)
    BY <1>4 DEF DecidesAt
<1>12. \A s \in Partitions : \A f : OffsetsOf(s, f)' = OffsetsOf(s, f)
    BY <1>4 DEF OffsetsOf, Decides
<1>13. CASE c.kind # "event"
    <2>1. replies' = replies /\ filled' = filled \cup {c.fp}
        BY <1>1, <1>13 DEF RedisExecutes
    <2>2. \A s \in Partitions, o \in Nat : Done(s, o)' <=> Done(s, o)
        BY <1>4, <2>1 DEF Done
    <2>3. PositionsOK'
        BY <1>4, <2>1 DEF ReplayInv, PositionsOK
    <2>4. CommandsOK'
        <3>1. DoneShrinks
            BY <1>11, <2>2 DEF DoneShrinks
        <3>2. \A i \in DOMAIN cmds, s \in Partitions, o \in Nat :
                  cmds[i].kind = "event" /\ cmds[i].rec = <<s, o>> /\ ~cmds[i].abandoned => o < position[s]
            BY DEF ReplayInv, CommandsOK, CommandFits
        <3>3. CommandsOK
            BY DEF ReplayInv
        <3>4. \A i \in DOMAIN cmds' : cmds'[i].kind = "event" => \E k \in DOMAIN cmds : Same(cmds'[i], cmds[k])
            BY <1>5 DEF Same
        <3>5. \A i, j \in DOMAIN cmds' : i < j /\ cmds'[i].kind = "event" /\ cmds'[j].kind = "event" =>
                  \E k, l \in DOMAIN cmds : k < l /\ Same(cmds'[i], cmds[k]) /\ Same(cmds'[j], cmds[l])
            <4> TAKE i, j \in DOMAIN cmds'
            <4>1. i + 1 \in DOMAIN cmds /\ j + 1 \in DOMAIN cmds /\ (i < j => i + 1 < j + 1)
                BY <1>5
            <4> QED
                BY <1>5, <4>1 DEF Same
        <3>6. \A i \in DOMAIN cmds', s \in Partitions, o \in Nat :
                  cmds'[i].kind = "event" /\ cmds'[i].rec = <<s, o>> /\ ~cmds'[i].abandoned => o < position'[s]
            BY <1>4, <1>5, <3>2
        <3> QED
            BY <1>9, <3>1, <3>3, <3>4, <3>5, <3>6, CommandsKept
    <2>5. NothingSkipped'
        <3>1. \A s \in Partitions, o \in Nat : OnItsWay(s, o) => OnItsWay(s, o)'
            BY <1>3, <1>6, <1>13 DEF OnItsWay
        <3> QED
            BY <1>4, <1>5, <1>11, <2>2, <3>1 DEF ReplayInv, NothingSkipped
    <2>6. RedisFits'
        <3>1. ASSUME NEW f \in Fingerprints \ filled'
              PROVE  NothingWritten(f)' \/ \E s \in Partitions, o \in Nat : Says(s, o, f)'
            <4>1. f \in Fingerprints \ filled /\ redis'[f] = redis[f]
                BY <1>8, <2>1
            <4>2. \A s \in Partitions : \A o \in OffsetsOf(s, f) : o \in Nat
                BY OffsetsDecide
            <4>3. NothingWritten(f) => NothingWritten(f)'
                BY <1>12, <2>2, <4>1, <4>2 DEF NothingWritten
            <4>4. \A s \in Partitions, o \in Nat : Says(s, o, f) => Says(s, o, f)'
                BY <1>4, <1>12, <2>2, <4>1, <4>2 DEF Says
            <4> QED
                BY <4>1, <4>3, <4>4 DEF ReplayInv, RedisFits
        <3> QED
            BY <3>1 DEF RedisFits
    <2> QED
        BY <2>3, <2>4, <2>5, <2>6 DEF ReplayInv
<1>14. CASE c.kind = "event"
    <2>1. PICK p \in Partitions, x \in Nat : c.rec = <<p, x>>
        BY <1>3, <1>14 DEF Cmd, Records
    <2>2. filled' = filled /\ replies' = IF c.abandoned THEN replies ELSE replies \cup {<<p, x>>}
        BY <1>1, <1>14, <2>1 DEF RedisExecutes
    <2>3. /\ DecidesAt(p, x) /\ c.fp = log[p][x + 1].fp /\ c.owner = log[p][x + 1].owner
          /\ ~c.abandoned => x < position[p]
          /\ \A n \in Nat : DecidesAt(p, n) /\ Done(p, n) => n < x
        BY <1>10, <1>14, <2>1 DEF CommandFits
    <2>4. \A s \in Partitions, o \in Nat :
              <<s, o>> \in replies' <=> <<s, o>> \in replies \/ (~c.abandoned /\ s = p /\ o = x)
        BY <2>2
    <2>5. \A s \in Partitions, o \in Nat : Done(s, o)' <=> Done(s, o) \/ (~c.abandoned /\ s = p /\ o = x)
        BY <1>4, <2>4 DEF Done
    <2>6. PositionsOK'
        <3>1. \A s \in Partitions, o \in Nat : <<s, o>> \in replies' => o < position'[s]
            BY <1>4, <2>3, <2>4 DEF ReplayInv, PositionsOK
        <3> QED
            BY <1>4, <3>1 DEF ReplayInv, PositionsOK
    <2>7. CommandsOK'
        <3>1. ASSUME NEW i \in DOMAIN cmds'
              PROVE  CommandFits(cmds[i])'
            <4>1. CommandFits(cmds[i + 1]) /\ cmds'[i] = cmds[i + 1]
                BY <1>5 DEF ReplayInv, CommandsOK
            <4>2. Precedes(cmds[1], cmds[i + 1])
                BY <1>3, <1>5 DEF ReplayInv, CommandsOK
            <4>3. \A o \in Nat : cmds[i + 1].kind = "event" /\ cmds[i + 1].rec = <<p, o>> /\ ~c.abandoned => x < o
                BY <1>3, <1>14, <2>1, <4>2 DEF Precedes
            <4> QED
                BY <1>4, <1>11, <2>5, <4>1, <4>3 DEF CommandFits
        <3>2. ASSUME NEW i \in DOMAIN cmds', NEW j \in DOMAIN cmds', i < j
              PROVE  Precedes(cmds[i], cmds[j])'
            <4>1. i + 1 \in DOMAIN cmds /\ j + 1 \in DOMAIN cmds /\ i + 1 < j + 1
                BY <1>5, <3>2
            <4>2. Precedes(cmds[i + 1], cmds[j + 1])
                BY <4>1 DEF ReplayInv, CommandsOK
            <4> QED
                BY <1>5, <4>2 DEF Precedes
        <3> QED
            BY <3>1, <3>2 DEF CommandsOK
    <2>8. NothingSkipped'
        <3> SUFFICES ASSUME proc' # "stopping"
                     PROVE  /\ \A i \in DOMAIN cmds' : cmds'[i].kind = "event" => ~cmds'[i].abandoned
                            /\ \A s \in Partitions, o \in Nat : DecidesAt(s, o)' /\ o < position'[s] =>
                                   Done(s, o)' \/ OnItsWay(s, o)'
            BY DEF NothingSkipped
        <3>1. /\ \A i \in DOMAIN cmds : cmds[i].kind = "event" => ~cmds[i].abandoned
              /\ \A s \in Partitions, o \in Nat : DecidesAt(s, o) /\ o < position[s] => Done(s, o) \/ OnItsWay(s, o)
            BY <1>4 DEF ReplayInv, NothingSkipped
        <3>2. ~c.abandoned
            BY <1>3, <1>14, <3>1
        <3>3. \A s \in Partitions, o \in Nat : OnItsWay(s, o) => OnItsWay(s, o)' \/ (s = p /\ o = x)
            BY <1>3, <1>6, <2>1 DEF OnItsWay
        <3> QED
            BY <1>4, <1>5, <1>11, <2>5, <3>1, <3>2, <3>3
    <2>9. RedisFits'
        <3>1. ASSUME NEW f \in Fingerprints \ filled'
              PROVE  NothingWritten(f)' \/ \E s \in Partitions, o \in Nat : Says(s, o, f)'
            <4>1. \A s \in Partitions : \A o : o \in OffsetsOf(s, f) <=> o \in Nat /\ DecidesAt(s, o) /\ log[s][o + 1].fp = f
                BY OffsetsDecide
            <4>2. CASE f = c.fp
                <5>1. x \in OffsetsOf(p, f)
                    BY <2>3, <4>1, <4>2
                <5>2. \A n \in OffsetsOf(p, f) : Done(p, n)' => n <= x
                    <6> TAKE n \in OffsetsOf(p, f)
                    <6>1. n \in Nat /\ DecidesAt(p, n)
                        BY <4>1
                    <6>2. Done(p, n)' => n < x \/ n = x
                        BY <2>3, <2>5, <6>1
                    <6> QED
                        BY <6>1, <6>2
                <5>3. redis'[f] = log[p][x + 1].owner
                    BY <1>8, <2>3, <4>2
                <5>4. Says(p, x, f)'
                    BY <1>4, <1>12, <5>1, <5>2, <5>3 DEF Says
                <5> QED
                    BY <5>4
            <4>3. CASE f # c.fp
                <5>1. f \in Fingerprints \ filled /\ redis'[f] = redis[f]
                    BY <1>8, <2>2, <4>3
                <5>2. \A s \in Partitions : \A o \in OffsetsOf(s, f) : o \in Nat /\ (Done(s, o)' <=> Done(s, o))
                    BY <2>3, <2>5, <4>1, <4>3
                <5>3. NothingWritten(f) => NothingWritten(f)'
                    BY <1>12, <5>1, <5>2 DEF NothingWritten
                <5>4. \A s \in Partitions, o \in Nat : Says(s, o, f) => Says(s, o, f)'
                    BY <1>4, <1>12, <5>1, <5>2 DEF Says
                <5> QED
                    BY <5>1, <5>3, <5>4 DEF ReplayInv, RedisFits
            <4> QED
                BY <4>2, <4>3
        <3> QED
            BY <3>1 DEF RedisFits
    <2> QED
        BY <2>6, <2>7, <2>8, <2>9 DEF ReplayInv
<1> QED
    BY <1>13, <1>14

\* Every step keeps the log, the commands and Redis together.
LEMMA ReplayStep == TypeInv /\ ReplayInv /\ [AclNext]_allVars => ReplayInv'
<1> SUFFICES ASSUME TypeInv, ReplayInv, [AclNext]_allVars
             PROVE  ReplayInv'
    OBVIOUS
<1>1. TypeInv'
    BY TypeStep
<1>2. CASE Start
    BY <1>2, ReplayIdle DEF Start, ReplayVars, consumerVars, redisVars
<1>3. CASE RedisConnects
    <2>1. /\ UNCHANGED <<log, proc, committed, cmds, replies, redis, filled>>
          /\ link' = "up" /\ suspended' = FALSE /\ link # "up" /\ (link = "connecting" \/ Pending = {})
          /\ position' = IF suspended THEN committed ELSE position
          /\ acked' = IF suspended THEN [p \in Partitions |-> {}] ELSE acked
        BY <1>3 DEF RedisConnects, redisVars
    <2>2. replies = {} /\ (link = "connecting" => ~suspended)
        BY <2>1 DEF ReplayInv, PositionsOK
    <2>3. CASE suspended
        BY <1>1, <2>1, <2>2, <2>3, ReplayRestarts
    <2>4. CASE ~suspended
        <3>1. UNCHANGED <<position, acked>>
            BY <2>1, <2>4
        <3>2. PositionsOK'
            BY <2>1, <3>1 DEF ReplayInv, PositionsOK
        <3>3. CommandsOK'
            BY <2>1, <3>1 DEF ReplayInv, CommandsOK, CommandFits, Precedes, DecidesAt, Done
        <3>4. NothingSkipped'
            BY <2>1, <3>1 DEF ReplayInv, NothingSkipped, DecidesAt, Done, OnItsWay
        <3>5. RedisFits'
            BY <2>1, <3>1 DEF ReplayInv, RedisFits, NothingWritten, Says, OffsetsOf, Decides, Done
        <3> QED
            BY <3>2, <3>3, <3>4, <3>5 DEF ReplayInv
    <2> QED
        BY <2>3, <2>4
<1>4. CASE RedisDisconnects
    BY <1>1, <1>4, ReplayOutage
<1>5. CASE Terminated \/ Killed
    BY <1>1, <1>5, ReplayRestarts DEF Terminated, Killed, Exit
<1>6. ASSUME NEW p \in Partitions, DeliverOwnership(p)
      PROVE  ReplayInv'
    BY <1>1, <1>6, ReplayDelivers
<1>7. ASSUME NEW p \in Partitions, DeliverForeign(p) \/ DeliverMalformed(p)
      PROVE  ReplayInv'
    BY <1>1, <1>7, ReplayDiscards
<1>8. ASSUME NEW p \in Partitions, Commit(p)
      PROVE  ReplayInv'
    BY <1>1, <1>8, ReplayCommits
<1>9. CASE RedisExecutes
    BY <1>1, <1>9, ReplayExecutes
<1>10. ASSUME NEW r \in replies, Ack(r)
       PROVE  ReplayInv'
    BY <1>1, <1>10, ReplayAcknowledges
<1>11. ASSUME NEW i \in DOMAIN cmds, CommandTimesOut(i)
       PROVE  ReplayInv'
    BY <1>1, <1>11, ReplayTimesOut
<1>12. ASSUME NEW q \in Queries, QueryFills(q)
       PROVE  ReplayInv'
    BY <1>1, <1>12, ReplayFills
<1>13. ASSUME NEW q \in Queries,
              (\E f \in Fingerprints : QueryMisses(q, f))
                  \/ (\E o \in Owners \cup {NoOwner} : ServiceAnswers(q, o))
       PROVE  ReplayInv'
    BY <1>13, ReplayIdle DEF QueryMisses, ServiceAnswers, ReplayVars, consumerVars, redisVars
<1>14. ASSUME NEW p \in Partitions, NEW e \in Publishable(p), Publish(p, e)
       PROVE  ReplayInv'
    BY <1>1, <1>14, ReplayPublishes DEF Publish
<1>15. CASE UNCHANGED allVars
    BY <1>15, ReplayIdle DEF allVars, ReplayVars, aclVars, consumerVars, redisVars
<1> QED
    BY <1>2, <1>3, <1>4, <1>5, <1>6, <1>7, <1>8, <1>9, <1>10, <1>11, <1>12, <1>13, <1>14, <1>15
    DEF AclNext, AclStep

\* A consumer that has caught up is done with every record, so that the one Redis follows is the
\* last of its partition.
LEMMA CaughtUpFollows == TypeInv /\ ReplayInv => AclFollowsLog
<1> SUFFICES ASSUME TypeInv, ReplayInv, CaughtUp, NEW f \in Fingerprints \ filled
             PROVE  LET P == {p \in Partitions : OffsetsOf(p, f) # {}} IN
                        IF P = {} THEN redis[f] = NoOwner
                        ELSE \E p \in P : redis[f] = OutcomeIn(p, f)
    BY DEF AclFollowsLog
<1>1. ASSUME NEW p \in Partitions, NEW o \in OffsetsOf(p, f)
      PROVE  o \in Nat /\ Done(p, o)
    <2>1. o \in Nat /\ DecidesAt(p, o)
        BY OffsetsDecide
    <2>2. Len(log[p]) \in Nat /\ position[p] = Len(log[p])
        BY Counted DEF CaughtUp
    <2>3. o < position[p]
        BY <2>1, <2>2 DEF DecidesAt
    <2>4. proc # "stopping" /\ DOMAIN cmds = {}
        BY DEF CaughtUp
    <2> QED
        BY <2>1, <2>3, <2>4 DEF ReplayInv, NothingSkipped, OnItsWay
<1>2. CASE NothingWritten(f)
    BY <1>1, <1>2 DEF NothingWritten
<1>3. ASSUME NEW p \in Partitions, NEW o \in Nat, Says(p, o, f)
      PROVE  OffsetsOf(p, f) # {} /\ redis[f] = OutcomeIn(p, f)
    <2>1. o \in OffsetsOf(p, f) /\ \A n \in OffsetsOf(p, f) : n <= o
        BY <1>1, <1>3 DEF Says
    <2> QED
        BY <1>3, <2>1, LatestIs DEF OutcomeIn, Says
<1> QED
    BY <1>2, <1>3 DEF ReplayInv, RedisFits

\* Suspensions, timeouts, restarts and the redelivery they cause never leave Redis with an owner the
\* log does not end with: once the consumer has caught up, the entry of every certificate no query
\* wrote is the outcome of its last event in some partition.
THEOREM AclStaysInStep == AclSpec => []AclFollowsLog
<1>1. AclSpec => [](TypeInv /\ ReplayInv)
    BY TypeInit, TypeStep, ReplayInit, ReplayStep, PTL DEF AclSpec, LogAndAclInit, allVars
<1> QED
    BY <1>1, CaughtUpFollows, PTL

=============================================================================
