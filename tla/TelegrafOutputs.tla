-------------------------- MODULE TelegrafOutputs --------------------------
(***************************************************************************)
(* telegraf/plugins/outputs, in the two agents dojot-telegraf.sh runs: the *)
(* tenancy agent creates the organization of each tenant it is told of     *)
(* (dojot_organization_creator), and the data agent writes each metric to  *)
(* the organization its tag names, at one of the servers (influxdb_vdojot).*)
(* Telegraf is external: it hands an output the oldest of its metrics, and *)
(* hands them again after an error.  So is InfluxDB.                       *)
(***************************************************************************)
EXTENDS Naturals, Sequences

CONSTANTS
    Organizations,
    Servers,         \* urls, of one cluster
    OrgOf,           \* the tag of each metric; they are numbered as they arrive
    MaxTold,         \* tenancy metrics
    MaxOutputFaults  \* answers that are not a success, or are lost

ASSUME OutputsAssumption ==
    /\ OrgOf \in Seq(Organizations)
    /\ {MaxTold, MaxOutputFaults} \subseteq Nat

VARIABLES
    told,            \* tenancy metrics, in their order
    prepared,        \* how many of them were accepted
    creating,        \* the one Write creates, 0 when it is not running
    lastTold,        \* the last one of its batch
    orgId,           \* whether createOrg returned the id of the organization
    organizations, withBucket,   \* InfluxDB
    buffered, delivered,   \* metrics that arrived, and that were accepted
    flushing,        \* step of Write
    lastMetric,      \* the last one of its batch
    server,          \* the client that writes
    untried,         \* clients this Write may still try
    left,            \* organizations of the batch that are not written yet
    backingOff,      \* clients whose retryTime has not come
    written,         \* InfluxDB: metrics, and the organization each is in
    unkept,          \* history: metrics InfluxDB refused, or whose Write it cut short
    outputFaults

influx == <<organizations, withBucket, written, unkept>>
creatorVars == <<told, prepared, creating, lastTold, orgId>>
writerVars == <<buffered, delivered, flushing, lastMetric, server, untried, left, backingOff>>
outputVars == <<influx, creatorVars, writerVars, outputFaults>>

OutputsInit ==
    /\ told = <<>> /\ prepared = 0 /\ creating = 0 /\ lastTold = 0 /\ orgId = FALSE
    /\ organizations = {} /\ withBucket = {} /\ written = {} /\ unkept = {}
    /\ buffered = 0 /\ delivered = 0 /\ flushing = "idle" /\ lastMetric = 0
    /\ server \in Servers /\ untried = {} /\ left = {} /\ backingOff = {}
    /\ outputFaults = 0

Faulted == outputFaults < MaxOutputFaults /\ outputFaults' = outputFaults + 1

-----------------------------------------------------------------------------
(* dojot_organization_creator *)

\* A tenant may be told of more than once.
IsTold(o) ==
    /\ Len(told) < MaxTold /\ told' = Append(told, o)
    /\ UNCHANGED <<prepared, creating, lastTold, orgId, influx, writerVars, outputFaults>>

CreatorWrites ==
    /\ creating = 0 /\ prepared < Len(told)
    /\ lastTold' \in (prepared + 1)..Len(told)
    /\ creating' = prepared + 1 /\ orgId' = FALSE
    /\ UNCHANGED <<told, prepared, influx, writerVars, outputFaults>>

\* createOrg: a conflict is not an error (non_retryable_statuscodes), and its body has no id.
CreatesOrg ==
    /\ creating # 0 /\ ~orgId
    /\ told[creating] \notin organizations
    /\ \/ /\ organizations' = organizations \cup {told[creating]}
          /\ orgId' = TRUE /\ UNCHANGED <<creating, outputFaults>>
       \/ /\ Faulted /\ organizations' \in {organizations, organizations \cup {told[creating]}}
          /\ creating' = 0 /\ UNCHANGED orgId
    /\ UNCHANGED <<told, prepared, lastTold, withBucket, written, unkept, writerVars>>

\* An organization that exists already: createBucket, without an id, is refused, and Write starts again.
FindsConflict ==
    /\ creating # 0 /\ ~orgId /\ told[creating] \in organizations
    /\ creating' = 0
    /\ UNCHANGED <<told, prepared, lastTold, orgId, influx, writerVars, outputFaults>>

\* createBucket; the last metric of the batch has Telegraf accept them all.
CreatesBucket ==
    /\ creating # 0 /\ orgId /\ orgId' = FALSE
    /\ \/ /\ withBucket' = withBucket \cup {told[creating]}
          /\ IF creating = lastTold THEN prepared' = lastTold /\ creating' = 0
             ELSE creating' = creating + 1 /\ UNCHANGED prepared
          /\ UNCHANGED outputFaults
       \/ /\ Faulted /\ withBucket' \in {withBucket, withBucket \cup {told[creating]}}
          /\ creating' = 0 /\ UNCHANGED prepared
    /\ UNCHANGED <<told, lastTold, organizations, written, unkept, writerVars>>

-----------------------------------------------------------------------------
(* influxdb_vdojot *)

Batch == (delivered + 1)..lastMetric
InBatch(o) == {m \in Batch : OrgOf[m] = o}
Late(o) == {m \in Batch : OrgOf[m] # o}

MetricArrives ==
    /\ buffered < Len(OrgOf) /\ buffered' = buffered + 1
    /\ UNCHANGED <<influx, creatorVars, delivered, flushing, lastMetric, server, untried, left, backingOff, outputFaults>>

\* InfluxDB.Write
WriteBegins ==
    /\ flushing = "idle" /\ delivered < buffered
    /\ lastMetric' \in (delivered + 1)..buffered
    /\ flushing' = "choosing" /\ untried' = Servers
    /\ UNCHANGED <<influx, creatorVars, buffered, delivered, server, left, backingOff, outputFaults>>

\* HttpClient.Write: the metrics are put apart by organization, unless the client has to wait.
TriesServer(s) ==
    /\ flushing = "choosing" /\ s \in untried /\ untried' = untried \ {s}
    /\ IF s \in backingOff THEN UNCHANGED <<flushing, server, left>>
       ELSE /\ flushing' = "writing" /\ server' = s
            /\ left' = {OrgOf[m] : m \in Batch}
    /\ UNCHANGED <<influx, creatorVars, buffered, delivered, lastMetric, backingOff, outputFaults>>

\* All servers failed: the metrics stay in the buffer of Telegraf.
GivesUp ==
    /\ flushing = "choosing" /\ untried = {} /\ flushing' = "idle"
    /\ UNCHANGED <<influx, creatorVars, buffered, delivered, lastMetric, server, untried, left, backingOff, outputFaults>>

RetryTimeComes(s) ==
    /\ s \in backingOff /\ backingOff' = backingOff \ {s}
    /\ UNCHANGED <<influx, creatorVars, buffered, delivered, flushing, lastMetric, server, untried, left, outputFaults>>

\* writeBatch, of the metrics ms to the organization o: answers that are no error, though InfluxDB
\* may have refused metrics, or all of them for want of the bucket.
Accepted(ms, o) ==
    \/ /\ o \in withBucket /\ written' = written \cup (ms \X {o})
       /\ UNCHANGED <<unkept, outputFaults>>
    \/ /\ o \notin withBucket /\ unkept' = unkept \cup ms
       /\ UNCHANGED <<written, outputFaults>>
    \/ /\ o \in withBucket /\ Faulted
       /\ \E kept \in SUBSET ms :
            written' = written \cup (kept \X {o}) /\ unkept' = unkept \cup (ms \ kept)

\* An answer that is an error, or none though the metrics were written: it is the turn of another
\* client, and an overloaded server is left alone until its retryTime.
Refused(ms, o) ==
    /\ Faulted /\ flushing' = "choosing" /\ left' = {}
    /\ \/ o \in withBucket /\ written' = written \cup (ms \X {o}) /\ UNCHANGED backingOff
       \/ backingOff' \in {backingOff, backingOff \cup {server}} /\ UNCHANGED written
    /\ UNCHANGED unkept

EndsWrite == flushing' = "idle" /\ delivered' = lastMetric /\ left' = {}

\* Mutant: after one organization is written the batch is accepted.
WritesOneOrganization(o) ==
    /\ flushing = "writing" /\ o \in left
    /\ \/ Accepted(InBatch(o), o) /\ EndsWrite /\ UNCHANGED backingOff
       \/ Refused(InBatch(o), o) /\ UNCHANGED delivered
    /\ UNCHANGED <<organizations, withBucket, creatorVars, buffered, lastMetric, server, untried>>

\* The organizations come in any order.  500 ends Write without an error; 413 has the whole batch,
\* and not that of the organization alone, written in halves to it.
WritesOrganization(o) ==
    /\ flushing = "writing" /\ o \in left
    /\ \/ /\ Accepted(InBatch(o), o) /\ UNCHANGED backingOff
          /\ IF left = {o} THEN EndsWrite ELSE left' = left \ {o} /\ UNCHANGED <<flushing, delivered>>
       \/ /\ Faulted /\ unkept' = unkept \cup {m \in Batch : OrgOf[m] \in left} /\ EndsWrite
          /\ UNCHANGED <<written, backingOff>>
       \/ /\ Faulted /\ unkept' = unkept \cup Late(o)
          /\ flushing' = "first half" /\ left' = {o}
          /\ UNCHANGED <<written, delivered, backingOff>>
       \/ Refused(InBatch(o), o) /\ UNCHANGED delivered
    /\ UNCHANGED <<organizations, withBucket, creatorVars, buffered, lastMetric, server, untried>>

Midpoint == delivered + (lastMetric - delivered) \div 2

\* splitAndWriteBatch: here every error is returned.
WritesHalf(o) ==
    /\ flushing \in {"first half", "second half"} /\ o \in left
    /\ LET ms == IF flushing = "first half" THEN (delivered + 1)..Midpoint ELSE (Midpoint + 1)..lastMetric
       IN  \/ /\ Accepted(ms, o) /\ UNCHANGED backingOff
              /\ IF flushing = "first half" THEN flushing' = "second half" /\ UNCHANGED <<left, delivered>>
                 ELSE EndsWrite
           \/ Refused(ms, o) /\ UNCHANGED delivered
    /\ UNCHANGED <<organizations, withBucket, creatorVars, buffered, lastMetric, server, untried>>

OutputsNext ==
    \/ \E o \in Organizations : IsTold(o) \/ WritesOrganization(o) \/ WritesHalf(o)
    \/ CreatorWrites \/ CreatesOrg \/ FindsConflict \/ CreatesBucket
    \/ MetricArrives \/ WriteBegins \/ GivesUp
    \/ \E s \in Servers : TriesServer(s) \/ RetryTimeComes(s)

OutputsSpec == OutputsInit /\ [][OutputsNext]_outputVars

-----------------------------------------------------------------------------
OutputsTypeOK ==
    /\ told \in Seq(Organizations) /\ {prepared, creating, lastTold} \subseteq 0..Len(told)
    /\ orgId \in BOOLEAN
    /\ {organizations, withBucket, left} \subseteq SUBSET Organizations
    /\ written \subseteq (DOMAIN OrgOf) \X Organizations /\ unkept \subseteq DOMAIN OrgOf
    /\ buffered \in 0..Len(OrgOf) /\ delivered \in 0..buffered /\ lastMetric \in 0..buffered
    /\ flushing \in {"idle", "choosing", "writing", "first half", "second half"}
    /\ server \in Servers /\ {untried, backingOff} \subseteq SUBSET Servers
    /\ outputFaults \in 0..MaxOutputFaults

\* A tenant whose creation was accepted has its bucket, so that its metrics are not refused for want of
\* it; a metric that was accepted is in its organization and in no other, through retries of whole
\* batches, clients that wait, lost answers and payloads cut in halves; except for metrics refused, and
\* those of other organizations when the Write they share is answered with 413 or 500 (HttpClient.Write).
MetricsReachTheirOrganization ==
    /\ \A i \in 1..prepared : told[i] \in withBucket
    /\ \A m \in 1..delivered : <<m, OrgOf[m]>> \in written \/ m \in unkept
    /\ \A w \in written : w[2] = OrgOf[w[1]] \/ w[1] \in unkept
=============================================================================
