--------------------------- MODULE ConsumerProofs ----------------------------
(***************************************************************************)
(* What the consumers of Kafka and of Bull keep, for every number of       *)
(* files, connections, retries, partitions, slots, reports, workers,       *)
(* metrics, points, servers, uploads, buckets and faults: connections are  *)
(* exclusive, slots are returned, metrics reach their organization,        *)
(* reports have their file, points are kept until they are written, and    *)
(* file-mgmt implements FileStore, with a bucket for each tenant.          *)
(***************************************************************************)
EXTENDS FtpUpload, TelegrafConsumer, TelegrafOutputs, Reports, Storer, FileMgmt, FiniteSetTheorems, TLAPS

-----------------------------------------------------------------------------
(* kafka2ftp: the connections of the pool *)

Transfer == [step : {"topic", "ask", "send", "retry", "settled"}, conn : Pool \cup {Unset},
             tries : 0..Retries, drained : BOOLEAN]

Uploading(f) == transfer[f].step \in {"send", "retry"}

\* An upload has a connection of its own from the moment it takes it until it settles.
FtpInv ==
    /\ transfer \in [FtpFiles -> Transfer]
    /\ \A f \in FtpFiles : transfer[f].conn \in Pool <=> Uploading(f)
    /\ ConnectionsAreExclusive

LEMMA UploadsAtRest ==
    /\ Unsent \in Transfer /\ Unsent.step = "topic" /\ Unsent.conn = Unset
    /\ [Unsent EXCEPT !.step = "settled"] \in Transfer
    /\ [Unsent EXCEPT !.step = "settled"].step = "settled"
    /\ [Unsent EXCEPT !.step = "settled"].conn = Unset
<1>1. Unsent \in Transfer /\ Unsent.step = "topic" /\ Unsent.conn = Unset
    BY FtpAssumption DEF Unsent, Transfer
<1>2. \A u \in Transfer : LET v == [u EXCEPT !.step = "settled"]
                         IN  v \in Transfer /\ v.step = "settled" /\ v.conn = u.conn
    BY DEF Transfer
<1> QED
    BY <1>1, <1>2

LEMMA FtpInvInit == FtpInit => FtpInv
BY FtpAssumption DEF FtpInit, FtpInv, ConnectionsAreExclusive, Uploading, Transfer, Unsent, Pool, Unset

\* An upload that settles gives its connection back, and no other had it.
LEMMA SettlesInv ==
    ASSUME FtpInv, NEW f \in FtpFiles, Uploading(f), Settles(f)
    PROVE  FtpInv'
<1> USE DEF FtpInv, Uploading
<1> DEFINE t == [Unsent EXCEPT !.step = "settled"]
<1>1. Unset \notin Pool
    BY FtpAssumption DEF Unset, Pool
<1>2. t \in Transfer /\ t.step = "settled" /\ t.conn = Unset
    BY UploadsAtRest
<1>3. transfer' = [transfer EXCEPT ![f] = t] /\ isSending' = isSending \ {transfer[f].conn}
    BY DEF Settles
<1> HIDE DEF t
<1>4. transfer' \in [FtpFiles -> Transfer]
    BY <1>2, <1>3
<1>5. \A g \in FtpFiles : /\ transfer'[g].conn = IF g = f THEN Unset ELSE transfer[g].conn
                          /\ Uploading(g)' <=> g # f /\ Uploading(g)
    BY <1>2, <1>3
<1>6. ConnectionsAreExclusive'
    BY <1>1, <1>3, <1>5 DEF ConnectionsAreExclusive
<1> QED
    BY <1>1, <1>4, <1>5, <1>6 DEF Pool, Unset

\* An upload that keeps its connection, at another step of it.
LEMMA KeepsConnection ==
    ASSUME FtpInv, isSending' = isSending, transfer' \in [FtpFiles -> Transfer],
           \A g \in FtpFiles : transfer'[g].conn = transfer[g].conn /\ (Uploading(g)' <=> Uploading(g))
    PROVE  FtpInv'
<1>1. ConnectionsAreExclusive'
    BY DEF FtpInv, Uploading, ConnectionsAreExclusive
<1> QED
    BY <1>1 DEF FtpInv, Uploading, Pool, Unset

\* An upload that holds no connection, and stays so.
LEMMA WaitsForConnection ==
    ASSUME FtpInv, NEW f \in FtpFiles, transfer[f].step = "topic", isSending' = isSending,
           transfer' = [transfer EXCEPT ![f].step = "ask"]
    PROVE  FtpInv'
BY DEF FtpInv, Uploading, ConnectionsAreExclusive, Transfer, Pool, Unset

\* Takes: the connection is one nobody uses.
LEMMA TakesInv ==
    ASSUME FtpInv, NEW f \in FtpFiles, Takes(f)
    PROVE  FtpInv'
<1> USE DEF FtpInv, Uploading
<1>1. CASE NextIndex \notin Pool \ isSending
    BY <1>1 DEF Takes, ConnectionsAreExclusive, Pool, Unset
<1>2. CASE NextIndex \in Pool \ isSending
    <2>1. PICK c \in Pool \ isSending :
              /\ isSending' = isSending \cup {c}
              /\ transfer' = [transfer EXCEPT ![f].step = "send", ![f].conn = c]
        BY <1>2 DEF Takes
    <2>2. transfer[f].step = "ask" /\ Unset \notin Pool
        BY FtpAssumption DEF Takes, Unset, Pool
    <2>3. \A g \in FtpFiles : transfer[g].conn # c
        BY <2>1, <2>2 DEF ConnectionsAreExclusive
    <2>4. transfer' \in [FtpFiles -> Transfer]
        BY <2>1 DEF Transfer
    <2>5. \A g \in FtpFiles : /\ transfer'[g].conn = IF g = f THEN c ELSE transfer[g].conn
                              /\ Uploading(g)' <=> g = f \/ Uploading(g)
        BY <2>1
    <2>6. ConnectionsAreExclusive'
        BY <2>1, <2>2, <2>3, <2>5 DEF ConnectionsAreExclusive
    <2> QED
        BY <2>2, <2>4, <2>5, <2>6 DEF Pool, Unset
<1> QED
    BY <1>1, <1>2

LEMMA FtpInvNext == FtpInv /\ [FtpNext]_ftpVars => FtpInv'
<1> SUFFICES ASSUME FtpInv, [FtpNext]_ftpVars
             PROVE  FtpInv'
    OBVIOUS
<1>1. ASSUME NEW c \in Pool, Connects(c) \/ Drops(c)
      PROVE  FtpInv'
    BY <1>1 DEF Connects, Drops, FtpInv, Uploading, ConnectionsAreExclusive, Pool, Unset
<1>2. ASSUME NEW f \in FtpFiles, HandlesFile(f)
      PROVE  FtpInv'
    BY <1>2, WaitsForConnection DEF HandlesFile
<1>3. ASSUME NEW f \in FtpFiles, SendsFile(f)
      PROVE  FtpInv'
    <2>1. Uploading(f)
        BY <1>3 DEF SendsFile, Uploading
    <2>2. CASE Settles(f)
        BY <2>1, <2>2, SettlesInv
    <2>3. CASE ~ Settles(f)
        <3>1. PICK read \in BOOLEAN :
                  transfer' = [transfer EXCEPT ![f].step = "retry", ![f].tries = 0, ![f].drained = @ \/ read]
            BY <1>3, <2>3 DEF SendsFile
        <3>2. transfer' \in [FtpFiles -> Transfer]
            <4>1. \A u \in Transfer, b \in BOOLEAN :
                      [u EXCEPT !.step = "retry", !.tries = 0, !.drained = b] \in Transfer
                <5>1. \A u \in Transfer : [u EXCEPT !.step = "retry"] \in Transfer
                    BY DEF Transfer
                <5>2. \A u \in Transfer : [u EXCEPT !.tries = 0] \in Transfer
                    <6>1. 0 \in 0..Retries
                        BY FtpAssumption
                    <6> QED
                        BY <6>1 DEF Transfer
                <5>3. \A u \in Transfer, b \in BOOLEAN : [u EXCEPT !.drained = b] \in Transfer
                    BY DEF Transfer
                <5> QED
                    BY <5>1, <5>2, <5>3
            <4> DEFINE b == transfer[f].drained \/ read
            <4>2. b \in BOOLEAN
                <5>1. \A x, y \in BOOLEAN : (x \/ y) \in BOOLEAN
                    OBVIOUS
                <5>2. transfer[f].drained \in BOOLEAN
                    BY DEF FtpInv, Transfer
                <5> QED
                    BY <5>1, <5>2
            <4>3. transfer' = [transfer EXCEPT ![f] = [transfer[f] EXCEPT !.step = "retry", !.tries = 0, !.drained = b]]
                BY <3>1, Zenon
            <4> HIDE DEF b
            <4> QED
                BY <4>1, <4>2, <4>3 DEF FtpInv
        <3>3. \A g \in FtpFiles : transfer'[g].conn = transfer[g].conn /\ (Uploading(g)' <=> Uploading(g))
            BY <2>1, <3>1 DEF FtpInv, Uploading
        <3>4. isSending' = isSending
            BY <1>3, <2>3 DEF SendsFile
        <3> QED
            BY <3>2, <3>3, <3>4, KeepsConnection
    <2> QED
        BY <2>2, <2>3
<1>4. ASSUME NEW f \in FtpFiles, Reconnects(f)
      PROVE  FtpInv'
    <2>1. Uploading(f)
        BY <1>4 DEF Reconnects, Uploading
    <2>2. CASE Settles(f)
        BY <2>1, <2>2, SettlesInv
    <2>3. CASE ~ Settles(f)
        <3>1. /\ isSending' = isSending
              /\ \/ transfer' = [transfer EXCEPT ![f].step = "send"]
                 \/ transfer' = [transfer EXCEPT ![f].tries = @ + 1] /\ transfer[f].tries < Retries
            BY <1>4, <2>3 DEF Reconnects
        <3>2. transfer[f].step = "retry"
            BY <1>4 DEF Reconnects
        <3>3. transfer' \in [FtpFiles -> Transfer]
            BY <3>1, FtpAssumption DEF FtpInv, Transfer
        <3>4. \A g \in FtpFiles : transfer'[g].conn = transfer[g].conn /\ (Uploading(g)' <=> Uploading(g))
            <4>1. CASE transfer' = [transfer EXCEPT ![f].step = "send"]
                BY <3>2, <4>1 DEF FtpInv, Uploading
            <4>2. CASE transfer' = [transfer EXCEPT ![f].tries = @ + 1]
                BY <3>2, <4>2 DEF FtpInv, Uploading
            <4> QED
                BY <3>1, <4>1, <4>2
        <3> QED
            BY <3>1, <3>3, <3>4, KeepsConnection
    <2> QED
        BY <2>2, <2>3
<1>5. CASE Dies
    <2>1. Unset \notin Pool
        BY FtpAssumption DEF Unset, Pool
    <2> DEFINE t == [Unsent EXCEPT !.step = "settled"]
    <2>2. /\ t \in Transfer /\ t.step = "settled" /\ t.conn = Unset
          /\ Unsent \in Transfer /\ Unsent.step = "topic" /\ Unsent.conn = Unset
        BY UploadsAtRest
    <2> HIDE DEF t
    <2>3. transfer' = [f \in FtpFiles |-> IF transfer[f].step = "topic" THEN Unsent ELSE t]
        BY <1>5 DEF Dies, t
    <2>4. transfer' \in [FtpFiles -> Transfer] /\ \A f \in FtpFiles : transfer'[f].conn = Unset /\ ~ Uploading(f)'
        BY <2>2, <2>3 DEF Uploading
    <2>5. ConnectionsAreExclusive'
        BY <1>5, <2>4 DEF Dies, ConnectionsAreExclusive, Uploading
    <2> QED
        BY <2>1, <2>4, <2>5 DEF FtpInv, Pool, Unset
<1>6. CASE UNCHANGED ftpVars
    BY <1>6 DEF ftpVars, FtpInv, Uploading, ConnectionsAreExclusive, Pool, Unset
<1> QED
    BY <1>1, <1>2, <1>3, <1>4, <1>5, <1>6, TakesInv DEF FtpNext

\* A connection sends one file at a time, and is held exactly as long as some upload uses it,
\* through retries within retries and restarts.
THEOREM ConnectionsStayExclusive == FtpSpec => []ConnectionsAreExclusive
<1>1. FtpInv => ConnectionsAreExclusive
    BY DEF FtpInv
<1> QED
    BY <1>1, FtpInvInit, FtpInvNext, PTL DEF FtpSpec

-----------------------------------------------------------------------------
(* telegraf: the slots of the semaphore *)

Receiving == {p \in Partitions : claim[p] = "receive"}

\* Messages in the outputs are messages that were fetched, so that the next one is another; a slot
\* is in use for each of them and for each claim that receives, also while the session ends.
SlotsInv ==
    /\ claim \in [Partitions -> {"reserve", "receive", "ended"}]
    /\ {fetched, marked} \subseteq [Partitions -> Nat]
    /\ undelivered \subseteq Partitions \X Nat /\ IsFiniteSet(undelivered)
    /\ \A m \in undelivered : m[2] <= fetched[m[1]]
    /\ slots \in 0..MaxUndelivered
    /\ Cardinality(undelivered) + Cardinality(Receiving) <= slots
    /\ SlotsAreReturned

\* Partitions are finite in number, and so are the claims that receive.
LEMMA ReceivingFinite == IsFiniteSet(Receiving)
BY FS_Subset, TelegrafAssumption DEF Receiving

LEMMA CardinalitiesAreNat ==
    ASSUME SlotsInv
    PROVE  Cardinality(undelivered) \in Nat /\ Cardinality(Receiving) \in Nat
BY ReceivingFinite, FS_CardinalityType DEF SlotsInv

LEMMA SlotsInvInit == TelegrafInit => SlotsInv
<1> SUFFICES ASSUME TelegrafInit PROVE SlotsInv
    OBVIOUS
<1>1. Receiving = {} /\ undelivered = {}
    BY DEF TelegrafInit, Ended, Receiving
<1>2. Cardinality(undelivered) = 0 /\ Cardinality(Receiving) = 0 /\ IsFiniteSet(undelivered)
    BY <1>1, FS_EmptySet
<1> QED
    BY <1>1, <1>2, TelegrafAssumption DEF TelegrafInit, Ended, SlotsInv, SlotsAreReturned, Receiving

\* A session begins with a new handler, and nothing in the outputs.
LEMMA OpensSessionSlots ==
    ASSUME SlotsInv, OpensSession
    PROVE  SlotsInv'
<1>1. Receiving' = {} /\ undelivered' = {}
    BY DEF OpensSession, Ready, Receiving
<1>2. Cardinality(undelivered)' = 0 /\ Cardinality(Receiving)' = 0 /\ IsFiniteSet(undelivered)'
    BY <1>1, FS_EmptySet
<1> QED
    BY <1>1, <1>2, TelegrafAssumption DEF OpensSession, Ready, SlotsInv, SlotsAreReturned, Receiving

LEMMA ClosesSessionSlots ==
    ASSUME SlotsInv, ClosesSession
    PROVE  SlotsInv'
<1>1. Receiving' = {} /\ Receiving = {} /\ undelivered' = {}
    BY DEF ClosesSession, Ended, Receiving
<1>2. Cardinality(undelivered)' = 0 /\ Cardinality(Receiving)' = 0 /\ IsFiniteSet(undelivered)'
    BY <1>1, FS_EmptySet
<1>3. SlotsAreReturned'
    <2>1. CASE Partitions = {}
        <3>1. undelivered = {}
            BY <2>1 DEF SlotsInv
        <3> QED
            BY <2>1, <3>1, <1>1 DEF ClosesSession, SlotsInv, SlotsAreReturned, Receiving
    <2>2. CASE Partitions # {}
        BY <2>2 DEF ClosesSession, Ended, SlotsAreReturned
    <2> QED
        BY <2>1, <2>2
<1>4. claim' = claim /\ slots' = slots /\ UNCHANGED <<fetched, marked>>
    BY DEF ClosesSession, marks
<1>5. slots' \in Nat /\ Cardinality(undelivered') + Cardinality(Receiving') <= slots'
    BY <1>2, <1>4, TelegrafAssumption DEF SlotsInv
<1> QED
    BY <1>1, <1>2, <1>3, <1>4, <1>5 DEF SlotsInv

LEMMA ClaimReturnsSlots ==
    ASSUME SlotsInv, NEW p \in Partitions, ClaimReturns(p)
    PROVE  SlotsInv'
<1>1. claim' = [claim EXCEPT ![p] = "ended"] /\ UNCHANGED <<fetched, marked, undelivered, slots>>
    BY DEF ClaimReturns, marks
<1>2. Receiving' \subseteq Receiving
    BY <1>1 DEF Receiving, SlotsInv
<1>3. Cardinality(Receiving') <= Cardinality(Receiving) /\ Cardinality(Receiving') \in Nat
    BY <1>2, ReceivingFinite, FS_Subset, FS_CardinalityType
<1>4. ~ \A q \in Partitions : claim'[q] # "ended"
    BY <1>1 DEF SlotsInv
<1>5. SlotsAreReturned'
    BY <1>4 DEF SlotsAreReturned
<1>6. Cardinality(undelivered') + Cardinality(Receiving') <= slots'
    BY <1>1, <1>3, CardinalitiesAreNat, TelegrafAssumption DEF SlotsInv
<1> QED
    BY <1>1, <1>5, <1>6 DEF SlotsInv

LEMMA ReservesSlots ==
    ASSUME SlotsInv, NEW p \in Partitions, Reserves(p)
    PROVE  SlotsInv'
<1>1. /\ claim[p] = "reserve" /\ slots < MaxUndelivered /\ slots' = slots + 1
      /\ claim' = [claim EXCEPT ![p] = "receive"] /\ UNCHANGED <<fetched, marked, undelivered>>
    BY DEF Reserves, marks
<1>2. Receiving' = Receiving \cup {p} /\ p \notin Receiving
    BY <1>1 DEF Receiving, SlotsInv
<1>3. Cardinality(Receiving') = Cardinality(Receiving) + 1
    BY <1>2, ReceivingFinite, FS_AddElement
<1>4. (\A q \in Partitions : claim'[q] # "ended") => \A q \in Partitions : claim[q] # "ended"
    BY <1>1 DEF SlotsInv
<1>5. Cardinality(undelivered') + Cardinality(Receiving') <= slots' /\ slots' \in 0..MaxUndelivered
    BY <1>1, <1>3, CardinalitiesAreNat, TelegrafAssumption DEF SlotsInv
<1>6. SlotsAreReturned'
    BY <1>1, <1>3, <1>4, CardinalitiesAreNat DEF SlotsInv, SlotsAreReturned, Receiving
<1> QED
    BY <1>1, <1>5, <1>6 DEF SlotsInv

LEMMA HandlesMessageSlots ==
    ASSUME SlotsInv, NEW p \in Partitions, HandlesMessage(p)
    PROVE  SlotsInv'
<1>1. /\ claim[p] = "receive"
      /\ fetched' = [fetched EXCEPT ![p] = @ + 1] /\ claim' = [claim EXCEPT ![p] = "reserve"]
      /\ \/ undelivered' = undelivered \cup {<<p, fetched[p] + 1>>} /\ UNCHANGED <<slots, marked>>
         \/ /\ slots' = slots - 1 /\ UNCHANGED undelivered
            /\ marked' \in {marked, [marked EXCEPT ![p] = fetched[p] + 1]}
    BY DEF HandlesMessage
<1>2. Receiving' = Receiving \ {p} /\ p \in Receiving
    BY <1>1 DEF Receiving, SlotsInv
<1>3. Cardinality(Receiving') = Cardinality(Receiving) - 1
    BY <1>2, ReceivingFinite, FS_RemoveElement
<1>4. (\A q \in Partitions : claim'[q] # "ended") => \A q \in Partitions : claim[q] # "ended"
    BY <1>1 DEF SlotsInv
<1>5. /\ {fetched, marked}' \subseteq [Partitions -> Nat]
      /\ claim' \in [Partitions -> {"reserve", "receive", "ended"}]
    BY <1>1 DEF SlotsInv
<1>6. CASE undelivered' = undelivered \cup {<<p, fetched[p] + 1>>} /\ UNCHANGED <<slots, marked>>
    <2>1. <<p, fetched[p] + 1>> \notin undelivered
        BY DEF SlotsInv
    <2>2. Cardinality(undelivered') = Cardinality(undelivered) + 1 /\ IsFiniteSet(undelivered')
        BY <1>6, <2>1, FS_AddElement DEF SlotsInv
    <2>3. Cardinality(undelivered') + Cardinality(Receiving') <= slots'
        BY <1>3, <1>6, <2>2, CardinalitiesAreNat, TelegrafAssumption DEF SlotsInv
    <2>4. SlotsAreReturned'
        BY <1>3, <1>4, <1>6, <2>2, CardinalitiesAreNat DEF SlotsInv, SlotsAreReturned, Receiving
    <2>5. undelivered' \subseteq Partitions \X Nat /\ \A m \in undelivered' : m[2] <= fetched'[m[1]]
        BY <1>1, <1>6 DEF SlotsInv
    <2> QED
        BY <1>5, <1>6, <2>2, <2>3, <2>4, <2>5 DEF SlotsInv
<1>7. CASE slots' = slots - 1 /\ UNCHANGED undelivered
    <2>1. Cardinality(undelivered') + Cardinality(Receiving') <= slots' /\ slots' \in 0..MaxUndelivered
        <3>1. Cardinality(Receiving') \in Nat
            BY <1>2, ReceivingFinite, FS_Subset, FS_CardinalityType
        <3> QED
            BY <1>3, <1>7, <3>1, CardinalitiesAreNat, TelegrafAssumption DEF SlotsInv
    <2>2. SlotsAreReturned'
        BY <1>3, <1>4, <1>7, CardinalitiesAreNat DEF SlotsInv, SlotsAreReturned, Receiving
    <2>3. \A m \in undelivered' : m[2] <= fetched'[m[1]]
        BY <1>1, <1>7 DEF SlotsInv
    <2> QED
        BY <1>5, <1>7, <2>1, <2>2, <2>3 DEF SlotsInv
<1> QED
    BY <1>1, <1>6, <1>7

LEMMA DeliversSlots ==
    ASSUME SlotsInv, NEW m \in undelivered, Delivers(m)
    PROVE  SlotsInv'
<1>1. /\ undelivered' = undelivered \ {m} /\ slots' = slots - 1 /\ UNCHANGED <<claim, fetched>>
      /\ \/ marked' = [marked EXCEPT ![m[1]] = IF m[2] > @ THEN m[2] ELSE @]
         \/ UNCHANGED marked
    BY DEF Delivers
<1>2. Cardinality(undelivered') = Cardinality(undelivered) - 1 /\ IsFiniteSet(undelivered')
    BY <1>1, FS_RemoveElement DEF SlotsInv
<1>3. Receiving' = Receiving
    BY <1>1 DEF Receiving
<1>4. Cardinality(undelivered') + Cardinality(Receiving') <= slots' /\ slots' \in 0..MaxUndelivered
    <2>1. Cardinality(undelivered') \in Nat
        BY <1>2, FS_CardinalityType
    <2> QED
        BY <1>1, <1>2, <1>3, <2>1, CardinalitiesAreNat, TelegrafAssumption DEF SlotsInv
<1>5. SlotsAreReturned'
    BY <1>1, <1>2, <1>3, CardinalitiesAreNat DEF SlotsInv, SlotsAreReturned, Receiving
<1>6. marked' \in [Partitions -> Nat]
    BY <1>1 DEF SlotsInv
<1> QED
    BY <1>1, <1>2, <1>4, <1>5, <1>6 DEF SlotsInv

LEMMA SlotsInvNext == SlotsInv /\ [TelegrafNext]_telegrafVars => SlotsInv'
<1> SUFFICES ASSUME SlotsInv, [TelegrafNext]_telegrafVars
             PROVE  SlotsInv'
    OBVIOUS
<1>1. CASE ClosesConsumer \/ Stops \/ Refreshes \/ UNCHANGED telegrafVars
    <2>1. UNCHANGED <<claim, fetched, marked, slots, undelivered>>
        BY <1>1 DEF ClosesConsumer, Stops, Refreshes, telegrafVars, marks
    <2> QED
        BY <2>1 DEF SlotsInv, SlotsAreReturned, Receiving
<1> QED
    BY <1>1, OpensSessionSlots, ClosesSessionSlots, ClaimReturnsSlots, ReservesSlots,
       HandlesMessageSlots, DeliversSlots DEF TelegrafNext

\* A slot is in use for a message that is not answered or for the one a claim waits for, and for
\* nothing else, for every number of partitions, slots and sessions.
THEOREM SlotsStayReturned == TelegrafSpec => []SlotsAreReturned
<1>1. SlotsInv => SlotsAreReturned
    BY DEF SlotsInv
<1> QED
    BY <1>1, SlotsInvInit, SlotsInvNext, PTL DEF TelegrafSpec

-----------------------------------------------------------------------------
(* report-manager: reports and their files *)

Job == [report : Reports \cup {NoReport}, step : {"idle", "data", "upload", "finish", "record", "catch"}]

\* Files that are there, or went with the bucket of the tenant.
Kept == storedFiles \cup wiped

\* A worker past the upload has its file kept, and past the finish its attempt finished, as long as
\* the report is there; a deletion removes the file of a report whose job exists, and which therefore
\* never comes back.
ReportsInv ==
    /\ worker \in [Workers -> Job]
    /\ job \in [Reports -> {"none", "waiting", "active", "completed", "failed"}]
    /\ attempted \in [Reports -> SUBSET {"finished", "failed"}]
    /\ recorded \subseteq rows /\ rows \subseteq Reports
    /\ \A r \in recorded : job[r] # "none"
    /\ \A r \in erasing : r \in Reports /\ r \notin rows /\ job[r] # "none"
    /\ \A w \in Workers : ~ At(w, "idle") => Report(w) \in Reports /\ job[Report(w)] # "none"
    /\ \A w \in Workers : worker[w].step \in {"finish", "record"} /\ Report(w) \in rows => Report(w) \in Kept
    /\ \A w \in Workers : At(w, "record") /\ Report(w) \in rows => "finished" \in attempted[Report(w)]
    /\ ReportsHaveTheirFile

LEMMA ReportsInvInit == ReportsInit => ReportsInv
BY ReportsAssumption DEF ReportsInit, ReportsInv, ReportsHaveTheirFile, Kept, IdleWorker, Job, At, Report

\* What the tenant's events and the start of the service do: rows may only go.
LEMMA TenancyKeepsReports ==
    ASSUME ReportsInv, UNCHANGED <<attempted, Kept, queueVars, erasing>>,
           \/ UNCHANGED <<rows, recorded>>
           \/ rows' = {} /\ recorded' = {}
    PROVE  ReportsInv'
BY DEF ReportsInv, ReportsHaveTheirFile, Kept, queueVars, At, Report

LEMMA CreatesReportInv ==
    ASSUME ReportsInv, NEW r \in Reports, CreatesReport(r)
    PROVE  ReportsInv'
<1>1. /\ job[r] = "none" /\ r \notin rows /\ rows' = rows \cup {r}
      /\ UNCHANGED <<recorded, attempted, Kept, worker, erasing>>
      /\ job' \in {job, [job EXCEPT ![r] = "waiting"]}
    BY DEF CreatesReport, Kept, bucketVars
<1>2. \A w \in Workers : ~ At(w, "idle") => Report(w) # r
    BY <1>1 DEF ReportsInv
<1>3. \A s \in Reports : s # r => job'[s] = job[s]
    BY <1>1 DEF ReportsInv
<1>4. job'[r] \in {"none", "waiting"} /\ job' \in [Reports -> {"none", "waiting", "active", "completed", "failed"}]
    BY <1>1 DEF ReportsInv
<1>5. ReportsHaveTheirFile'
    BY <1>1, <1>3, <1>4 DEF ReportsInv, ReportsHaveTheirFile, Kept
<1>6. \A w \in Workers : ~ At(w, "idle") => Report(w) \in Reports /\ job'[Report(w)] # "none"
    BY <1>2, <1>3 DEF ReportsInv
<1>7. (\A s \in recorded : job[s] # "none")' /\ (\A s \in erasing : s \in Reports /\ s \notin rows /\ job[s] # "none")'
    BY <1>1, <1>3 DEF ReportsInv
<1>8. \A w \in Workers : /\ worker[w].step \in {"finish", "record"} /\ Report(w) \in rows' => Report(w) \in Kept
                         /\ At(w, "record") /\ Report(w) \in rows' => "finished" \in attempted[Report(w)]
    BY <1>1, <1>2 DEF ReportsInv, At
<1> QED
    BY <1>1, <1>4, <1>5, <1>6, <1>7, <1>8 DEF ReportsInv, At, Report

\* A deletion takes the row and the record at once, and the file later: its report is gone by then.
LEMMA DeletionInv ==
    ASSUME ReportsInv, NEW r \in Reports, DeletesReport(r) \/ Erases(r)
    PROVE  ReportsInv'
<1>1. CASE DeletesReport(r)
    BY <1>1 DEF DeletesReport, bucketVars, queueVars, ReportsInv, ReportsHaveTheirFile, Kept, At, Report
<1>2. CASE Erases(r)
    <2>1. /\ r \in erasing /\ erasing' = erasing \ {r} /\ Kept \ {r} \subseteq Kept'
          /\ UNCHANGED <<rows, recorded, attempted, job, worker>>
        BY <1>2 DEF Erases, reportTables, queueVars, Kept, bucketVars
    <2>2. r \notin rows
        BY <2>1 DEF ReportsInv
    <2>3. ReportsHaveTheirFile'
        BY <2>1, <2>2 DEF ReportsInv, ReportsHaveTheirFile, Kept
    <2> QED
        BY <2>1, <2>2, <2>3 DEF ReportsInv, At, Report
<1> QED
    BY <1>1, <1>2

LEMMA BeginsInv ==
    ASSUME ReportsInv, NEW w \in Workers, NEW r \in Reports, Begins(w, r)
    PROVE  ReportsInv'
<1>1. /\ job[r] = "waiting" /\ UNCHANGED <<rows, recorded, attempted, Kept, erasing>>
      /\ job' \in {[job EXCEPT ![r] = "active"], [job EXCEPT ![r] = "failed"]}
      /\ worker' \in {worker, [worker EXCEPT ![w] = [report |-> r, step |-> "data"]]}
    BY DEF Begins, reportTables, Kept, bucketVars
<1>2. /\ job' \in [Reports -> {"none", "waiting", "active", "completed", "failed"}]
      /\ \A s \in Reports : (job'[s] = "none" <=> job[s] = "none") /\ (job'[s] = "completed" => job[s] = "completed")
    BY <1>1 DEF ReportsInv
<1>3. worker' \in [Workers -> Job]
    BY <1>1 DEF ReportsInv, Job
<1>4. \A v \in Workers : \/ worker'[v] = worker[v]
                         \/ worker'[v].report = r /\ worker'[v].step = "data"
    BY <1>1 DEF ReportsInv
<1>5. ReportsHaveTheirFile'
    BY <1>1, <1>2 DEF ReportsInv, ReportsHaveTheirFile, Kept
<1>6. \A v \in Workers : ~ At(v, "idle")' => (Report(v) \in Reports /\ job[Report(v)] # "none")'
    BY <1>1, <1>2, <1>4 DEF ReportsInv, At, Report
<1>7. \A v \in Workers : (worker[v].step \in {"finish", "record"})' => worker'[v] = worker[v]
    BY <1>4
<1>8. \A v \in Workers :
          /\ (worker[v].step \in {"finish", "record"} /\ Report(v) \in rows => Report(v) \in Kept)'
          /\ (At(v, "record") /\ Report(v) \in rows => "finished" \in attempted[Report(v)])'
    BY <1>1, <1>7 DEF ReportsInv, At, Report
<1> QED
    BY <1>1, <1>2, <1>3, <1>5, <1>6, <1>8 DEF ReportsInv

\* A worker that goes on to its next step, with the file and the attempt that step needs.
LEMMA StepsToInv ==
    ASSUME ReportsInv, NEW w \in Workers, ~ At(w, "idle"),
           NEW step \in {"data", "upload", "finish", "record", "catch"}, StepsTo(w, step),
           UNCHANGED <<rows, recorded, job, erasing>>, Kept \subseteq Kept',
           attempted' \in [Reports -> SUBSET {"finished", "failed"}],
           \A r \in Reports : attempted[r] \subseteq attempted'[r],
           step \in {"finish", "record"} /\ Report(w) \in rows => Report(w) \in Kept',
           step = "record" /\ Report(w) \in rows => "finished" \in attempted'[Report(w)]
    PROVE  ReportsInv'
<1>1. worker' \in [Workers -> Job]
    BY DEF ReportsInv, StepsTo, Job
<1>2. \A v \in Workers : /\ worker'[v].report = worker[v].report
                         /\ worker'[v].step = IF v = w THEN step ELSE worker[v].step
    BY DEF ReportsInv, StepsTo, Job
<1>3. ReportsHaveTheirFile'
    BY DEF ReportsInv, ReportsHaveTheirFile, Kept
<1>4. \A v \in Workers : ~ At(v, "idle")' => (Report(v) \in Reports /\ job[Report(v)] # "none")'
    BY <1>2 DEF ReportsInv, At, Report
<1>5. \A v \in Workers : (worker[v].step \in {"finish", "record"} /\ Report(v) \in rows => Report(v) \in Kept)'
    BY <1>2 DEF ReportsInv, Report
<1>6. \A v \in Workers : (At(v, "record") /\ Report(v) \in rows => "finished" \in attempted[Report(v)])'
    BY <1>2 DEF ReportsInv, At, Report
<1> QED
    BY <1>1, <1>3, <1>4, <1>5, <1>6 DEF ReportsInv

\* A worker that is done with its job, or dead.
LEMMA LeavesInv ==
    ASSUME ReportsInv, NEW w \in Workers, worker' \in {worker, [worker EXCEPT ![w] = IdleWorker]},
           UNCHANGED <<rows, Kept, erasing>>, recorded \subseteq recorded', recorded' \subseteq rows,
           attempted' \in [Reports -> SUBSET {"finished", "failed"}],
           \A r \in Reports : attempted[r] \subseteq attempted'[r],
           job' \in [Reports -> {"none", "waiting", "active", "completed", "failed"}],
           \A r \in Reports : job'[r] = "none" <=> job[r] = "none",
           \A r \in recorded' : job[r] # "none",
           ReportsHaveTheirFile'
    PROVE  ReportsInv'
<1>1. worker' \in [Workers -> Job]
    BY DEF ReportsInv, IdleWorker, Job
<1>2. \A v \in Workers : worker'[v] = worker[v] \/ worker'[v].step = "idle"
    BY DEF ReportsInv, IdleWorker
<1>3. \A v \in Workers : ~ At(v, "idle")' => (Report(v) \in Reports /\ job[Report(v)] # "none")'
    BY <1>2 DEF ReportsInv, At, Report
<1>4. \A v \in Workers : (worker[v].step \in {"finish", "record"} /\ Report(v) \in rows => Report(v) \in Kept)'
    BY <1>2 DEF ReportsInv, Report
<1>5. \A v \in Workers : (At(v, "record") /\ Report(v) \in rows => "finished" \in attempted[Report(v)])'
    BY <1>2 DEF ReportsInv, At, Report
<1> QED
    BY <1>1, <1>3, <1>4, <1>5 DEF ReportsInv

LEMMA WorkerInv ==
    ASSUME ReportsInv, NEW w \in Workers, MakesFile(w) \/ UploadsFile(w) \/ Finishes(w)
    PROVE  ReportsInv'
<1>1. CASE MakesFile(w)
    <2>1. /\ ~ At(w, "idle") /\ UNCHANGED <<rows, recorded, job, erasing, Kept, attempted>>
          /\ StepsTo(w, "upload") \/ StepsTo(w, "catch")
        BY <1>1 DEF MakesFile, At, reportTables, Kept, bucketVars
    <2> QED
        BY <2>1, StepsToInv DEF ReportsInv
<1>2. CASE UploadsFile(w)
    <2>1. /\ ~ At(w, "idle") /\ UNCHANGED <<rows, recorded, job, erasing, attempted>>
          /\ Kept \subseteq Kept'
          /\ \/ StepsTo(w, "finish") /\ Report(w) \in Kept'
             \/ StepsTo(w, "catch")
        BY <1>2 DEF UploadsFile, At, reportTables, Kept, bucketVars
    <2> QED
        BY <2>1, StepsToInv DEF ReportsInv
<1>3. CASE Finishes(w)
    <2>1. /\ At(w, "finish") /\ ~ At(w, "idle") /\ UNCHANGED <<rows, recorded, job, erasing, Kept>>
        BY <1>3 DEF Finishes, At, Kept, bucketVars
    <2>2. Report(w) \in rows => Report(w) \in Kept
        BY <2>1 DEF ReportsInv, At
    <2>3. CASE Report(w) \in rows
        <3>1. attempted' = [attempted EXCEPT ![Report(w)] = @ \cup {"finished"}] /\ StepsTo(w, "record")
            BY <1>3, <2>3 DEF Finishes
        <3>2. Report(w) \in Reports
            BY <2>3 DEF ReportsInv
        <3>3. /\ attempted' \in [Reports -> SUBSET {"finished", "failed"}] /\ "finished" \in attempted'[Report(w)]
              /\ \A r \in Reports : attempted[r] \subseteq attempted'[r]
            BY <3>1, <3>2 DEF ReportsInv
        <3> QED
            BY <2>1, <2>2, <3>1, <3>3, StepsToInv
    <2>4. CASE Report(w) \notin rows
        <3>1. UNCHANGED attempted /\ StepsTo(w, "catch")
            BY <1>3, <2>4 DEF Finishes
        <3> QED
            BY <2>1, <3>1, StepsToInv DEF ReportsInv
    <2> QED
        BY <2>3, <2>4
<1> QED
    BY <1>1, <1>2, <1>3

LEMMA RecordsInv ==
    ASSUME ReportsInv, NEW w \in Workers, Records(w)
    PROVE  ReportsInv'
<1>1. /\ At(w, "record") /\ ~ At(w, "idle") /\ UNCHANGED <<rows, Kept, attempted, erasing>>
    BY DEF Records, At, Kept, bucketVars
<1>2. /\ Report(w) \in Reports /\ job[Report(w)] # "none"
      /\ Report(w) \in rows => Report(w) \in Kept /\ "finished" \in attempted[Report(w)]
    BY <1>1 DEF ReportsInv, At
<1>3. CASE Report(w) \in rows \ recorded
    <2>1. /\ recorded' = recorded \cup {Report(w)} /\ worker' = [worker EXCEPT ![w] = IdleWorker]
          /\ job' = [job EXCEPT ![Report(w)] = IF @ = "active" THEN "completed" ELSE @]
        BY <1>3 DEF Records, EndsJob
    <2>2. /\ job' \in [Reports -> {"none", "waiting", "active", "completed", "failed"}]
          /\ \A r \in Reports : job'[r] = "none" <=> job[r] = "none"
          /\ \A r \in Reports : r # Report(w) => job'[r] = job[r]
        BY <1>2, <2>1 DEF ReportsInv
    <2>3. ReportsHaveTheirFile'
        BY <1>1, <1>2, <1>3, <2>1, <2>2 DEF ReportsInv, ReportsHaveTheirFile, Kept
    <2>4. recorded \subseteq recorded' /\ recorded' \subseteq rows /\ \A r \in recorded' : job[r] # "none"
        BY <1>2, <1>3, <2>1 DEF ReportsInv
    <2>5. /\ attempted' \in [Reports -> SUBSET {"finished", "failed"}]
          /\ \A r \in Reports : attempted[r] \subseteq attempted'[r]
        BY <1>1 DEF ReportsInv
    <2> QED
        BY <1>1, <2>1, <2>2, <2>3, <2>4, <2>5, LeavesInv
<1>4. CASE Report(w) \notin rows \ recorded
    <2>1. StepsTo(w, "catch") /\ UNCHANGED <<recorded, job>>
        BY <1>4 DEF Records
    <2> QED
        BY <1>1, <2>1, StepsToInv DEF ReportsInv
<1> QED
    BY <1>3, <1>4

LEMMA CatchesInv ==
    ASSUME ReportsInv, NEW w \in Workers, Catches(w)
    PROVE  ReportsInv'
<1>1. /\ ~ At(w, "idle") /\ UNCHANGED <<rows, recorded, Kept, erasing>>
      /\ worker' = [worker EXCEPT ![w] = IdleWorker]
      /\ job' = [job EXCEPT ![Report(w)] = IF @ = "active" THEN "failed" ELSE @]
      /\ attempted' \in {attempted, [attempted EXCEPT ![Report(w)] = @ \cup {"failed"}]}
    BY DEF Catches, EndsJob, At, Kept, bucketVars
<1>2. Report(w) \in Reports
    BY <1>1 DEF ReportsInv
<1>3. /\ job' \in [Reports -> {"none", "waiting", "active", "completed", "failed"}]
      /\ \A r \in Reports : (job'[r] = "none" <=> job[r] = "none") /\ (job'[r] = "completed" => job[r] = "completed")
    BY <1>1, <1>2 DEF ReportsInv
<1>4. /\ attempted' \in [Reports -> SUBSET {"finished", "failed"}]
      /\ \A r \in Reports : attempted[r] \subseteq attempted'[r]
    BY <1>1, <1>2 DEF ReportsInv
<1>5. ReportsHaveTheirFile'
    BY <1>1, <1>3, <1>4 DEF ReportsInv, ReportsHaveTheirFile, Kept
<1> QED
    BY <1>1, <1>3, <1>4, <1>5, LeavesInv DEF ReportsInv

LEMMA StallsInv ==
    ASSUME ReportsInv, NEW w \in Workers, Stalls(w)
    PROVE  ReportsInv'
<1>1. /\ ~ At(w, "idle") /\ UNCHANGED <<rows, recorded, attempted, Kept, erasing>>
      /\ worker' \in {worker, [worker EXCEPT ![w] = IdleWorker]}
      /\ job[Report(w)] = "active"
      /\ job' \in {[job EXCEPT ![Report(w)] = "failed"], [job EXCEPT ![Report(w)] = "waiting"]}
    BY DEF Stalls, At, reportTables, Kept, bucketVars
<1>2. Report(w) \in Reports
    BY <1>1 DEF ReportsInv
<1>3. /\ job' \in [Reports -> {"none", "waiting", "active", "completed", "failed"}]
      /\ \A r \in Reports : (job'[r] = "none" <=> job[r] = "none") /\ (job'[r] = "completed" => job[r] = "completed")
    BY <1>1, <1>2 DEF ReportsInv
<1>4. ReportsHaveTheirFile'
    BY <1>1, <1>3 DEF ReportsInv, ReportsHaveTheirFile, Kept
<1> QED
    BY <1>1, <1>3, <1>4, LeavesInv DEF ReportsInv

LEMMA ReportsInvNext == ReportsInv /\ [ReportsNext]_reportVars => ReportsInv'
<1> SUFFICES ASSUME ReportsInv, [ReportsNext]_reportVars
             PROVE  ReportsInv'
    OBVIOUS
<1>1. CASE TenantTurns \/ CreatesTenant \/ DropsSchema \/ ForgetsTenant \/ WipesFiles \/ AsksTenants \/ Updates
           \/ UNCHANGED reportVars
    <2>1. /\ UNCHANGED <<attempted, Kept, queueVars, erasing>>
          /\ UNCHANGED <<rows, recorded>> \/ (rows' = {} /\ recorded' = {})
        BY <1>1 DEF TenantTurns, CreatesTenant, DropsSchema, ForgetsTenant, WipesFiles, AsksTenants, Updates,
                    reportVars, reportTables, Kept, bucketVars
    <2> QED
        BY <2>1, TenancyKeepsReports
<1> QED
    BY <1>1, CreatesReportInv, DeletionInv, BeginsInv, WorkerInv, RecordsInv, CatchesInv, StallsInv DEF ReportsNext

\* A report that shows a file has it unless the bucket of its tenant was emptied, and a completed job left
\* its record and a finished attempt, however jobs stall, run twice, and race deletions and dropped schemas.
THEOREM ReportsKeepTheirFile == ReportsSpec => []ReportsHaveTheirFile
<1>1. ReportsInv => ReportsHaveTheirFile
    BY DEF ReportsInv
<1> QED
    BY <1>1, ReportsInvInit, ReportsInvNext, PTL DEF ReportsSpec

-----------------------------------------------------------------------------
(* telegraf: what its outputs write *)

\* The tenants the creator is past, in its batch, have their bucket too.
CreatorInv ==
    /\ told \in Seq(Organizations)
    /\ prepared \in 0..Len(told) /\ creating \in 0..Len(told) /\ lastTold \in 0..Len(told)
    /\ creating # 0 => prepared < creating /\ creating <= lastTold
    /\ \A i \in 1..prepared : told[i] \in withBucket
    /\ \A i \in 1..(creating - 1) : told[i] \in withBucket

InOrganization(m) == <<m, OrgOf[m]>> \in written \/ m \in unkept

\* Of the metrics of its batch, those of organizations Write is done with are kept; in halves, it has
\* one organization left, and the first half of what is kept is.
WriterInv ==
    /\ buffered \in 0..Len(OrgOf) /\ delivered \in 0..buffered /\ lastMetric \in 0..buffered
    /\ written \subseteq (DOMAIN OrgOf) \X Organizations
    /\ left \subseteq Organizations
    /\ flushing \in {"idle", "choosing", "writing", "first half", "second half"}
    /\ flushing # "idle" => delivered < lastMetric
    /\ \A m \in 1..delivered : InOrganization(m)
    /\ \A w \in written : w[2] = OrgOf[w[1]] \/ w[1] \in unkept
    /\ flushing = "writing" => \A m \in Batch : OrgOf[m] \in left \/ InOrganization(m)
    /\ flushing \in {"first half", "second half"} =>
          /\ \A o, p \in left : o = p
          /\ \A m \in Batch : OrgOf[m] \in left \/ m \in unkept
    /\ flushing = "second half" => \A m \in Batch : m <= Midpoint => InOrganization(m)

LEMMA OutputsInvInit == OutputsInit => CreatorInv /\ WriterInv
BY OutputsAssumption DEF OutputsInit, CreatorInv, WriterInv, Batch, InOrganization

LEMMA CreatorInvNext == CreatorInv /\ [OutputsNext]_outputVars => CreatorInv'
<1> SUFFICES ASSUME CreatorInv, [OutputsNext]_outputVars
             PROVE  CreatorInv'
    OBVIOUS
<1>1. ASSUME NEW o \in Organizations, IsTold(o)
      PROVE  CreatorInv'
    <2>1. /\ told' = Append(told, o) /\ UNCHANGED <<prepared, creating, lastTold, withBucket>>
        BY <1>1 DEF IsTold, influx
    <2>2. told' \in Seq(Organizations) /\ Len(told') = Len(told) + 1
        BY <2>1 DEF CreatorInv
    <2>3. \A i \in 1..Len(told) : told'[i] = told[i]
        BY <2>1 DEF CreatorInv
    <2> QED
        BY <2>1, <2>2, <2>3 DEF CreatorInv
<1>2. CASE CreatorWrites
    BY <1>2 DEF CreatorWrites, CreatorInv, influx
<1>3. CASE CreatesOrg
    BY <1>3 DEF CreatesOrg, CreatorInv
<1>4. CASE FindsConflict
    BY <1>4 DEF FindsConflict, CreatorInv, influx
<1>5. CASE CreatesBucket
    <2>1. /\ creating # 0 /\ UNCHANGED <<told, lastTold>> /\ withBucket \subseteq withBucket'
        BY <1>5 DEF CreatesBucket
    <2>2. \/ told[creating] \in withBucket' /\ creating = lastTold /\ prepared' = lastTold /\ creating' = 0
          \/ told[creating] \in withBucket' /\ creating # lastTold /\ prepared' = prepared /\ creating' = creating + 1
          \/ creating' = 0 /\ prepared' = prepared
        BY <1>5 DEF CreatesBucket
    <2> QED
        BY <2>1, <2>2 DEF CreatorInv
<1>6. ASSUME UNCHANGED <<told, prepared, creating, lastTold, withBucket>>
      PROVE  CreatorInv'
    BY <1>6 DEF CreatorInv
<1>7. ASSUME NEW o \in Organizations, WritesOrganization(o) \/ WritesHalf(o)
      PROVE  CreatorInv'
    BY <1>6, <1>7 DEF WritesOrganization, WritesHalf, creatorVars
<1>8. CASE MetricArrives \/ WriteBegins \/ GivesUp
    BY <1>6, <1>8 DEF MetricArrives, WriteBegins, GivesUp, creatorVars, influx
<1>9. ASSUME NEW s \in Servers, TriesServer(s) \/ RetryTimeComes(s)
      PROVE  CreatorInv'
    BY <1>6, <1>9 DEF TriesServer, RetryTimeComes, creatorVars, influx
<1>10. CASE UNCHANGED outputVars
    BY <1>6, <1>10 DEF outputVars, creatorVars, influx
<1> QED
    BY <1>1, <1>2, <1>3, <1>4, <1>5, <1>7, <1>8, <1>9, <1>10 DEF OutputsNext

\* Halving a range that is not empty.
LEMMA Halved ==
    ASSUME NEW a \in Nat, NEW b \in Nat, a < b
    PROVE  /\ a + (b - a) \div 2 \in Nat
           /\ a <= a + (b - a) \div 2 /\ a + (b - a) \div 2 <= b
<1> DEFINE d == b - a
<1>1. d \in Nat
    OBVIOUS
<1> HIDE DEF d
<1>2. d \div 2 \in Nat /\ d \div 2 <= d
    BY <1>1
<1>3. d = b - a
    BY DEF d
<1> QED
    BY <1>2, <1>3

\* The metrics of a batch are metrics that arrived.
LEMMA BatchTypes ==
    ASSUME WriterInv
    PROVE  /\ buffered \in Nat /\ delivered \in Nat /\ lastMetric \in Nat /\ Len(OrgOf) \in Nat
           /\ delivered <= buffered /\ lastMetric <= buffered /\ buffered <= Len(OrgOf)
           /\ DOMAIN OrgOf = 1..Len(OrgOf) /\ Batch \subseteq DOMAIN OrgOf
           /\ \A m \in DOMAIN OrgOf : OrgOf[m] \in Organizations
<1>1. /\ Len(OrgOf) \in Nat /\ DOMAIN OrgOf = 1..Len(OrgOf)
      /\ \A m \in DOMAIN OrgOf : OrgOf[m] \in Organizations
    BY OutputsAssumption
<1>2. /\ buffered \in Nat /\ delivered \in Nat /\ lastMetric \in Nat
      /\ delivered <= buffered /\ lastMetric <= buffered /\ buffered <= Len(OrgOf)
    <2>1. buffered \in 0..Len(OrgOf) /\ delivered \in 0..buffered /\ lastMetric \in 0..buffered
        BY DEF WriterInv
    <2>2. buffered \in Nat /\ buffered <= Len(OrgOf)
        BY <1>1, <2>1
    <2> QED
        BY <2>1, <2>2
<1>3. Batch \subseteq DOMAIN OrgOf
    BY <1>1, <1>2 DEF Batch
<1> QED
    BY <1>1, <1>2, <1>3

\* Steps that write nothing, and leave the batch and what is left of it as they are.
LEMMA WriterRests ==
    ASSUME WriterInv, UNCHANGED <<delivered, lastMetric, flushing, left, written, unkept>>,
           buffered' \in buffered..Len(OrgOf)
    PROVE  WriterInv'
<1>1. /\ buffered' \in 0..Len(OrgOf) /\ delivered' \in 0..buffered' /\ lastMetric' \in 0..buffered'
    BY BatchTypes
<1>2. /\ Batch' = Batch /\ Midpoint' = Midpoint
    BY DEF Batch, Midpoint
<1>3. \A m : InOrganization(m)' <=> InOrganization(m)
    BY DEF InOrganization
<1> QED
    BY <1>1, <1>2, <1>3 DEF WriterInv

\* A request that is not an error: each of the metrics is in the organization, or refused, and those
\* that belong elsewhere were given up before.
LEMMA AcceptedKeeps ==
    ASSUME WriterInv, NEW o \in Organizations, NEW ms \in SUBSET Batch, Accepted(ms, o),
           \A m \in ms : OrgOf[m] = o \/ m \in unkept
    PROVE  /\ written \subseteq written' /\ unkept \subseteq unkept'
           /\ \A m \in ms : OrgOf[m] = o => InOrganization(m)'
           /\ written' \subseteq (DOMAIN OrgOf) \X Organizations
           /\ \A w \in written' : w[2] = OrgOf[w[1]] \/ w[1] \in unkept'
<1>1. ms \subseteq DOMAIN OrgOf
    BY BatchTypes
<1>2. CASE written' = written \cup (ms \X {o}) /\ UNCHANGED unkept
    BY <1>1, <1>2 DEF WriterInv, InOrganization
<1>3. CASE unkept' = unkept \cup ms /\ UNCHANGED written
    BY <1>3 DEF WriterInv, InOrganization
<1>4. ASSUME NEW kept \in SUBSET ms, written' = written \cup (kept \X {o}), unkept' = unkept \cup (ms \ kept)
      PROVE  /\ written \subseteq written' /\ unkept \subseteq unkept'
             /\ \A m \in ms : OrgOf[m] = o => InOrganization(m)'
             /\ written' \subseteq (DOMAIN OrgOf) \X Organizations
             /\ \A w \in written' : w[2] = OrgOf[w[1]] \/ w[1] \in unkept'
    BY <1>1, <1>4 DEF WriterInv, InOrganization
<1> QED
    BY <1>2, <1>3, <1>4 DEF Accepted

\* An error, or a lost answer: what may have been written was in its place.
LEMMA RefusedKeeps ==
    ASSUME WriterInv, flushing # "idle", NEW o \in Organizations, NEW ms \in SUBSET Batch, Refused(ms, o),
           UNCHANGED <<delivered, lastMetric, buffered>>,
           \A m \in ms : OrgOf[m] = o \/ m \in unkept
    PROVE  WriterInv'
<1>1. /\ flushing' = "choosing" /\ left' = {} /\ UNCHANGED unkept
      /\ written' \in {written, written \cup (ms \X {o})}
    BY DEF Refused
<1>2. ms \subseteq DOMAIN OrgOf
    BY BatchTypes
<1>3. \A m : InOrganization(m) => InOrganization(m)'
    BY <1>1 DEF InOrganization
<1>4. /\ written' \subseteq (DOMAIN OrgOf) \X Organizations
      /\ \A w \in written' : w[2] = OrgOf[w[1]] \/ w[1] \in unkept'
    BY <1>1, <1>2 DEF WriterInv
<1> QED
    BY <1>1, <1>3, <1>4 DEF WriterInv

\* The end of Write, when all of its batch is kept.
LEMMA EndKeeps ==
    ASSUME WriterInv, flushing # "idle", EndsWrite, UNCHANGED <<lastMetric, buffered>>,
           written' \subseteq (DOMAIN OrgOf) \X Organizations,
           \A w \in written' : w[2] = OrgOf[w[1]] \/ w[1] \in unkept',
           written \subseteq written', unkept \subseteq unkept',
           \A m \in Batch : InOrganization(m)'
    PROVE  WriterInv'
<1>1. flushing' = "idle" /\ delivered' = lastMetric /\ left' = {}
    BY DEF EndsWrite
<1>2. \A m \in 1..delivered : InOrganization(m)'
    BY DEF WriterInv, InOrganization
<1>3. \A m \in 1..lastMetric : m \in 1..delivered \/ m \in Batch
    BY BatchTypes DEF Batch
<1>4. \A m \in 1..delivered' : InOrganization(m)'
    BY <1>1, <1>2, <1>3
<1>5. buffered' \in 0..Len(OrgOf) /\ delivered' \in 0..buffered' /\ lastMetric' \in 0..buffered'
    BY <1>1, BatchTypes
<1> QED
    BY <1>1, <1>4, <1>5 DEF WriterInv

LEMMA WritesOrganizationInv ==
    ASSUME WriterInv, NEW o \in Organizations, WritesOrganization(o)
    PROVE  WriterInv'
<1>1. /\ flushing = "writing" /\ o \in left /\ UNCHANGED <<lastMetric, buffered>>
      /\ InBatch(o) \subseteq Batch
    BY DEF WritesOrganization, InBatch
<1>2. \A m \in Batch : OrgOf[m] \in left \/ InOrganization(m)
    BY <1>1 DEF WriterInv
<1>3. CASE /\ Accepted(InBatch(o), o)
           /\ IF left = {o} THEN EndsWrite ELSE left' = left \ {o} /\ UNCHANGED <<flushing, delivered>>
    <2>1. /\ written \subseteq written' /\ unkept \subseteq unkept'
          /\ \A m \in InBatch(o) : InOrganization(m)'
          /\ written' \subseteq (DOMAIN OrgOf) \X Organizations
          /\ \A w \in written' : w[2] = OrgOf[w[1]] \/ w[1] \in unkept'
        BY <1>1, <1>3, AcceptedKeeps DEF InBatch
    <2>2. \A m : InOrganization(m) => InOrganization(m)'
        BY <2>1 DEF InOrganization
    <2>3. \A m \in Batch : OrgOf[m] \in left \ {o} \/ InOrganization(m)'
        BY <1>2, <2>1, <2>2 DEF InBatch
    <2>4. CASE left = {o}
        BY <1>1, <1>3, <2>1, <2>3, <2>4, EndKeeps
    <2>5. CASE left # {o}
        <3>1. /\ left' = left \ {o} /\ UNCHANGED <<flushing, delivered>> /\ Batch' = Batch
            BY <1>1, <1>3, <2>5 DEF Batch
        <3> QED
            BY <1>1, <2>1, <2>2, <2>3, <3>1 DEF WriterInv
    <2> QED
        BY <2>4, <2>5
<1>4. CASE unkept' = unkept \cup {m \in Batch : OrgOf[m] \in left} /\ EndsWrite /\ UNCHANGED written
    <2>1. \A m \in Batch : InOrganization(m)'
        BY <1>2, <1>4 DEF InOrganization
    <2>2. \A w \in written' : w[2] = OrgOf[w[1]] \/ w[1] \in unkept'
        BY <1>4 DEF WriterInv
    <2> QED
        BY <1>1, <1>4, <2>1, <2>2, EndKeeps DEF WriterInv
<1>5. CASE /\ unkept' = unkept \cup Late(o) /\ flushing' = "first half" /\ left' = {o}
           /\ UNCHANGED <<written, delivered>>
    <2>1. \A m : InOrganization(m) => InOrganization(m)'
        BY <1>5 DEF InOrganization
    <2>2. Batch' = Batch /\ \A m \in Batch : OrgOf[m] = o \/ m \in unkept'
        BY <1>1, <1>5 DEF Late, Batch
    <2> QED
        BY <1>1, <1>5, <2>1, <2>2 DEF WriterInv
<1>6. CASE Refused(InBatch(o), o) /\ UNCHANGED delivered
    BY <1>1, <1>6, RefusedKeeps DEF InBatch
<1> QED
    BY <1>3, <1>4, <1>5, <1>6 DEF WritesOrganization

LEMMA WritesHalfInv ==
    ASSUME WriterInv, NEW o \in Organizations, WritesHalf(o)
    PROVE  WriterInv'
<1> DEFINE ms == IF flushing = "first half" THEN (delivered + 1)..Midpoint ELSE (Midpoint + 1)..lastMetric
<1>1. /\ flushing \in {"first half", "second half"} /\ o \in left /\ UNCHANGED <<lastMetric, buffered>>
      /\ \/ /\ Accepted(ms, o)
            /\ IF flushing = "first half" THEN flushing' = "second half" /\ UNCHANGED <<left, delivered>>
               ELSE EndsWrite
         \/ Refused(ms, o) /\ UNCHANGED delivered
    BY DEF WritesHalf
<1>2. /\ delivered \in Nat /\ lastMetric \in Nat /\ delivered < lastMetric
      /\ Midpoint \in Nat /\ delivered <= Midpoint /\ Midpoint <= lastMetric
    <2>1. delivered \in Nat /\ lastMetric \in Nat /\ delivered < lastMetric
        BY <1>1, BatchTypes DEF WriterInv
    <2> QED
        BY <2>1, Halved DEF Midpoint
<1>3. ms \subseteq Batch
    <2>1. (delivered + 1)..Midpoint \subseteq (delivered + 1)..lastMetric
        BY <1>2
    <2>2. (Midpoint + 1)..lastMetric \subseteq (delivered + 1)..lastMetric
        BY <1>2
    <2> QED
        BY <2>1, <2>2 DEF Batch
<1>4. \A m \in Batch : OrgOf[m] = o \/ m \in unkept
    BY <1>1 DEF WriterInv
<1>5. \A m \in Batch : m \in ms \/ (flushing = "first half" /\ m > Midpoint) \/ (flushing = "second half" /\ m <= Midpoint)
    <2>1. \A m \in (delivered + 1)..lastMetric : /\ m <= Midpoint => m \in (delivered + 1)..Midpoint
                                                /\ ~(m <= Midpoint) => m > Midpoint /\ m \in (Midpoint + 1)..lastMetric
        BY <1>2
    <2>2. CASE flushing = "first half"
        <3>1. ms = (delivered + 1)..Midpoint
            BY <2>2
        <3> HIDE DEF ms
        <3> TAKE m \in Batch
        <3>2. m \in (delivered + 1)..lastMetric
            BY DEF Batch
        <3>3. CASE m <= Midpoint
            <4>1. m \in (delivered + 1)..Midpoint
                BY <2>1, <3>2, <3>3
            <4> QED
                BY <3>1, <4>1
        <3>4. CASE ~(m <= Midpoint)
            <4>1. m > Midpoint
                BY <2>1, <3>2, <3>4
            <4> QED
                BY <2>2, <4>1
        <3> QED
            BY <3>3, <3>4
    <2>3. CASE flushing = "second half"
        <3>1. flushing # "first half"
            BY <2>3
        <3> QED
            BY <2>1, <2>3, <3>1 DEF Batch
    <2> QED
        BY <1>1, <2>2, <2>3
<1> HIDE DEF ms
<1>6. CASE /\ Accepted(ms, o)
           /\ IF flushing = "first half" THEN flushing' = "second half" /\ UNCHANGED <<left, delivered>>
              ELSE EndsWrite
    <2>1. /\ written \subseteq written' /\ unkept \subseteq unkept'
          /\ \A m \in ms : OrgOf[m] = o => InOrganization(m)'
          /\ written' \subseteq (DOMAIN OrgOf) \X Organizations
          /\ \A w \in written' : w[2] = OrgOf[w[1]] \/ w[1] \in unkept'
        BY <1>3, <1>4, <1>6, AcceptedKeeps
    <2>2. \A m : InOrganization(m) => InOrganization(m)'
        BY <2>1 DEF InOrganization
    <2>3. \A m \in ms : InOrganization(m)'
        BY <1>3, <1>4, <2>1, <2>2 DEF InOrganization
    <2>4. CASE flushing = "first half"
        <3>1. /\ flushing' = "second half" /\ UNCHANGED <<left, delivered>> /\ Batch' = Batch
              /\ Midpoint' = Midpoint
            BY <1>1, <1>6, <2>4 DEF Batch, Midpoint
        <3>2. \A m \in Batch : m <= Midpoint => InOrganization(m)'
            <4>1. \A m \in (delivered + 1)..lastMetric : m <= Midpoint => ~(m > Midpoint)
                BY <1>2
            <4> QED
                BY <1>5, <2>3, <2>4, <4>1 DEF Batch
        <3> QED
            BY <1>1, <2>1, <2>2, <3>1, <3>2 DEF WriterInv
    <2>5. CASE flushing = "second half"
        <3>1. \A m \in Batch : m <= Midpoint => InOrganization(m)
            BY <2>5 DEF WriterInv
        <3>2. \A m \in Batch : InOrganization(m)'
            BY <1>5, <2>2, <2>3, <2>5, <3>1
        <3> QED
            BY <1>1, <1>6, <2>1, <2>5, <3>2, EndKeeps
    <2> QED
        BY <1>1, <2>4, <2>5
<1>7. CASE Refused(ms, o) /\ UNCHANGED delivered
    BY <1>1, <1>3, <1>4, <1>7, RefusedKeeps
<1> QED
    BY <1>1, <1>6, <1>7 DEF ms

LEMMA WriterInvNext == WriterInv /\ [OutputsNext]_outputVars => WriterInv'
<1> SUFFICES ASSUME WriterInv, [OutputsNext]_outputVars
             PROVE  WriterInv'
    OBVIOUS
<1>0. buffered \in buffered..Len(OrgOf)
    BY BatchTypes
<1>1. CASE \/ \E o \in Organizations : IsTold(o)
           \/ CreatorWrites \/ CreatesOrg \/ FindsConflict \/ CreatesBucket \/ UNCHANGED outputVars
    <2>1. UNCHANGED <<buffered, delivered, lastMetric, flushing, left, written, unkept>>
        BY <1>1 DEF IsTold, CreatorWrites, CreatesOrg, FindsConflict, CreatesBucket, influx, writerVars, outputVars
    <2> QED
        BY <1>0, <2>1, WriterRests
<1>2. CASE MetricArrives
    <2>1. UNCHANGED <<delivered, lastMetric, flushing, left, written, unkept>> /\ buffered' \in buffered..Len(OrgOf)
        BY <1>2, BatchTypes DEF MetricArrives, influx
    <2> QED
        BY <2>1, WriterRests
<1>3. CASE WriteBegins
    BY <1>3, OutputsAssumption DEF WriteBegins, influx, WriterInv, InOrganization
<1>4. CASE GivesUp
    BY <1>4, OutputsAssumption DEF GivesUp, influx, WriterInv, InOrganization
<1>5. ASSUME NEW s \in Servers, RetryTimeComes(s)
      PROVE  WriterInv'
    BY <1>0, <1>5, WriterRests DEF RetryTimeComes, influx
<1>6. ASSUME NEW s \in Servers, TriesServer(s)
      PROVE  WriterInv'
    <2>1. CASE s \in backingOff
        BY <1>0, <1>6, <2>1, WriterRests DEF TriesServer, influx
    <2>2. CASE s \notin backingOff
        <3>1. /\ flushing = "choosing" /\ flushing' = "writing" /\ left' = {OrgOf[m] : m \in Batch}
              /\ UNCHANGED <<buffered, delivered, lastMetric, written, unkept>> /\ Batch' = Batch
            BY <1>6, <2>2 DEF TriesServer, influx, Batch
        <3>2. left' \subseteq Organizations
            BY <3>1, OutputsAssumption DEF WriterInv, Batch
        <3> QED
            BY <3>1, <3>2 DEF WriterInv, InOrganization
    <2> QED
        BY <2>1, <2>2
<1> QED
    BY <1>1, <1>2, <1>3, <1>4, <1>5, <1>6, WritesOrganizationInv, WritesHalfInv DEF OutputsNext

\* A tenant that is ready has its bucket, and an accepted metric is where its tag says and nowhere else,
\* but for those refused or in a Write cut short, for any metrics, servers, tenants and faults.
THEOREM MetricsReachOrganizations == OutputsSpec => []MetricsReachTheirOrganization
<1>1. CreatorInv /\ WriterInv => MetricsReachTheirOrganization
    BY DEF CreatorInv, WriterInv, MetricsReachTheirOrganization, InOrganization
<1> QED
    BY <1>1, OutputsInvInit, CreatorInvNext, WriterInvNext, PTL DEF OutputsSpec

-----------------------------------------------------------------------------
(* influxdb storer: points are kept, organisations follow tenants *)

HandlerPhases == {"free", "create", "post", "hasBucket", "postBucket", "delete", "deleteOrg", "close", "forget", "keep"}

\* Until InfluxDB is seen unhealthy too early there is one registration, or none while it is unhealthy.
CallbacksKnown ==
    /\ isHealth \in {"null", "yes", "no"}
    /\ ~flapped => /\ stage = "init" => isHealth # "no" /\ callbacks = 0 /\ held = FALSE
                   /\ stage = "ready" /\ isHealth = "no" => callbacks = 0 /\ held = FALSE
                   /\ stage = "ready" /\ isHealth # "no" => callbacks = 1 /\ held = TRUE

\* What an event that is handled alone knows of the organisation is so.
AloneKnows(e) ==
    /\ e.phase = "post" => org = 0
    /\ e.phase \in {"hasBucket", "postBucket", "deleteOrg"} => e.id = org /\ org # 0
    /\ e.phase \in {"close", "forget", "keep"} => org = 0
OrgKnown ==
    /\ org \in Nat /\ orgs \in Nat /\ writerId \in Nat
    /\ handler \in [Handlers -> [phase : HandlerPhases, id : Nat]]
    /\ settled \in {"none", "create", "delete"} => \A h \in Handlers : handler[h].phase = "free"
    /\ settled = "alone" => \E h \in Handlers :
          /\ handler[h].phase # "free" /\ AloneKnows(handler[h])
          /\ \A g \in Handlers \ {h} : handler[g].phase = "free"
    /\ OrgFollowsTenancy

\* A handler that found or made an organization knows its id.
OrgTyped ==
    /\ orgBucket => org # 0
    /\ settled \in {"none", "alone", "any", "create", "delete"}
    /\ \A h \in Handlers : handler[h].phase \in {"hasBucket", "postBucket"} => handler[h].id # 0

\* A closed writer is one that could not be forgotten or that of a process about to end, and has nothing
\* left; what is buffered is stored, unless something that may cost it happens first.
PointsKnown ==
    /\ writer = "closed" => unclosed \/ stage = "closed"
    /\ writer # "open" => buffer = {}
    /\ stage = "closed" => buffer = {}
    /\ orphans \cup lost \subseteq excusedPoints
    /\ buffer \subseteq excusedPoints \/ (influxUp /\ orgBucket /\ ~Removing)

StorerInv == CallbacksKnown /\ OrgKnown /\ OrgTyped /\ PointsKnown

LEMMA StorerInvInit == StorerInit => StorerInv
<1> SUFFICES ASSUME StorerInit PROVE StorerInv
    OBVIOUS
<1>1. handler \in [Handlers -> [phase : HandlerPhases, id : Nat]] /\ \A h \in Handlers : handler[h].phase = "free"
    BY DEF StorerInit, Free, HandlerPhases
<1>2. CallbacksKnown
    BY DEF StorerInit, CallbacksKnown
<1>3. OrgKnown
    BY <1>1 DEF StorerInit, OrgKnown, OrgFollowsTenancy
<1>4. PointsKnown
    BY <1>1 DEF StorerInit, PointsKnown
<1>5. OrgTyped
    <2>1. orgBucket => org # 0
        <3>1. orgBucket = (org = 1)
            BY DEF StorerInit
        <3>2. orgBucket => org = 1
            BY <3>1, Zenon
        <3> QED
            BY <3>2
    <2>2. settled \in {"none", "alone", "any", "create", "delete"}
        BY DEF StorerInit
    <2> QED
        BY <1>1, <2>1, <2>2 DEF OrgTyped
<1> QED
    BY <1>2, <1>3, <1>4, <1>5 DEF StorerInv

\* The registrations change by the health of InfluxDB and the stages of the process alone.
LEMMA CallbacksKnownNext == CallbacksKnown /\ [StorerNext]_storerVars => CallbacksKnown'
<1> SUFFICES ASSUME CallbacksKnown, [StorerNext]_storerVars PROVE CallbacksKnown'
    OBVIOUS
<1>1. CASE UNCHANGED <<stage, isHealth, held, callbacks, flapped>>
    BY <1>1 DEF CallbacksKnown
<1>2. CASE Initialized
    BY <1>2 DEF Initialized, Registers, CallbacksKnown
<1>3. CASE HealthCheck
    <2>1. ~flapped' => ~flapped /\ (influxUp \/ (stage # "init" /\ isHealth # "null"))
        BY <1>3, Zenon DEF HealthCheck
    <2>2. stage' = stage /\ isHealth' = IF influxUp THEN "yes" ELSE "no"
        BY <1>3 DEF HealthCheck
    <2>3. IF isHealth = "no" /\ isHealth' = "yes" THEN Registers
          ELSE IF isHealth = "yes" /\ isHealth' = "no" THEN Unregisters ELSE UNCHANGED <<held, callbacks>>
        BY <1>3 DEF HealthCheck
    <2>4. stage \in {"init", "ready"}
        BY <1>3 DEF HealthCheck
    <2>5. isHealth \in {"null", "yes", "no"}
        BY DEF CallbacksKnown
    <2>6. CASE stage = "init"
        BY <2>1, <2>2, <2>3, <2>6 DEF Registers, Unregisters, CallbacksKnown
    <2>7. CASE stage = "ready" /\ isHealth = "no"
        BY <2>1, <2>2, <2>3, <2>7 DEF Registers, Unregisters, CallbacksKnown
    <2>8. CASE stage = "ready" /\ isHealth # "no"
        BY <2>1, <2>2, <2>3, <2>5, <2>8 DEF Registers, Unregisters, CallbacksKnown
    <2> QED
        BY <2>4, <2>6, <2>7, <2>8
<1>4. CASE StopsCallbacks \/ StopsConsumer \/ ClosesWriters
    BY <1>4 DEF StopsCallbacks, StopsConsumer, ClosesWriters, healthVars, CallbacksKnown
<1>5. CASE Restarts(FALSE) \/ Restarts(TRUE)
    BY <1>5 DEF Restarts, CallbacksKnown
<1>6. CASE \/ InfluxChanges \/ Flushes \/ \E p \in Points : Writes(p)
           \/ \E h \in Handlers :
                \/ Arrives(h) \/ GetOrg(h) \/ PostOrg(h) \/ HasBucket(h) \/ PostBucket(h)
                \/ DeleteOrg(h) \/ CloseWriter(h) \/ ForgetWriter(h) \/ KeepWriter(h) \/ RequestFails(h)
    BY <1>1, <1>6 DEF InfluxChanges, Flushes, Writes, Arrives, GetOrg, PostOrg, HasBucket, PostBucket, DeleteOrg,
       CloseWriter, ForgetWriter, KeepWriter, RequestFails, healthVars
<1>7. CASE UNCHANGED storerVars
    BY <1>1, <1>7 DEF storerVars, healthVars
<1> QED
    BY <1>2, <1>3, <1>4, <1>5, <1>6, <1>7 DEF StorerNext

\* Away from the handlers nothing touches an organisation.
OrgRests == UNCHANGED <<org, orgBucket, orgs, handler, settled>> /\ writerId' \in {writerId, writerId + 1}
LEMMA OrgKnownRests == OrgKnown /\ OrgRests => OrgKnown'
BY DEF OrgKnown, OrgRests, AloneKnows, OrgFollowsTenancy

\* A handler takes a step: with others at work nothing is said of the organisation, and alone it goes
\* on with what it knows or ends with what it has done.
LEMMA HandlerSteps ==
    ASSUME OrgKnown, NEW h \in Handlers, handler[h].phase # "free", NEW phase \in HandlerPhases, NEW id \in Nat,
           handler' = [handler EXCEPT ![h] = [phase |-> phase, id |-> id]], org' \in Nat, orgs' \in Nat, writerId' = writerId,
           \/ settled' = "any"
           \/ /\ settled' = settled /\ phase # "free"
              /\ AloneKnows(handler[h]) => AloneKnows([phase |-> phase, id |-> id])'
           \/ /\ phase = "free" /\ settled' = (IF settled = "alone" THEN "create" ELSE "any")
              /\ settled = "alone" /\ AloneKnows(handler[h]) => org' # 0 /\ orgBucket'
           \/ /\ phase = "free" /\ settled' = (IF settled = "alone" THEN "delete" ELSE "any")
              /\ settled = "alone" /\ AloneKnows(handler[h]) => org' = 0
    PROVE  OrgKnown'
<1>1. handler' \in [Handlers -> [phase : HandlerPhases, id : Nat]]
    BY DEF OrgKnown
<1>2. /\ handler'[h] = [phase |-> phase, id |-> id]
      /\ \A g \in Handlers \ {h} : handler'[g] = handler[g]
    BY DEF OrgKnown
<1>3. settled \notin {"none", "create", "delete"}
    BY DEF OrgKnown
<1>4. settled = "alone" => AloneKnows(handler[h]) /\ \A g \in Handlers \ {h} : handler[g].phase = "free"
    BY DEF OrgKnown
<1>5. CASE settled' = "any"
    BY <1>1, <1>5 DEF OrgKnown, OrgFollowsTenancy
<1>6. CASE /\ settled' = settled /\ phase # "free"
           /\ AloneKnows(handler[h]) => AloneKnows([phase |-> phase, id |-> id])'
    <2>1. settled' = "alone" => /\ AloneKnows(handler[h])' /\ handler'[h].phase # "free"
                                /\ \A g \in Handlers \ {h} : handler'[g].phase = "free"
        BY <1>2, <1>4, <1>6 DEF AloneKnows
    <2> QED
        BY <1>1, <1>3, <1>6, <2>1 DEF OrgKnown, OrgFollowsTenancy
<1>7. CASE phase = "free" /\ settled = "alone" /\ settled' \in {"create", "delete"}
    <2>1. \A g \in Handlers : handler'[g].phase = "free"
        BY <1>2, <1>4, <1>7
    <2>2. OrgFollowsTenancy'
        BY <1>4, <1>7 DEF OrgFollowsTenancy
    <2> QED
        BY <1>1, <1>7, <2>1, <2>2 DEF OrgKnown
<1> QED
    BY <1>5, <1>6, <1>7

\* An event of the tenant arrives.
LEMMA ArrivesKnown ==
    ASSUME OrgKnown, NEW h \in Handlers, Arrives(h)
    PROVE  OrgKnown'
<1>1. PICK phase \in {"create", "delete"} : handler' = [handler EXCEPT ![h] = [phase |-> phase, id |-> 0]]
    BY DEF Arrives, Handled
<1>2. handler' \in [Handlers -> [phase : HandlerPhases, id : Nat]]
    BY <1>1 DEF OrgKnown, HandlerPhases
<1>3. handler'[h].phase = phase /\ \A g \in Handlers \ {h} : handler'[g] = handler[g]
    BY <1>1 DEF OrgKnown
<1>4. UNCHANGED <<org, orgBucket, orgs, writerId>> /\ settled' \in {"alone", "any"}
    BY DEF Arrives, dataVars
<1>5. settled' = "alone" => \A g \in Handlers : handler[g].phase = "free"
    BY DEF Arrives, Free
<1> QED
    BY <1>2, <1>3, <1>4, <1>5 DEF OrgKnown, AloneKnows, OrgFollowsTenancy

\* The steps of a handler at InfluxDB and at the writer of the tenant.
LEMMA HandlersKnown ==
    ASSUME OrgKnown, NEW h \in Handlers,
           \/ GetOrg(h) \/ PostOrg(h) \/ HasBucket(h) \/ PostBucket(h) \/ DeleteOrg(h)
           \/ CloseWriter(h) \/ ForgetWriter(h) \/ KeepWriter(h) \/ RequestFails(h)
    PROVE  OrgKnown'
<1>0. /\ org \in Nat /\ orgs \in Nat /\ writerId \in Nat
      /\ handler[h].id \in Nat /\ handler[h].phase \in HandlerPhases
    BY DEF OrgKnown
<1>w. writerId' = writerId
    BY DEF GetOrg, PostOrg, HasBucket, PostBucket, DeleteOrg, CloseWriter, ForgetWriter, KeepWriter, RequestFails, dataVars
<1>1. CASE GetOrg(h)
    BY <1>0, <1>1, HandlerSteps, <1>w DEF GetOrg, Handled, orgVars, HandlerPhases, AloneKnows
<1>2. CASE PostOrg(h)
    BY <1>0, <1>2, HandlerSteps, <1>w DEF PostOrg, Handled, Ends, Free, HandlerPhases, AloneKnows
<1>3. CASE HasBucket(h)
    BY <1>0, <1>3, HandlerSteps, <1>w DEF HasBucket, Handled, Ends, Free, HandlerPhases, AloneKnows
<1>4. CASE PostBucket(h)
    BY <1>0, <1>4, HandlerSteps, <1>w DEF PostBucket, Ends, Free, HandlerPhases, AloneKnows
<1>5. CASE DeleteOrg(h)
    <2>1. /\ handler[h].phase = "deleteOrg" /\ handler' = [handler EXCEPT ![h] = [phase |-> "close", id |-> 0]]
          /\ orgs' = orgs /\ settled' = settled /\ org' \in {0, org}
          /\ org = handler[h].id => org' = 0
        BY <1>5 DEF DeleteOrg, Handled
    <2>2. AloneKnows(handler[h]) => AloneKnows([phase |-> "close", id |-> 0])'
        BY <2>1 DEF AloneKnows
    <2> QED
        <3>1. "close" \in HandlerPhases /\ 0 \in Nat /\ org' \in Nat /\ orgs' \in Nat /\ handler[h].phase # "free"
            BY <1>0, <2>1 DEF HandlerPhases
        <3> QED
            BY <2>1, <2>2, <3>1, HandlerSteps, <1>w
<1>6. CASE CloseWriter(h)
    <2>1. handler[h].phase = "close" /\ UNCHANGED <<org, orgs>>
        BY <1>6 DEF CloseWriter
    <2>2. CASE \E phase \in {"forget", "keep"} :
                  handler' = [handler EXCEPT ![h] = [phase |-> phase, id |-> writerId]] /\ settled' = settled
        BY <1>0, <2>1, <2>2, HandlerSteps, <1>w DEF HandlerPhases, AloneKnows
    <2>3. CASE Ends(h, "delete")
        BY <1>0, <2>1, <2>3, HandlerSteps, <1>w DEF Ends, Free, HandlerPhases, AloneKnows
    <2> QED
        BY <1>6, <2>2, <2>3 DEF CloseWriter, Handled
<1>7. CASE ForgetWriter(h) \/ KeepWriter(h)
    <2>1. handler[h].phase \in {"forget", "keep"} /\ Ends(h, "delete") /\ UNCHANGED <<org, orgs>>
        BY <1>7 DEF ForgetWriter, KeepWriter
    <2> QED
        BY <1>0, <2>1, HandlerSteps, <1>w DEF Ends, Free, HandlerPhases, AloneKnows
<1>8. CASE RequestFails(h)
    <2>1. handler[h].phase # "free" /\ settled' = "any" /\ org' \in Nat /\ orgs' \in Nat
        BY <1>0, <1>8 DEF RequestFails
    <2>2. \E phase \in HandlerPhases : handler' = [handler EXCEPT ![h] = [phase |-> phase, id |-> 0]]
        BY <1>8 DEF RequestFails, Handled, Free, HandlerPhases
    <2> QED
        BY <2>1, <2>2, HandlerSteps, <1>w
<1> QED
    BY <1>1, <1>2, <1>3, <1>4, <1>5, <1>6, <1>7, <1>8

LEMMA OrgKnownNext == OrgKnown /\ [StorerNext]_storerVars => OrgKnown'
<1> SUFFICES ASSUME OrgKnown, [StorerNext]_storerVars PROVE OrgKnown'
    OBVIOUS
<1>1. CASE Restarts(FALSE) \/ Restarts(TRUE)
    <2>1. /\ UNCHANGED <<org, orgBucket, orgs, writerId>> /\ handler' = [h \in Handlers |-> Free]
          /\ settled' = IF handler = handler' THEN settled ELSE "any"
        BY <1>1 DEF Restarts
    <2>2. handler' \in [Handlers -> [phase : HandlerPhases, id : Nat]] /\ \A h \in Handlers : handler'[h].phase = "free"
        BY <2>1 DEF Free, HandlerPhases
    <2> QED
        BY <2>1, <2>2 DEF OrgKnown, OrgFollowsTenancy
<1>2. CASE \/ Initialized \/ InfluxChanges \/ HealthCheck \/ Flushes \/ \E p \in Points : Writes(p)
           \/ StopsCallbacks \/ StopsConsumer \/ ClosesWriters \/ UNCHANGED storerVars
    BY <1>2, OrgKnownRests DEF Initialized, InfluxChanges, HealthCheck, Flushes, Writes, StopsCallbacks, StopsConsumer,
       ClosesWriters, storerVars, orgVars, dataVars, OrgRests
<1> QED
    BY <1>1, <1>2, ArrivesKnown, HandlersKnown DEF StorerNext

LEMMA OrgStep == OrgKnown /\ OrgTyped /\ [StorerNext]_storerVars => OrgTyped'
<1> SUFFICES ASSUME OrgKnown, OrgTyped, [StorerNext]_storerVars
             PROVE  OrgTyped'
    OBVIOUS
<1>0. org \in Nat /\ orgs \in Nat /\ handler \in [Handlers -> [phase : HandlerPhases, id : Nat]]
    BY DEF OrgKnown
<1>1. CASE UNCHANGED <<org, orgBucket, settled, handler>>
    BY <1>1 DEF OrgTyped
\* A handler goes to the step e, and nothing else that is known of the others changes.
<1>2. ASSUME NEW h \in Handlers, NEW e, handler' = [handler EXCEPT ![h] = e],
             e.phase \in {"hasBucket", "postBucket"} => e.id # 0,
             orgBucket' => org' # 0, settled' \in {"none", "alone", "any", "create", "delete"}
      PROVE  OrgTyped'
    <2>1. \A g \in Handlers : handler'[g] = IF g = h THEN e ELSE handler[g]
        BY <1>0, <1>2
    <2> QED
        BY <1>2, <2>1 DEF OrgTyped
<1>e. ASSUME NEW h \in Handlers, NEW what \in {"any", "create", "delete"}, Ends(h, what), orgBucket' => org' # 0
      PROVE  OrgTyped'
    <2>1. handler' = [handler EXCEPT ![h] = Free] /\ settled' \in {what, "any"} /\ Free.phase = "free"
        BY <1>e DEF Ends, Free
    <2> QED
        BY <1>2, <1>e, <2>1
<1>h. ASSUME NEW h \in Handlers, NEW phase, NEW id, Handled(h, phase, id),
             phase \in {"hasBucket", "postBucket"} => id # 0,
             orgBucket' => org' # 0, settled' \in {"none", "alone", "any", "create", "delete"}
      PROVE  OrgTyped'
    <2> DEFINE e == [phase |-> phase, id |-> id]
    <2>1. handler' = [handler EXCEPT ![h] = e] /\ e.phase = phase /\ e.id = id
        BY <1>h DEF Handled
    <2> HIDE DEF e
    <2> QED
        BY <1>2, <1>h, <2>1
<1>3. ASSUME NEW h \in Handlers, Arrives(h)
      PROVE  OrgTyped'
    <2>1. Handled(h, "create", 0) \/ Handled(h, "delete", 0)
        BY <1>3 DEF Arrives
    <2>2. UNCHANGED <<org, orgBucket>> /\ settled' \in {"alone", "any"}
        BY <1>3 DEF Arrives
    <2> QED
        BY <1>h, <2>1, <2>2 DEF OrgTyped
<1>4. ASSUME NEW h \in Handlers, GetOrg(h)
      PROVE  OrgTyped'
    <2>1. \/ Handled(h, IF org = 0 THEN "post" ELSE "hasBucket", org)
          \/ Handled(h, IF org = 0 THEN "close" ELSE "deleteOrg", org)
        BY <1>4 DEF GetOrg
    <2>2. UNCHANGED <<org, orgBucket, settled>>
        BY <1>4 DEF GetOrg, orgVars
    <2> QED
        BY <1>h, <2>1, <2>2 DEF OrgTyped
<1>5. ASSUME NEW h \in Handlers, PostOrg(h)
      PROVE  OrgTyped'
    <2>1. CASE org # 0
        <3>1. Ends(h, "any") /\ UNCHANGED <<org, orgBucket>>
            BY <1>5, <2>1 DEF PostOrg
        <3> QED
            BY <1>e, <2>1, <3>1
    <2>2. CASE org = 0
        <3>1. orgs' = orgs + 1 /\ org' = orgs' /\ orgBucket' = FALSE /\ Handled(h, "postBucket", org') /\ settled' = settled
            BY <1>5, <2>2 DEF PostOrg
        <3>2. org' # 0
            BY <1>0, <3>1
        <3> QED
            BY <1>h, <3>1, <3>2 DEF OrgTyped
    <2> QED
        BY <2>1, <2>2
<1>6. ASSUME NEW h \in Handlers, HasBucket(h)
      PROVE  OrgTyped'
    <2>1. UNCHANGED <<org, orgBucket>> /\ handler[h].id # 0
        BY <1>6 DEF HasBucket, OrgTyped
    <2>2. Ends(h, "create") \/ (Handled(h, "postBucket", handler[h].id) /\ settled' = settled)
        BY <1>6 DEF HasBucket
    <2> QED
        BY <1>e, <1>h, <2>1, <2>2 DEF OrgTyped
<1>7. ASSUME NEW h \in Handlers, PostBucket(h)
      PROVE  OrgTyped'
    <2>1. orgBucket' = (orgBucket \/ org = handler[h].id) /\ org' = org /\ handler[h].id # 0 /\ Ends(h, "create")
        BY <1>7 DEF PostBucket, OrgTyped
    <2> QED
        BY <1>e, <2>1 DEF OrgTyped
<1>8. ASSUME NEW h \in Handlers, DeleteOrg(h)
      PROVE  OrgTyped'
    <2>1. Handled(h, "close", 0) /\ settled' = settled /\ (orgBucket' => org' # 0)
        BY <1>8 DEF DeleteOrg, OrgTyped
    <2> QED
        BY <1>h, <2>1 DEF OrgTyped
<1>9. ASSUME NEW h \in Handlers, CloseWriter(h) \/ ForgetWriter(h) \/ KeepWriter(h)
      PROVE  OrgTyped'
    <2>1. \/ Ends(h, "delete")
          \/ \E phase \in {"forget", "keep"} : Handled(h, phase, writerId) /\ settled' = settled
        BY <1>9 DEF CloseWriter, ForgetWriter, KeepWriter
    <2>2. UNCHANGED <<org, orgBucket>>
        BY <1>9 DEF CloseWriter, ForgetWriter, KeepWriter
    <2> QED
        BY <1>e, <1>h, <2>1, <2>2 DEF OrgTyped
<1>10. ASSUME NEW h \in Handlers, RequestFails(h)
       PROVE  OrgTyped'
    <2>1. Handled(h, "close", 0) \/ handler' = [handler EXCEPT ![h] = Free]
        BY <1>10 DEF RequestFails
    <2>2. (orgBucket' => org' # 0) /\ settled' = "any" /\ Free.phase = "free"
        BY <1>0, <1>10 DEF RequestFails, Free, OrgTyped
    <2> QED
        BY <1>2, <1>h, <2>1, <2>2 DEF OrgTyped
<1>11. CASE Restarts(TRUE) \/ Restarts(FALSE)
    <2>1. handler' = [h \in Handlers |-> Free] /\ UNCHANGED <<org, orgBucket>> /\ settled' \in {settled, "any"}
        BY <1>11 DEF Restarts
    <2> QED
        BY <2>1 DEF OrgTyped, Free
<1>12. CASE \/ Initialized \/ InfluxChanges \/ HealthCheck \/ StopsCallbacks \/ StopsConsumer \/ ClosesWriters
            \/ Flushes \/ UNCHANGED storerVars \/ \E p \in Points : Writes(p)
    <2>1. UNCHANGED <<org, orgBucket, settled, handler>>
        BY <1>12 DEF Initialized, InfluxChanges, HealthCheck, StopsCallbacks, StopsConsumer, ClosesWriters, Flushes,
            Writes, storerVars, orgVars
    <2> QED
        BY <1>1, <2>1
<1> QED
    BY <1>3, <1>4, <1>5, <1>6, <1>7, <1>8, <1>9, <1>10, <1>11, <1>12 DEF StorerNext

\* What is flushed is stored, or is excused.
LEMMA FlushKeeps ==
    ASSUME PointsKnown, Flushed
    PROVE  buffer' = {} /\ lost' \subseteq excusedPoints
BY DEF Flushed, SendsPoints, Flushable, PointsKnown

LEMMA PointsKnownNext == PointsKnown /\ OrgKnown /\ OrgTyped /\ [StorerNext]_storerVars => PointsKnown'
<1> SUFFICES ASSUME PointsKnown, OrgKnown, OrgTyped, [StorerNext]_storerVars PROVE PointsKnown'
    OBVIOUS
<1> USE DEF PointsKnown
\* Nothing happens to the writer, and a removal begins or a bucket goes only if that is excused.
<1>1. ASSUME UNCHANGED <<writer, unclosed, buffer, orphans, lost>>, stage' = stage \/ (stage' # "closed" /\ stage # "closed"),
             excusedPoints \subseteq excusedPoints',
             \/ buffer \subseteq excusedPoints'
             \/ influxUp' /\ (orgBucket => orgBucket') /\ (Removing' => Removing)
      PROVE  PointsKnown'
    BY <1>1
<1>2. CASE Initialized \/ HealthCheck \/ StopsCallbacks \/ StopsConsumer \/ UNCHANGED storerVars
    <2>1. UNCHANGED <<dataVars, orgBucket, influxUp, handler, excusedPoints>>
        BY <1>2 DEF Initialized, HealthCheck, StopsCallbacks, StopsConsumer, storerVars, orgVars, healthVars
    <2>2. stage' = stage \/ (stage' # "closed" /\ stage # "closed")
        BY <1>2 DEF Initialized, HealthCheck, StopsCallbacks, StopsConsumer, storerVars
    <2>3. Removing' <=> Removing
        BY <2>1 DEF Removing
    <2> QED
        BY <2>1, <2>2, <2>3 DEF dataVars
<1>3. CASE InfluxChanges
    BY <1>1, <1>3 DEF InfluxChanges, dataVars
<1>4. CASE Flushes
    <2>1. UNCHANGED <<stage, writer, unclosed, influxUp, orgBucket, handler, excusedPoints>>
        BY <1>4 DEF Flushes, healthVars, orgVars
    <2>2. Removing' <=> Removing
        BY <2>1 DEF Removing
    <2>3. CASE Flushed /\ UNCHANGED orphans
        BY <2>1, <2>3, FlushKeeps
    <2>4. CASE orphans' = {} /\ SendsPoints(orphans) /\ UNCHANGED buffer
        BY <2>1, <2>2, <2>4 DEF SendsPoints
    <2> QED
        BY <1>4, <2>3, <2>4 DEF Flushes
<1>5. CASE ClosesWriters
    BY <1>5, FlushKeeps DEF ClosesWriters
<1>6. ASSUME NEW killed \in BOOLEAN, Restarts(killed)
      PROVE  PointsKnown'
    <2>1. /\ stage' = "init" /\ writer' = "none" /\ buffer' = {} /\ orphans' = {}
          /\ lost' = lost \cup buffer \cup orphans
          /\ excusedPoints' = (IF killed THEN excusedPoints \cup buffer ELSE excusedPoints)
          /\ ~killed => stage = "closed"
        BY <1>6 DEF Restarts
    <2> QED
        BY <2>1
<1>7. ASSUME NEW p \in Points, Writes(p)
      PROVE  PointsKnown'
    <2>1. /\ stage # "closed" /\ UNCHANGED <<stage, unclosed, orphans, influxUp, orgBucket, handler>>
          /\ excusedPoints' = IF AtRisk THEN excusedPoints \cup {p} ELSE excusedPoints
        BY <1>7 DEF Writes, healthVars, orgVars
    <2>2. Removing' <=> Removing
        BY <2>1 DEF Removing
    <2>3. CASE writer = "closed"
        BY <1>7, <2>1, <2>2, <2>3 DEF Writes, AtRisk
    <2>4. CASE writer # "closed"
        BY <1>7, <2>1, <2>2, <2>4 DEF Writes, AtRisk
    <2> QED
        BY <2>3, <2>4
\* A handler goes on: it is one of a removal only if it was.
<1>8. ASSUME NEW h \in Handlers, NEW phase, NEW id, handler' = [handler EXCEPT ![h] = [phase |-> phase, id |-> id]],
             phase \in {"delete", "deleteOrg", "close", "forget", "keep"} => Removing
      PROVE  Removing' => Removing
    BY <1>8 DEF OrgKnown, Removing
<1>9. ASSUME NEW h \in Handlers, Arrives(h)
      PROVE  PointsKnown'
    <2>1. /\ UNCHANGED <<stage, influxUp, dataVars, orgBucket>>
          /\ excusedPoints' = IF handler'[h].phase = "delete" THEN excusedPoints \cup buffer ELSE excusedPoints
        BY <1>9 DEF Arrives, healthVars
    <2>2. handler' = [handler EXCEPT ![h] = [phase |-> "create", id |-> 0]] \/ handler'[h].phase = "delete"
        BY <1>9 DEF Arrives, Handled, OrgKnown
    <2>3. (Removing' => Removing) \/ buffer \subseteq excusedPoints'
        BY <1>8, <2>1, <2>2
    <2> QED
        BY <1>1, <2>1, <2>3 DEF dataVars
<1>10. ASSUME NEW h \in Handlers, GetOrg(h) \/ PostOrg(h) \/ HasBucket(h) \/ PostBucket(h) \/ DeleteOrg(h) \/ RequestFails(h)
       PROVE  PointsKnown'
    <2>1. UNCHANGED <<stage, dataVars, influxUp, excusedPoints>>
        BY <1>10 DEF GetOrg, PostOrg, HasBucket, PostBucket, DeleteOrg, RequestFails, healthVars
    <2>2. CASE handler[h].phase \in {"delete", "deleteOrg"}
        BY <1>1, <2>1, <2>2 DEF Removing, dataVars
    <2>3. CASE handler[h].phase \notin {"delete", "deleteOrg"}
        <3>1. orgBucket => orgBucket'
            BY <1>10, <2>3 DEF GetOrg, PostOrg, HasBucket, PostBucket, DeleteOrg, RequestFails, orgVars, OrgTyped
        <3>2. \E phase, id : /\ handler' = [handler EXCEPT ![h] = [phase |-> phase, id |-> id]]
                             /\ phase \notin {"delete", "deleteOrg", "close", "forget", "keep"}
            BY <1>10, <2>3 DEF GetOrg, PostOrg, HasBucket, PostBucket, DeleteOrg, RequestFails, Handled, Ends, Free
        <3>3. Removing' => Removing
            BY <1>8, <3>2
        <3> QED
            BY <1>1, <2>1, <3>1, <3>3 DEF dataVars
    <2> QED
        BY <2>2, <2>3
<1>11. ASSUME NEW h \in Handlers, CloseWriter(h) \/ ForgetWriter(h) \/ KeepWriter(h)
       PROVE  PointsKnown'
    <2>1. buffer \subseteq excusedPoints /\ UNCHANGED <<stage, excusedPoints>>
        BY <1>11 DEF CloseWriter, ForgetWriter, KeepWriter, Removing
    <2>2. CASE CloseWriter(h)
        BY <2>1, <2>2, FlushKeeps DEF CloseWriter
    <2>3. CASE ForgetWriter(h)
        BY <2>1, <2>3 DEF ForgetWriter
    <2>4. CASE KeepWriter(h)
        BY <2>1, <2>4 DEF KeepWriter
    <2> QED
        BY <1>11, <2>2, <2>3, <2>4
<1> QED
    BY <1>2, <1>3, <1>4, <1>5, <1>6, <1>7, <1>9, <1>10, <1>11 DEF StorerNext

\* What is consumed is kept until it is written, the registrations follow the health of InfluxDB, and the
\* organisation the tenant, for any points, handlers of events, events and faults.
THEOREM PointsStayKept == StorerSpec => []PointsAreKept
<1>1. StorerInv => PointsAreKept
    BY DEF StorerInv, CallbacksKnown, OrgKnown, PointsKnown, PointsAreKept, StorerConsistent, CallbacksFollowHealth,
       PointsSurviveShutdown
<1>2. StorerInv /\ [StorerNext]_storerVars => StorerInv'
    BY CallbacksKnownNext, OrgKnownNext, OrgStep, PointsKnownNext DEF StorerInv
<1> QED
    BY <1>1, <1>2, StorerInvInit, PTL DEF StorerSpec

-----------------------------------------------------------------------------
(* kafka2ftp: types *)

\* What FtpInv leaves out: the connection that was taken last, the connections that are up, the server.
FtpRest ==
    /\ currentIndex \in Pool \cup {1, Unset} /\ isSending \subseteq Pool /\ connected \subseteq Pool
    /\ onServer \in [FtpFiles -> {"none", "whole", "empty"}] /\ ftpFaults \in 0..MaxFtpFaults

LEMMA FtpRestInit == FtpInit => FtpRest
BY FtpAssumption DEF FtpInit, FtpRest

LEMMA NextIndexTyped == FtpRest => NextIndex \in Pool \cup {1, Unset}
BY FtpAssumption DEF FtpRest, NextIndex, Pool, Unset

\* An upload that sends or waits to send again has one of the connections.
LEMMA FtpRestStep == FtpInv /\ FtpRest /\ [FtpNext]_ftpVars => FtpRest'
<1> SUFFICES ASSUME FtpInv, FtpRest, [FtpNext]_ftpVars
             PROVE  FtpRest'
    OBVIOUS
<1>f. FtpFails => ftpFaults' \in 0..MaxFtpFaults
    BY FtpAssumption DEF FtpFails, FtpRest
<1>p. UNCHANGED <<Pool, Unset>>
    BY DEF Pool, Unset
<1>1. ASSUME NEW c \in Pool, Connects(c) \/ Drops(c)
      PROVE  FtpRest'
    BY <1>f, <1>1, <1>p DEF Connects, Drops, FtpRest
<1>2. ASSUME NEW f \in FtpFiles, HandlesFile(f)
      PROVE  FtpRest'
    BY <1>2, <1>p DEF HandlesFile, FtpRest
<1>3. ASSUME NEW f \in FtpFiles, Takes(f)
      PROVE  FtpRest'
    <2>1. currentIndex' \in Pool \cup {1, Unset} /\ isSending' \subseteq Pool
        BY <1>3, NextIndexTyped DEF Takes, FtpRest
    <2>2. UNCHANGED <<connected, onServer, ftpFaults>>
        BY <1>3 DEF Takes
    <2> QED
        BY <1>p, <2>1, <2>2 DEF FtpRest
<1>4. ASSUME NEW f \in FtpFiles, SendsFile(f) \/ Reconnects(f)
      PROVE  FtpRest'
    <2>1. transfer[f].conn \in Pool
        BY <1>4 DEF FtpInv, Uploading, SendsFile, Reconnects
    <2>2. isSending' \subseteq isSending /\ connected' \subseteq connected \cup {transfer[f].conn}
        BY <1>4 DEF SendsFile, Reconnects, Settles
    <2>3. onServer' = onServer \/ onServer' = [onServer EXCEPT ![f] = Content(f)]
        BY <1>4 DEF SendsFile, Reconnects
    <2>4. ftpFaults' = ftpFaults \/ FtpFails
        BY <1>4 DEF SendsFile, Reconnects
    <2>5. currentIndex' = currentIndex
        BY <1>4 DEF SendsFile, Reconnects
    <2>6. onServer' \in [FtpFiles -> {"none", "whole", "empty"}]
        BY <2>3 DEF FtpRest, Content
    <2> QED
        BY <1>f, <1>p, <2>1, <2>2, <2>4, <2>5, <2>6 DEF FtpRest
<1>5. CASE Dies
    BY <1>f, <1>5, <1>p DEF Dies, FtpRest
<1>6. CASE UNCHANGED ftpVars
    BY <1>6, <1>p DEF ftpVars, FtpRest
<1> QED
    BY <1>1, <1>2, <1>3, <1>4, <1>5, <1>6 DEF FtpNext

LEMMA FtpTypeFromInv == FtpInv /\ FtpRest => FtpTypeOK
BY DEF FtpInv, FtpRest, FtpTypeOK, Transfer

\* The rotation never leaves the pool, but for the one connection it begins with and may not have, and an
\* upload that is tried again never holds a connection the pool does not have (FTPClient.ts).
THEOREM FtpTypeCorrect == FtpSpec => []FtpTypeOK
BY FtpInvInit, FtpInvNext, FtpRestInit, FtpRestStep, FtpTypeFromInv, PTL DEF FtpSpec

-----------------------------------------------------------------------------
(* telegraf: types *)

\* The consumers are numbered by the refreshes; a mark is of a message of its partition.
TelegrafRest ==
    /\ refreshes \in 0..MaxRefreshes /\ consumer = refreshes + 1
    /\ open \subseteq 1..consumer /\ consuming \in 0..consumer
    /\ fetched \in [Partitions -> 0..MaxOffset] /\ marked \in [Partitions -> 0..MaxOffset]
    /\ undelivered \subseteq Partitions \X (1..MaxOffset)
    /\ sessions \in 0..MaxSessions /\ stopping \in BOOLEAN

LEMMA TelegrafRestInit == TelegrafInit => TelegrafRest
<1> SUFFICES ASSUME TelegrafInit
             PROVE  TelegrafRest
    OBVIOUS
<1>1. stopping \in BOOLEAN
    BY DEF TelegrafInit
<1>2. /\ consumer = 1 /\ open = {1} /\ consuming = 0 /\ sessions = 0 /\ refreshes = 0 /\ undelivered = {}
      /\ fetched = [p \in Partitions |-> 0] /\ marked = [p \in Partitions |-> 0]
    BY DEF TelegrafInit
<1> QED
    BY <1>1, <1>2, TelegrafAssumption DEF TelegrafRest

LEMMA TelegrafRestStep == TelegrafRest /\ [TelegrafNext]_telegrafVars => TelegrafRest'
<1> SUFFICES ASSUME TelegrafRest, [TelegrafNext]_telegrafVars
             PROVE  TelegrafRest'
    OBVIOUS
<1> USE TelegrafAssumption DEF TelegrafRest, loopVars, marks
<1>1. CASE OpensSession
    BY <1>1 DEF OpensSession
<1>2. CASE ClosesSession \/ ClosesConsumer \/ Stops
    <2>1. stopping' = stopping \/ stopping' = TRUE
        BY <1>2 DEF ClosesSession, ClosesConsumer, Stops
    <2>2. stopping' \in BOOLEAN
        BY <2>1
    <2>3. /\ open' \subseteq open /\ consuming' \in {0, consuming} /\ undelivered' \subseteq undelivered
          /\ UNCHANGED <<consumer, refreshes, fetched, marked, sessions>>
        BY <1>2 DEF ClosesSession, ClosesConsumer, Stops
    <2> QED
        BY <2>2, <2>3
<1>3. CASE Refreshes
    BY <1>3 DEF Refreshes
<1>4. ASSUME NEW p \in Partitions, ClaimReturns(p) \/ Reserves(p)
      PROVE  TelegrafRest'
    BY <1>4 DEF ClaimReturns, Reserves
<1>5. ASSUME NEW p \in Partitions, HandlesMessage(p)
      PROVE  TelegrafRest'
    <2>1. fetched[p] + 1 \in 1..MaxOffset
        BY <1>5 DEF HandlesMessage
    <2>2. fetched' \in [Partitions -> 0..MaxOffset]
        BY <1>5, <2>1 DEF HandlesMessage
    <2>3. marked' \in [Partitions -> 0..MaxOffset]
        BY <1>5, <2>1 DEF HandlesMessage
    <2>4. undelivered' \subseteq Partitions \X (1..MaxOffset)
        BY <1>5, <2>1 DEF HandlesMessage
    <2> QED
        BY <1>5, <2>2, <2>3, <2>4 DEF HandlesMessage
<1>6. ASSUME NEW m \in undelivered, Delivers(m)
      PROVE  TelegrafRest'
    <2>1. marked' \in [Partitions -> 0..MaxOffset]
        BY <1>6 DEF Delivers
    <2> QED
        BY <1>6, <2>1 DEF Delivers
<1>7. CASE UNCHANGED telegrafVars
    BY <1>7 DEF telegrafVars
<1> QED
    BY <1>1, <1>2, <1>3, <1>4, <1>5, <1>6, <1>7 DEF TelegrafNext

LEMMA TelegrafTypeFromInv == SlotsInv /\ TelegrafRest => TelegrafTypeOK
BY TelegrafAssumption DEF SlotsInv, TelegrafRest, TelegrafTypeOK

\* The semaphore never goes below zero nor over its size, and what is marked was fetched from its
\* partition, over sessions, refreshes of the topics and the end of the plugin (consumer.go).
THEOREM TelegrafTypeCorrect == TelegrafSpec => []TelegrafTypeOK
BY SlotsInvInit, SlotsInvNext, TelegrafRestInit, TelegrafRestStep, TelegrafTypeFromInv, PTL DEF TelegrafSpec

-----------------------------------------------------------------------------
(* telegraf outputs: types *)

\* What CreatorInv and WriterInv leave out.
OutputsRest ==
    /\ orgId \in BOOLEAN
    /\ organizations \subseteq Organizations /\ withBucket \subseteq Organizations
    /\ unkept \subseteq DOMAIN OrgOf
    /\ server \in Servers /\ untried \subseteq Servers /\ backingOff \subseteq Servers
    /\ outputFaults \in 0..MaxOutputFaults

LEMMA OutputsRestInit == OutputsInit => OutputsRest
<1> SUFFICES ASSUME OutputsInit
             PROVE  OutputsRest
    OBVIOUS
<1>1. orgId \in BOOLEAN
    BY DEF OutputsInit
<1> QED
    BY <1>1, OutputsAssumption DEF OutputsInit, OutputsRest

LEMMA OutputsRestStep == CreatorInv /\ WriterInv /\ OutputsRest /\ [OutputsNext]_outputVars => OutputsRest'
<1> SUFFICES ASSUME CreatorInv, WriterInv, OutputsRest, [OutputsNext]_outputVars
             PROVE  OutputsRest'
    OBVIOUS
<1> USE DEF influx, creatorVars, writerVars
<1>f. Faulted => outputFaults' \in 0..MaxOutputFaults
    BY OutputsAssumption DEF Faulted, OutputsRest
<1>0. creating # 0 => told[creating] \in Organizations
    BY DEF CreatorInv
<1>1. ASSUME NEW o \in Organizations, IsTold(o)
      PROVE  OutputsRest'
    BY <1>1 DEF IsTold, OutputsRest
<1>2. CASE CreatorWrites \/ FindsConflict
    BY <1>2 DEF CreatorWrites, FindsConflict, OutputsRest
<1>3. CASE CreatesOrg
    <2>1. orgId' \in BOOLEAN
        BY <1>3 DEF CreatesOrg, OutputsRest
    <2>2. organizations' \subseteq Organizations /\ (outputFaults' = outputFaults \/ Faulted)
        BY <1>0, <1>3 DEF CreatesOrg, OutputsRest
    <2>3. UNCHANGED <<withBucket, unkept, writerVars>>
        BY <1>3 DEF CreatesOrg
    <2> QED
        BY <1>f, <2>1, <2>2, <2>3 DEF OutputsRest
<1>4. CASE CreatesBucket
    <2>1. orgId' \in BOOLEAN
        BY <1>4 DEF CreatesBucket
    <2>2. withBucket' \subseteq Organizations /\ (outputFaults' = outputFaults \/ Faulted)
        BY <1>0, <1>4 DEF CreatesBucket, OutputsRest
    <2>3. UNCHANGED <<organizations, unkept, writerVars>>
        BY <1>4 DEF CreatesBucket
    <2> QED
        BY <1>f, <2>1, <2>2, <2>3 DEF OutputsRest
<1>5. CASE MetricArrives \/ WriteBegins \/ GivesUp
    BY <1>5 DEF MetricArrives, WriteBegins, GivesUp, OutputsRest
<1>6. ASSUME NEW s \in Servers, TriesServer(s) \/ RetryTimeComes(s)
      PROVE  OutputsRest'
    BY <1>6 DEF TriesServer, RetryTimeComes, OutputsRest
<1>7. ASSUME NEW o, NEW ms \in SUBSET Batch, Accepted(ms, o)
      PROVE  unkept' \subseteq DOMAIN OrgOf /\ outputFaults' \in 0..MaxOutputFaults
    <2>1. ms \subseteq DOMAIN OrgOf
        BY BatchTypes
    <2>2. unkept' \subseteq unkept \cup ms
        BY <1>7 DEF Accepted
    <2>3. outputFaults' = outputFaults \/ Faulted
        BY <1>7 DEF Accepted
    <2> QED
        BY <1>f, <2>1, <2>2, <2>3 DEF OutputsRest
<1>8. ASSUME NEW o, NEW ms \in SUBSET Batch, Refused(ms, o)
      PROVE  unkept' \subseteq DOMAIN OrgOf /\ outputFaults' \in 0..MaxOutputFaults /\ backingOff' \subseteq Servers
    <2>1. unkept' = unkept /\ Faulted /\ backingOff' \subseteq backingOff \cup {server}
        BY <1>8 DEF Refused
    <2> QED
        BY <1>f, <2>1 DEF OutputsRest
<1>9. ASSUME NEW o \in Organizations, WritesOrganization(o)
      PROVE  OutputsRest'
    <2>1. UNCHANGED <<orgId, organizations, withBucket, server, untried>>
        BY <1>9 DEF WritesOrganization
    <2>2. InBatch(o) \in SUBSET Batch /\ Batch \subseteq DOMAIN OrgOf
        BY BatchTypes DEF InBatch
    <2>3. CASE Accepted(InBatch(o), o) /\ UNCHANGED backingOff
        BY <1>7, <2>1, <2>2, <2>3 DEF OutputsRest
    <2>4. CASE Refused(InBatch(o), o)
        BY <1>8, <2>1, <2>2, <2>4 DEF OutputsRest
    <2>5. ASSUME Faulted, NEW late \in SUBSET Batch, unkept' = unkept \cup late, UNCHANGED backingOff
          PROVE  OutputsRest'
        BY <1>f, <2>1, <2>2, <2>5 DEF OutputsRest
    <2>6. Late(o) \in SUBSET Batch /\ {m \in Batch : OrgOf[m] \in left} \in SUBSET Batch
        BY DEF Late
    <2> QED
        BY <1>9, <2>3, <2>4, <2>5, <2>6 DEF WritesOrganization
<1>10. ASSUME NEW o \in Organizations, WritesHalf(o)
       PROVE  OutputsRest'
    <2> DEFINE ms == IF flushing = "first half" THEN (delivered + 1)..Midpoint ELSE (Midpoint + 1)..lastMetric
    <2>1. UNCHANGED <<orgId, organizations, withBucket, server, untried>>
        BY <1>10 DEF WritesHalf
    <2>2. ms \in SUBSET Batch
        <3>1. delivered < lastMetric /\ delivered \in Nat /\ lastMetric \in Nat
            BY <1>10, BatchTypes DEF WritesHalf, WriterInv
        <3>2. Midpoint \in Nat /\ delivered <= Midpoint /\ Midpoint <= lastMetric
            BY <3>1, Halved DEF Midpoint
        <3>3. (delivered + 1)..Midpoint \subseteq Batch /\ (Midpoint + 1)..lastMetric \subseteq Batch
            <4> DEFINE n == Midpoint
            <4>1. n \in Nat /\ delivered <= n /\ n <= lastMetric
                BY <3>2
            <4> HIDE DEF n
            <4>2. \A i \in Int : /\ i \in (delivered + 1)..n => i \in (delivered + 1)..lastMetric
                                 /\ i \in (n + 1)..lastMetric => i \in (delivered + 1)..lastMetric
                BY <3>1, <4>1
            <4> QED
                BY <4>2 DEF Batch, n
        <3> QED
            BY <3>3
    <2>3. (Accepted(ms, o) /\ UNCHANGED backingOff) \/ Refused(ms, o)
        BY <1>10 DEF WritesHalf
    <2> HIDE DEF ms
    <2> QED
        BY <1>7, <1>8, <2>1, <2>2, <2>3 DEF OutputsRest
<1>11. CASE UNCHANGED outputVars
    BY <1>11 DEF outputVars, OutputsRest
<1> QED
    BY <1>1, <1>2, <1>3, <1>4, <1>5, <1>6, <1>9, <1>10, <1>11 DEF OutputsNext

LEMMA OutputsTypeFromInv == CreatorInv /\ WriterInv /\ OutputsRest => OutputsTypeOK
BY DEF CreatorInv, WriterInv, OutputsRest, OutputsTypeOK

\* What is refused or cut short is a metric of the batch, in both halves of a batch that is split too, and
\* what is written is in an organization of a tenant (influxdb_vdojot, dojot_organization_creator).
THEOREM OutputsTypeCorrect == OutputsSpec => []OutputsTypeOK
BY OutputsInvInit, CreatorInvNext, WriterInvNext, OutputsRestInit, OutputsRestStep, OutputsTypeFromInv,
   PTL DEF OutputsSpec

-----------------------------------------------------------------------------
(* report-manager: types *)

\* What ReportsInv leaves out: the tenancy, and the sets of reports.
TenancyTyped ==
    /\ start \in {"consuming", "updating", "serving"}
    /\ snapshot \in BOOLEAN /\ inList \in BOOLEAN /\ admits \in BOOLEAN /\ captive \in BOOLEAN
    /\ schema \in BOOLEAN /\ dropped \in BOOLEAN
TurnsTyped ==
    /\ turns \in 0..MaxEvents /\ taken \in 0..turns /\ (dropped => taken < turns)
    /\ wipes \in Nat /\ 2 * wipes <= turns
ReportsRest ==
    /\ TenancyTyped /\ TurnsTyped
    /\ storedFiles \subseteq Reports /\ wiped \subseteq Reports /\ again \subseteq Reports /\ erasing \subseteq Reports
    /\ reportFaults \in 0..MaxReportFaults

LEMMA ReportsRestInit == ReportsInit => ReportsRest
<1> SUFFICES ASSUME ReportsInit
             PROVE  ReportsRest
    OBVIOUS
<1>1. TenancyTyped
    BY DEF ReportsInit, TenancyTyped
<1>2. TurnsTyped
    BY ReportsAssumption DEF ReportsInit, TurnsTyped
<1> QED
    BY <1>1, <1>2, ReportsAssumption DEF ReportsInit, ReportsRest

\* Each flag of the tenancy stays, or is given a truth value.
LEMMA TenancyStep == TenancyTyped /\ [ReportsNext]_reportVars => TenancyTyped'
<1> SUFFICES ASSUME TenancyTyped, [ReportsNext]_reportVars
             PROVE  TenancyTyped'
    OBVIOUS
<1>1. CASE UNCHANGED <<start, snapshot, inList, admits, captive, schema, dropped>>
    BY <1>1 DEF TenancyTyped
<1>2. CASE CreatesTenant
    <2>1. UNCHANGED <<start, snapshot, captive, dropped>>
        BY <1>2 DEF CreatesTenant
    <2>2. schema' = TRUE \/ schema' = schema
        BY <1>2 DEF CreatesTenant
    <2>3. inList' = TRUE \/ inList' = inList
        BY <1>2 DEF CreatesTenant
    <2>4. admits' = (admits \/ captive) \/ admits' = admits
        BY <1>2 DEF CreatesTenant
    <2>5. admits' \in BOOLEAN
        BY <2>4 DEF TenancyTyped
    <2> QED
        BY <2>1, <2>2, <2>3, <2>5 DEF TenancyTyped
<1>3. CASE DropsSchema
    <2>1. UNCHANGED <<start, snapshot, inList, admits, captive>>
        BY <1>3 DEF DropsSchema
    <2>2. schema' = FALSE \/ schema' = schema
        BY <1>3 DEF DropsSchema
    <2>3. dropped' = TRUE \/ dropped' = dropped
        BY <1>3 DEF DropsSchema
    <2> QED
        BY <2>1, <2>2, <2>3 DEF TenancyTyped
<1>4. CASE ForgetsTenant
    <2>1. UNCHANGED <<start, snapshot, admits, schema>> /\ dropped' = FALSE /\ inList' = FALSE /\ captive' = FALSE
        BY <1>4 DEF ForgetsTenant
    <2> QED
        BY <2>1 DEF TenancyTyped
<1>5. CASE AsksTenants
    <2>1. start' = "updating" /\ snapshot' = TenantExists /\ UNCHANGED <<inList, admits, captive, schema, dropped>>
        BY <1>5 DEF AsksTenants
    <2>2. snapshot' \in BOOLEAN
        BY <2>1 DEF TenantExists
    <2> QED
        BY <2>1, <2>2 DEF TenancyTyped
<1>6. CASE Updates
    <2>1. start' = "serving" /\ inList' = snapshot /\ admits' = snapshot /\ captive' = TRUE /\ UNCHANGED <<snapshot, dropped>>
        BY <1>6 DEF Updates
    <2>2. schema' = (schema \/ snapshot) \/ schema' = schema
        BY <1>6 DEF Updates
    <2>3. schema' \in BOOLEAN
        BY <2>2 DEF TenancyTyped
    <2> QED
        BY <2>1, <2>3 DEF TenancyTyped
<1>7. CASE \/ TenantTurns \/ UNCHANGED reportVars
           \/ \E r \in Reports : CreatesReport(r) \/ DeletesReport(r) \/ Erases(r)
           \/ \E w \in Workers : \/ \E r \in Reports : Begins(w, r)
                                 \/ MakesFile(w) \/ UploadsFile(w) \/ Finishes(w) \/ Records(w) \/ Catches(w) \/ Stalls(w)
           \/ WipesFiles
    <2>1. UNCHANGED <<start, snapshot, inList, admits, captive, schema, dropped>>
        BY <1>7 DEF TenantTurns, WipesFiles, reportVars, CreatesReport, DeletesReport, Erases, Begins, MakesFile, UploadsFile,
            Finishes, Records, Catches, Stalls, tenancyState
    <2> QED
        BY <1>1, <2>1
<1> QED
    BY <1>2, <1>3, <1>4, <1>5, <1>6, <1>7 DEF ReportsNext

\* An event is handled after it is published, the one whose schema is dropped too.
LEMMA TurnsStep == TurnsTyped /\ [ReportsNext]_reportVars => TurnsTyped'
<1> SUFFICES ASSUME TurnsTyped, [ReportsNext]_reportVars
             PROVE  TurnsTyped'
    OBVIOUS
<1>1. CASE UNCHANGED <<turns, taken, dropped, wipes>>
    BY <1>1 DEF TurnsTyped
<1>2. CASE TenantTurns
    BY <1>2, ReportsAssumption DEF TenantTurns, TurnsTyped, bucketVars
<1>3. CASE CreatesTenant
    <2>1. ~dropped /\ dropped' = dropped /\ taken < turns /\ taken' = taken + 1 /\ UNCHANGED <<turns, wipes>>
        BY <1>3 DEF CreatesTenant, bucketVars
    <2> QED
        BY <2>1, ReportsAssumption DEF TurnsTyped
<1>4. CASE DropsSchema
    <2>1. /\ ~dropped /\ taken < turns /\ UNCHANGED <<turns, wipes>>
          /\ \/ taken' = taken
             \/ taken' = taken + 1 /\ dropped' = dropped
        BY <1>4 DEF DropsSchema, bucketVars
    <2> QED
        BY <2>1, ReportsAssumption DEF TurnsTyped
<1>5. CASE ForgetsTenant
    <2>1. dropped /\ ~dropped' /\ taken' = taken + 1 /\ UNCHANGED <<turns, wipes>>
        BY <1>5 DEF ForgetsTenant, bucketVars
    <2> QED
        BY <2>1, ReportsAssumption DEF TurnsTyped
<1>6. CASE \/ AsksTenants \/ Updates \/ UNCHANGED reportVars
           \/ \E r \in Reports : CreatesReport(r) \/ DeletesReport(r) \/ Erases(r)
           \/ \E w \in Workers : \/ \E r \in Reports : Begins(w, r)
                                 \/ MakesFile(w) \/ UploadsFile(w) \/ Finishes(w) \/ Records(w) \/ Catches(w) \/ Stalls(w)
    <2>1. UNCHANGED <<turns, taken, dropped, wipes>>
        BY <1>6 DEF bucketVars, AsksTenants, Updates, reportVars, CreatesReport, DeletesReport, Erases, Begins, MakesFile,
            UploadsFile, Finishes, Records, Catches, Stalls, tenancyState
    <2> QED
        BY <1>1, <2>1
<1>7. CASE WipesFiles
    <2>1. 2 * (wipes + 1) <= turns /\ wipes' = wipes + 1 /\ UNCHANGED <<turns, taken, dropped>>
        BY <1>7 DEF WipesFiles, tenancyState
    <2> QED
        BY <2>1 DEF TurnsTyped
<1> QED
    BY <1>2, <1>3, <1>4, <1>5, <1>6, <1>7 DEF ReportsNext

LEMMA ReportsRestStep == ReportsInv /\ ReportsRest /\ [ReportsNext]_reportVars => ReportsRest'
<1> SUFFICES ASSUME ReportsInv, ReportsRest, [ReportsNext]_reportVars
             PROVE  ReportsRest'
    OBVIOUS
<1>1. TenancyTyped' /\ TurnsTyped'
    BY TenancyStep, TurnsStep DEF ReportsRest
<1>2. Faulty => reportFaults' \in 0..MaxReportFaults
    BY ReportsAssumption DEF Faulty, ReportsRest
<1>3. ASSUME storedFiles' \subseteq Reports, wiped' \subseteq Reports, again' \subseteq Reports, erasing' \subseteq Reports,
             reportFaults' = reportFaults \/ Faulty
      PROVE  ReportsRest'
    BY <1>1, <1>2, <1>3 DEF ReportsRest
<1>4. CASE TenantTurns \/ CreatesTenant \/ DropsSchema \/ ForgetsTenant \/ AsksTenants \/ Updates
           \/ UNCHANGED reportVars
    <2>1. UNCHANGED <<storedFiles, wiped, again, erasing>> /\ (reportFaults' = reportFaults \/ Faulty)
        BY <1>4 DEF TenantTurns, CreatesTenant, DropsSchema, ForgetsTenant, AsksTenants, Updates, reportVars, queueVars,
                    bucketVars
    <2> QED
        BY <1>3, <2>1 DEF ReportsRest
<1>7. CASE WipesFiles
    <2>1. /\ storedFiles' \subseteq storedFiles /\ wiped' \subseteq wiped \cup storedFiles
          /\ UNCHANGED <<again, erasing, reportFaults>>
        BY <1>7 DEF WipesFiles, queueVars
    <2> QED
        BY <1>3, <2>1 DEF ReportsRest
<1>5. ASSUME NEW r \in Reports, CreatesReport(r) \/ DeletesReport(r) \/ Erases(r)
      PROVE  ReportsRest'
    <2>1. /\ storedFiles' \subseteq storedFiles /\ UNCHANGED <<wiped, again>> /\ erasing' \subseteq erasing \cup {r}
          /\ reportFaults' = reportFaults \/ Faulty
        BY <1>5 DEF CreatesReport, DeletesReport, Erases, queueVars, bucketVars
    <2> QED
        BY <1>3, <2>1 DEF ReportsRest
<1>6. ASSUME NEW w \in Workers, \/ \E r \in Reports : Begins(w, r)
                                \/ MakesFile(w) \/ UploadsFile(w) \/ Finishes(w) \/ Records(w) \/ Catches(w) \/ Stalls(w)
      PROVE  ReportsRest'
    <2>1. /\ storedFiles' = storedFiles \/ (~At(w, "idle") /\ storedFiles' = storedFiles \cup {Report(w)})
          /\ again' = again \/ (~At(w, "idle") /\ again' = again \cup {Report(w)})
          /\ UNCHANGED <<wiped, erasing>> /\ (reportFaults' = reportFaults \/ Faulty)
        BY <1>6 DEF Begins, MakesFile, UploadsFile, Finishes, Records, Catches, Stalls, At, bucketVars
    <2>2. ~At(w, "idle") => Report(w) \in Reports
        BY DEF ReportsInv
    <2> QED
        BY <1>3, <2>1, <2>2 DEF ReportsRest
<1> QED
    BY <1>4, <1>5, <1>6, <1>7 DEF ReportsNext

LEMMA ReportsTypeFromInv == ReportsInv /\ ReportsRest => ReportsTypeOK
<1> SUFFICES ASSUME ReportsInv, ReportsRest
             PROVE  ReportsTypeOK
    OBVIOUS
<1>1. {snapshot, inList, admits, captive, schema, dropped} \subseteq BOOLEAN
    <2>1. /\ snapshot \in BOOLEAN /\ inList \in BOOLEAN /\ admits \in BOOLEAN /\ captive \in BOOLEAN
          /\ schema \in BOOLEAN /\ dropped \in BOOLEAN
        BY DEF ReportsRest, TenancyTyped
    <2> QED
        BY <2>1
<1>2. start \in {"consuming", "updating", "serving"}
    BY DEF ReportsRest, TenancyTyped
<1>3. turns \in 0..MaxEvents /\ taken \in 0..turns /\ wipes \in Nat /\ 2 * wipes <= turns
    BY DEF ReportsRest, TurnsTyped
<1>4. /\ worker \in [Workers -> [report : Reports \cup {NoReport},
                                 step : {"idle", "data", "upload", "finish", "record", "catch"}]]
      /\ job \in [Reports -> {"none", "waiting", "active", "completed", "failed"}]
      /\ attempted \in [Reports -> SUBSET {"finished", "failed"}]
      /\ recorded \subseteq rows /\ rows \subseteq Reports
    BY DEF ReportsInv, Job
<1>5. {storedFiles, wiped, again, erasing} \subseteq SUBSET Reports /\ reportFaults \in 0..MaxReportFaults
    BY DEF ReportsRest
<1> QED
    BY <1>1, <1>2, <1>3, <1>4, <1>5 DEF ReportsTypeOK

\* No event of the tenant is handled twice, a file, a stalled job or a deletion in progress is of a report
\* that was asked for, and the record of a file has its report (TenantManager, Report.service.ts).
THEOREM ReportsTypeCorrect == ReportsSpec => []ReportsTypeOK
BY ReportsInvInit, ReportsInvNext, ReportsRestInit, ReportsRestStep, ReportsTypeFromInv, PTL DEF ReportsSpec

-----------------------------------------------------------------------------
(* influxdb storer: types *)

\* The registrations that are held were made, and the shutdown gives them up first.
RegistrationsTyped ==
    /\ stage \in {"init", "ready", "unregistered", "finished", "closed"}
    /\ callbacks \in Nat /\ held \in BOOLEAN
    /\ held => callbacks > 0 /\ stage \in {"init", "ready"}

\* A point is somewhere: in Kafka, in the buffer of a writer, in InfluxDB, or lost.
PointsTyped ==
    /\ topic \cup buffer \cup orphans \cup stored \cup lost = Points
    /\ writer \in {"none", "open", "closed"}

LEMMA StorerTypedInit == StorerInit => RegistrationsTyped /\ PointsTyped
<1> SUFFICES ASSUME StorerInit
             PROVE  RegistrationsTyped /\ PointsTyped
    OBVIOUS
<1>1. RegistrationsTyped
    BY DEF StorerInit, RegistrationsTyped
<1>2. PointsTyped
    BY DEF StorerInit, PointsTyped
<1> QED
    BY <1>1, <1>2

\* A registration that is held was counted.
LEMMA GivesUpOne == RegistrationsTyped => (IF held THEN callbacks - 1 ELSE callbacks) \in Nat
<1> SUFFICES ASSUME RegistrationsTyped
             PROVE  (IF held THEN callbacks - 1 ELSE callbacks) \in Nat
    OBVIOUS
<1>1. callbacks \in Nat
    BY DEF RegistrationsTyped
<1>2. CASE held
    <2>1. callbacks > 0
        BY <1>2 DEF RegistrationsTyped
    <2>2. callbacks - 1 \in Nat
        BY <1>1, <2>1
    <2> QED
        BY <1>2, <2>2, Zenon
<1>3. CASE ~held
    BY <1>1, <1>3, Zenon
<1> QED
    BY <1>2, <1>3

LEMMA RegistrationsStep == RegistrationsTyped /\ [StorerNext]_storerVars => RegistrationsTyped'
<1> SUFFICES ASSUME RegistrationsTyped, [StorerNext]_storerVars
             PROVE  RegistrationsTyped'
    OBVIOUS
<1>1. CASE Initialized
    <2>1. stage' = "ready" /\ callbacks' = callbacks + 1 /\ held' = TRUE
        BY <1>1 DEF Initialized, Registers
    <2> QED
        BY <2>1 DEF RegistrationsTyped
<1>2. CASE HealthCheck
    <2>1. stage' = stage /\ stage \in {"init", "ready"}
        BY <1>2 DEF HealthCheck
    <2>2. \/ callbacks' = callbacks + 1 /\ held' = TRUE
          \/ callbacks' = (IF held THEN callbacks - 1 ELSE callbacks) /\ held' = FALSE
          \/ callbacks' = callbacks /\ held' = held
        BY <1>2 DEF HealthCheck, Registers, Unregisters
    <2>3. CASE callbacks' = callbacks + 1 /\ held' = TRUE
        BY <2>1, <2>3 DEF RegistrationsTyped
    <2>4. CASE callbacks' = (IF held THEN callbacks - 1 ELSE callbacks) /\ held' = FALSE
        <3>1. callbacks' \in Nat
            BY <2>4, GivesUpOne
        <3> QED
            BY <2>1, <2>4, <3>1 DEF RegistrationsTyped
    <2>5. CASE callbacks' = callbacks /\ held' = held
        BY <2>1, <2>5 DEF RegistrationsTyped
    <2> QED
        BY <2>2, <2>3, <2>4, <2>5
<1>3. CASE StopsCallbacks
    <2>1. stage' = "unregistered" /\ held' = FALSE /\ callbacks' = (IF held THEN callbacks - 1 ELSE callbacks)
        BY <1>3 DEF StopsCallbacks, Unregisters
    <2>2. callbacks' \in Nat
        BY <2>1, GivesUpOne
    <2> QED
        BY <2>1, <2>2 DEF RegistrationsTyped
<1>4. CASE StopsConsumer
    <2>1. stage = "unregistered" /\ stage' = "finished" /\ callbacks' = 0 /\ held' = held
        BY <1>4 DEF StopsConsumer
    <2> QED
        BY <2>1 DEF RegistrationsTyped
<1>5. CASE ClosesWriters
    <2>1. stage = "finished" /\ stage' = "closed" /\ callbacks' = callbacks /\ held' = held
        BY <1>5 DEF ClosesWriters, healthVars
    <2> QED
        BY <2>1 DEF RegistrationsTyped
<1>6. CASE Restarts(TRUE) \/ Restarts(FALSE)
    <2>1. stage' = "init" /\ callbacks' = 0 /\ held' = FALSE
        BY <1>6 DEF Restarts
    <2> QED
        BY <2>1 DEF RegistrationsTyped
<1>7. CASE \/ InfluxChanges \/ Flushes \/ UNCHANGED storerVars
           \/ \E p \in Points : Writes(p)
           \/ \E h \in Handlers :
                 \/ Arrives(h) \/ GetOrg(h) \/ PostOrg(h) \/ HasBucket(h) \/ PostBucket(h)
                 \/ DeleteOrg(h) \/ CloseWriter(h) \/ ForgetWriter(h) \/ KeepWriter(h) \/ RequestFails(h)
    <2>1. UNCHANGED <<stage, callbacks, held>>
        BY <1>7 DEF InfluxChanges, Flushes, storerVars, healthVars, Writes, Arrives, GetOrg, PostOrg, HasBucket,
            PostBucket, DeleteOrg, CloseWriter, ForgetWriter, KeepWriter, RequestFails
    <2> QED
        BY <2>1 DEF RegistrationsTyped
<1> QED
    BY <1>1, <1>2, <1>3, <1>4, <1>5, <1>6, <1>7 DEF StorerNext

LEMMA PointsStep == PointsTyped /\ [StorerNext]_storerVars => PointsTyped'
<1> SUFFICES ASSUME PointsTyped, [StorerNext]_storerVars
             PROVE  PointsTyped'
    OBVIOUS
<1> USE DEF PointsTyped
<1>1. ASSUME UNCHANGED <<topic, orphans>>, Flushed, writer' \in {writer, "none", "closed"}
      PROVE  PointsTyped'
    BY <1>1 DEF Flushed, SendsPoints
<1>2. ASSUME NEW p \in Points, Writes(p)
      PROVE  PointsTyped'
    BY <1>2 DEF Writes
<1>3. CASE Flushes
    <2>1. CASE Flushed /\ UNCHANGED orphans
        BY <1>1, <1>3, <2>1 DEF Flushes
    <2>2. CASE orphans' = {} /\ SendsPoints(orphans) /\ UNCHANGED buffer
        BY <1>3, <2>2 DEF Flushes, SendsPoints
    <2> QED
        BY <1>3, <2>1, <2>2 DEF Flushes
<1>4. CASE ClosesWriters
    <2>1. UNCHANGED <<topic, orphans>> /\ Flushed /\ writer' \in {"none", "closed"}
        BY <1>4 DEF ClosesWriters
    <2> QED
        BY <1>1, <2>1
<1>5. ASSUME NEW h \in Handlers, CloseWriter(h)
      PROVE  PointsTyped'
    <2>1. UNCHANGED <<topic, orphans>>
        BY <1>5 DEF CloseWriter
    <2>2. CASE Flushed /\ writer' = writer
        BY <1>1, <2>1, <2>2
    <2>3. CASE UNCHANGED <<buffer, stored, lost>> /\ writer' = "none"
        BY <2>1, <2>3
    <2> QED
        BY <1>5, <2>2, <2>3 DEF CloseWriter
<1>6. ASSUME NEW h \in Handlers, ForgetWriter(h) \/ KeepWriter(h)
      PROVE  PointsTyped'
    BY <1>6 DEF ForgetWriter, KeepWriter
<1>7. CASE Restarts(TRUE) \/ Restarts(FALSE)
    BY <1>7 DEF Restarts
<1>8. CASE \/ Initialized \/ InfluxChanges \/ HealthCheck \/ StopsCallbacks \/ StopsConsumer \/ UNCHANGED storerVars
           \/ \E h \in Handlers :
                 \/ Arrives(h) \/ GetOrg(h) \/ PostOrg(h) \/ HasBucket(h) \/ PostBucket(h)
                 \/ DeleteOrg(h) \/ RequestFails(h)
    BY <1>8 DEF Initialized, InfluxChanges, HealthCheck, StopsCallbacks, StopsConsumer, storerVars, dataVars,
       Arrives, GetOrg, PostOrg, HasBucket, PostBucket, DeleteOrg, RequestFails
<1> QED
    BY <1>2, <1>3, <1>4, <1>5, <1>6, <1>7, <1>8 DEF StorerNext

LEMMA StorerTypeFromInv == RegistrationsTyped /\ PointsTyped /\ OrgTyped => StorerTypeOK
BY DEF RegistrationsTyped, PointsTyped, OrgTyped, StorerTypeOK

\* Every point is in Kafka, in a buffer, in InfluxDB, or lost, a bucket has its organization, and no
\* registration is undone twice, whatever the shutdowns, kills and failures (WritersHandler, App.js).
THEOREM StorerTypeCorrect == StorerSpec => []StorerTypeOK
<1> DEFINE Typed == StorerInv /\ RegistrationsTyped /\ PointsTyped
<1>1. StorerInit => Typed
    BY StorerInvInit, StorerTypedInit
<1>2. Typed /\ [StorerNext]_storerVars => Typed'
    BY CallbacksKnownNext, OrgKnownNext, OrgStep, PointsKnownNext, RegistrationsStep, PointsStep DEF StorerInv
<1>3. Typed => StorerTypeOK
    BY StorerTypeFromInv DEF StorerInv
<1> QED
    BY <1>1, <1>2, <1>3, PTL DEF StorerSpec

-----------------------------------------------------------------------------
(* file-mgmt: the states of a request *)

Codes == {"none", "201", "400", "413", "500"}
UploadState ==
    [phase : {"idle", "receiving", "validate", "copied", "lost", "over"}, kind : {"good", "bad", "no file"},
     big : BOOLEAN, put : {"none", "sent", "done", "failed"}, rollback : {"none", "sent", "removed", "done"},
     finished : BOOLEAN, called : BOOLEAN, answer : Codes]
RemoverState == [phase : {"none", "list", "objects", "bucket"}, objects : SUBSET (Uploads \cup {NoUpload})]

TypeInv ==
    /\ FileTypeOK
    /\ upload \in [Uploads -> UploadState]
    /\ remover \in [Removers -> RemoverState]
    /\ {tenancies, consumed, committed} \subseteq Nat

-----------------------------------------------------------------------------
(* file-mgmt: how a request changes *)

LEMMA FreshType == Fresh \in UploadState
BY DEF Fresh, UploadState, Codes

\* What two states of a request have in common when one adds an answer to the other.
SameRequest(r, s) ==
    r.phase = s.phase /\ r.put = s.put /\ r.big = s.big /\ r.rollback = s.rollback /\ r.kind = s.kind

\* An answer is the first one, and changes nothing else.
LEMMA AnsweredType ==
    ASSUME NEW r \in UploadState, NEW code \in Codes \ {"none"}
    PROVE  /\ Answered(r, code) \in UploadState
           /\ SameRequest(Answered(r, code), r) /\ Answered(r, code).called = r.called
           /\ Answered(r, code).answer # "none"
<1>1. [r EXCEPT !.answer = code] \in UploadState
    BY DEF UploadState, Codes
<1>2. CASE r.answer = "none"
    <2>1. Answered(r, code) = [r EXCEPT !.answer = code]
        BY <1>2 DEF Answered
    <2>2. [r EXCEPT !.answer = code].answer = code /\ [r EXCEPT !.answer = code].called = r.called
        BY DEF UploadState
    <2>3. SameRequest([r EXCEPT !.answer = code], r)
        BY DEF UploadState, SameRequest
    <2> QED
        BY <1>1, <2>1, <2>2, <2>3
<1>3. CASE r.answer # "none"
    BY <1>3 DEF Answered, SameRequest
<1> QED
    BY <1>2, <1>3

\* An error is an answer, after which nobody is called.
LEMMA FailsType ==
    ASSUME NEW r \in UploadState, NEW code \in Codes \ {"none"}
    PROVE  /\ Fails(r, code) \in UploadState
           /\ SameRequest(Fails(r, code), r) /\ Fails(r, code).called
           /\ Fails(r, code).answer # "none"
<1> DEFINE a == Answered(r, code)
<1>1. a \in UploadState /\ SameRequest(a, r) /\ a.answer # "none"
    BY AnsweredType
<1>2. Fails(r, code) = [a EXCEPT !.called = TRUE]
    BY DEF Fails
<1> HIDE DEF a
<1>3. [a EXCEPT !.called = TRUE] \in UploadState
    BY <1>1 DEF UploadState
<1>4. [a EXCEPT !.called = TRUE].called /\ [a EXCEPT !.called = TRUE].answer = a.answer
    BY <1>1 DEF UploadState
<1>5. SameRequest([a EXCEPT !.called = TRUE], r)
    BY <1>1 DEF UploadState, SameRequest
<1> QED
    BY <1>1, <1>2, <1>3, <1>4, <1>5

\* The controller is called once, for a form that is complete.
LEMMA LoadedEndType ==
    ASSUME NEW r \in UploadState
    PROVE  /\ LoadedEnd(r) \in UploadState
           /\ LoadedEnd(r).answer = r.answer /\ LoadedEnd(r).put = r.put /\ LoadedEnd(r).big = r.big
           /\ LoadedEnd(r).rollback = r.rollback
           /\ \/ LoadedEnd(r).phase = r.phase /\ (LoadedEnd(r).called <=> r.called)
              \/ r.put = "done" /\ ~r.called /\ LoadedEnd(r).phase = "validate" /\ LoadedEnd(r).called
BY DEF LoadedEnd, UploadState


-----------------------------------------------------------------------------
(* file-mgmt: the inductive invariant *)

\* A request puts its object while the form is received, is answered while the controller works on it
\* only because of the limit, and can leave its object behind once it is known to be left over.
RequestInv(u) ==
    /\ upload[u].phase = "idle" =>
        upload[u].put = "none" /\ ~upload[u].big /\ upload[u].rollback = "none" /\ upload[u].answer = "none"
    /\ upload[u].rollback # "none" => upload[u].big /\ u \in leftover
    /\ upload[u].put = "sent" => upload[u].phase = "receiving"
    /\ upload[u].phase = "receiving" /\ ~upload[u].called => upload[u].answer = "none"
    /\ upload[u].phase = "receiving" /\ upload[u].called => u \in leftover \/ (upload[u].put = "failed" /\ u \notin tmp)
    /\ upload[u].phase = "validate" /\ upload[u].answer # "none" => upload[u].big
    /\ u \in tmp /\ upload[u].phase \in {"over", "lost"} => u \in leftover

\* While a tenant is created it is not in the list, so that nothing else is taken from Kafka; the
\* bucket it is given stays until it leaves the list.
TenancyInv ==
    /\ tenancy # "idle" \/ service = "starting" => ~listed
    /\ tenancy = "push" \/ listed => (bucket /\ ~RemoverBusy) \/ overlapped

FileInv == TypeInv /\ (\A u \in Uploads : RequestInv(u)) /\ TenancyInv


-----------------------------------------------------------------------------
(* file-mgmt: the requests *)

\* What the steps of a request leave alone.
UnchangedTenancy ==
    UNCHANGED <<bucket, overlapped, serviceVars, tenancyVars, remover>>

\* A step of request u that keeps its own part of the invariant keeps all of it.
LEMMA RequestStep ==
    ASSUME FileInv, NEW u \in Uploads, NEW r \in UploadState, Becomes(u, r), UnchangedTenancy,
           RequestInv(u)', leftover \subseteq leftover',
           tmp' \in {tmp, tmp \ {u}} \/ (bucket /\ tmp' = tmp \cup {u}),
           file' = file \/ (bucket /\ file' = u)
    PROVE  FileInv'
<1> USE DEF FileInv, TypeInv, UnchangedTenancy, serviceVars, tenancyVars
<1>1. upload' \in [Uploads -> UploadState] /\ upload'[u] = r
    BY DEF Becomes
<1>2. FileTypeOK'
    <2>1. bucket' \/ (tmp' = {} /\ file' = NoUpload)
        BY DEF FileTypeOK
    <2>2. tmp' \subseteq Uploads /\ file' \in Uploads \cup {NoUpload}
        BY DEF FileTypeOK
    <2>3. \A w \in Uploads : upload'[w].answer \in Codes
        BY <1>1 DEF UploadState
    <2> QED
        BY <2>1, <2>2, <2>3 DEF FileTypeOK, Codes
<1>3. ASSUME NEW w \in Uploads, w # u
      PROVE  RequestInv(w)'
    <2>1. upload'[w] = upload[w]
        BY <1>3 DEF Becomes
    <2>2. w \in tmp' => w \in tmp
        BY <1>3
    <2>3. RequestInv(w)
        OBVIOUS
    <2> QED
        BY <2>1, <2>2, <2>3 DEF RequestInv
<1>4. \A w \in Uploads : RequestInv(w)'
    BY <1>3
<1>5. TenancyInv'
    BY DEF TenancyInv, RemoverBusy
<1> QED
    BY <1>1, <1>2, <1>4, <1>5

LEMMA ReceivesInv ==
    ASSUME FileInv, NEW u \in Uploads, Receives(u)
    PROVE  FileInv'
<1> USE FreshType DEF FileInv, TypeInv
<1>1. PICK kind \in {"good", "bad", "no file"}, big \in BOOLEAN :
        Becomes(u, IF ~bucket THEN Fails([Fresh EXCEPT !.phase = "over", !.kind = kind], "400")
                   ELSE [Fresh EXCEPT !.phase = "receiving", !.kind = kind, !.big = big,
                                      !.put = IF kind = "no file" THEN "none" ELSE "sent"])
    BY DEF Receives
<1>2. UnchangedTenancy /\ UNCHANGED <<objectVars, leftover>>
    BY DEF Receives, UnchangedTenancy
<1>3. CASE ~bucket
    <2> DEFINE o == [Fresh EXCEPT !.phase = "over", !.kind = kind]
    <2>1. o \in UploadState /\ o.phase = "over" /\ o.put = "none" /\ o.rollback = "none"
        BY DEF Fresh, UploadState, Codes
    <2> HIDE DEF o
    <2>2. Fails(o, "400") \in UploadState /\ SameRequest(Fails(o, "400"), o)
        BY <2>1, FailsType DEF Codes
    <2>3. Becomes(u, Fails(o, "400"))
        BY <1>1, <1>3 DEF o
    <2>4. upload'[u] = Fails(o, "400") /\ tmp' = {}
        BY <1>2, <1>3, <2>3 DEF Becomes, FileTypeOK, objectVars
    <2>5. RequestInv(u)'
        BY <2>1, <2>2, <2>4 DEF RequestInv, SameRequest
    <2> QED
        BY <1>2, <2>2, <2>3, <2>5, RequestStep DEF objectVars
<1>4. CASE bucket
    <2> DEFINE o == [Fresh EXCEPT !.phase = "receiving", !.kind = kind, !.big = big,
                                  !.put = IF kind = "no file" THEN "none" ELSE "sent"]
    <2>1. o \in UploadState /\ o.phase = "receiving" /\ o.answer = "none" /\ o.rollback = "none" /\ ~o.called
        BY DEF Fresh, UploadState, Codes
    <2> HIDE DEF o
    <2>2. Becomes(u, o)
        BY <1>1, <1>4 DEF o
    <2>3. upload'[u] = o
        BY <2>2 DEF Becomes
    <2>4. RequestInv(u)'
        BY <2>1, <2>3 DEF RequestInv
    <2> QED
        BY <1>2, <2>1, <2>2, <2>4, RequestStep DEF objectVars
<1> QED
    BY <1>3, <1>4

LEMMA FieldNamedFileInv ==
    ASSUME FileInv, NEW u \in Uploads, FieldNamedFile(u)
    PROVE  FileInv'
<1> USE DEF FileInv, TypeInv
<1> DEFINE n == Fails(upload[u], "400")
<1>1. upload[u] \in UploadState /\ RequestInv(u) /\ upload[u].phase = "receiving"
    BY DEF FieldNamedFile
<1>2. n \in UploadState /\ SameRequest(n, upload[u]) /\ n.called
    BY <1>1, FailsType DEF Codes
<1>3. Becomes(u, n) /\ UnchangedTenancy /\ UNCHANGED objectVars /\ leftover' = leftover \cup {u}
    BY DEF FieldNamedFile, UnchangedTenancy
<1> HIDE DEF n
<1>4. upload'[u] = n
    BY <1>3 DEF Becomes
<1>5. RequestInv(u)'
    BY <1>1, <1>2, <1>3, <1>4 DEF RequestInv, SameRequest
<1> QED
    BY <1>2, <1>3, <1>5, RequestStep DEF objectVars

LEMMA LimitReachedInv ==
    ASSUME FileInv, NEW u \in Uploads, LimitReached(u)
    PROVE  FileInv'
<1> USE DEF FileInv, TypeInv
<1> DEFINE o == [upload[u] EXCEPT !.rollback = "sent"]
<1>1. upload[u] \in UploadState /\ RequestInv(u)
    OBVIOUS
<1>2. /\ o \in UploadState /\ o.phase = upload[u].phase /\ o.put = upload[u].put /\ o.answer = upload[u].answer
      /\ o.big = upload[u].big
    BY <1>1 DEF UploadState
<1>3. o.called <=> upload[u].called
    BY <1>1 DEF UploadState
<1>4. Becomes(u, o) /\ UnchangedTenancy /\ UNCHANGED objectVars /\ leftover' = leftover \cup {u} /\ upload[u].big
    BY DEF LimitReached, UnchangedTenancy
<1> HIDE DEF o
<1>5. upload'[u] = o
    BY <1>4 DEF Becomes
<1>6. RequestInv(u)'
    BY <1>1, <1>2, <1>3, <1>4, <1>5 DEF RequestInv, objectVars
<1> QED
    BY <1>2, <1>4, <1>6, RequestStep DEF objectVars

LEMMA LimitRolledBackInv ==
    ASSUME FileInv, NEW u \in Uploads, LimitRolledBack(u)
    PROVE  FileInv'
<1> USE DEF FileInv, TypeInv
<1> DEFINE o == [upload[u] EXCEPT !.rollback = "removed"]
<1>1. upload[u] \in UploadState /\ RequestInv(u)
    OBVIOUS
<1>2. /\ o \in UploadState /\ o.phase = upload[u].phase /\ o.put = upload[u].put /\ o.answer = upload[u].answer
      /\ o.big = upload[u].big
    BY <1>1 DEF UploadState
<1>3. o.called <=> upload[u].called
    BY <1>1 DEF UploadState
<1>4. /\ Becomes(u, o) /\ UnchangedTenancy /\ UNCHANGED <<file, leftover>>
      /\ tmp' = tmp \ {u} /\ upload[u].rollback = "sent"
    BY DEF LimitRolledBack, UnchangedTenancy
<1> HIDE DEF o
<1>5. upload'[u] = o
    BY <1>4 DEF Becomes
<1>6. RequestInv(u)'
    BY <1>1, <1>2, <1>3, <1>4, <1>5 DEF RequestInv
<1> QED
    BY <1>2, <1>4, <1>6, RequestStep

LEMMA LimitAnsweredInv ==
    ASSUME FileInv, NEW u \in Uploads, LimitAnswered(u)
    PROVE  FileInv'
<1> USE DEF FileInv, TypeInv
<1> DEFINE o == [upload[u] EXCEPT !.rollback = "done"]
           n == Fails(o, "413")
<1>1. upload[u] \in UploadState /\ RequestInv(u) /\ upload[u].rollback = "removed"
    BY DEF LimitAnswered
<1>2. o \in UploadState /\ o.phase = upload[u].phase /\ o.put = upload[u].put /\ o.big = upload[u].big
    BY <1>1 DEF UploadState
<1>3. Becomes(u, n) /\ UnchangedTenancy /\ UNCHANGED <<objectVars, leftover>>
    BY DEF LimitAnswered, UnchangedTenancy
<1> HIDE DEF o
<1>4. /\ n \in UploadState /\ n.called
      /\ n.phase = upload[u].phase /\ n.put = upload[u].put /\ n.big = upload[u].big
    BY <1>2, FailsType DEF Codes, SameRequest
<1> HIDE DEF n
<1>5. upload'[u] = n
    BY <1>3 DEF Becomes
<1>6. RequestInv(u)'
    BY <1>1, <1>3, <1>4, <1>5 DEF RequestInv, objectVars
<1> QED
    BY <1>3, <1>4, <1>6, RequestStep DEF objectVars

LEMMA PutsTmpObjectInv ==
    ASSUME FileInv, NEW u \in Uploads, PutsTmpObject(u)
    PROVE  FileInv'
<1> USE DEF FileInv, TypeInv
<1>1. upload[u] \in UploadState /\ RequestInv(u) /\ upload[u].put = "sent" /\ upload[u].phase = "receiving"
    BY DEF PutsTmpObject, RequestInv
<1>2. UnchangedTenancy /\ UNCHANGED file
    BY DEF PutsTmpObject, UnchangedTenancy
<1>3. CASE bucket /\ tmp' = tmp \cup {u} /\ Becomes(u, LoadedEnd([upload[u] EXCEPT !.put = "done"])) /\ UNCHANGED leftover
    <2> DEFINE o == [upload[u] EXCEPT !.put = "done"]
    <2>1. /\ o \in UploadState /\ o.put = "done" /\ o.phase = "receiving" /\ o.big = upload[u].big
          /\ o.rollback = upload[u].rollback /\ o.answer = upload[u].answer /\ (o.called <=> upload[u].called)
        BY <1>1 DEF UploadState
    <2>2. Becomes(u, LoadedEnd(o))
        BY <1>3
    <2> HIDE DEF o
    <2>3. upload'[u] = LoadedEnd(o)
        BY <2>2 DEF Becomes
    <2>4. RequestInv(u)'
        BY <1>1, <1>3, <2>1, <2>3, LoadedEndType DEF RequestInv
    <2> QED
        BY <1>2, <1>3, <2>1, <2>2, <2>4, LoadedEndType, RequestStep
<1>4. CASE /\ Becomes(u, Fails([upload[u] EXCEPT !.put = "failed"], "500"))
           /\ \/ ~bucket /\ UNCHANGED <<tmp, leftover>>
              \/ bucket /\ tmp' \in {tmp, tmp \cup {u}} /\ leftover' = leftover \cup {u}
    <2> DEFINE o == [upload[u] EXCEPT !.put = "failed"]
    <2>1. /\ o \in UploadState /\ o.put = "failed" /\ o.phase = "receiving" /\ o.big = upload[u].big
          /\ o.rollback = upload[u].rollback
        BY <1>1 DEF UploadState
    <2>2. Becomes(u, Fails(o, "500"))
        BY <1>4
    <2> HIDE DEF o
    <2>3. Fails(o, "500") \in UploadState /\ SameRequest(Fails(o, "500"), o) /\ Fails(o, "500").called
        BY <2>1, FailsType DEF Codes
    <2>4. upload'[u] = Fails(o, "500")
        BY <2>2 DEF Becomes
    <2>5. ~bucket => u \notin tmp
        BY DEF FileTypeOK
    <2>6. RequestInv(u)'
        BY <1>1, <1>4, <2>1, <2>3, <2>4, <2>5 DEF RequestInv, SameRequest
    <2> QED
        BY <1>2, <1>4, <2>2, <2>3, <2>6, RequestStep
<1> QED
    BY <1>3, <1>4 DEF PutsTmpObject

LEMMA FormFinishesInv ==
    ASSUME FileInv, NEW u \in Uploads, FormFinishes(u)
    PROVE  FileInv'
<1> USE DEF FileInv, TypeInv
<1> DEFINE o == [upload[u] EXCEPT !.finished = TRUE]
<1>1. upload[u] \in UploadState /\ RequestInv(u) /\ upload[u].phase = "receiving"
    BY DEF FormFinishes
<1>2. /\ o \in UploadState /\ o.phase = "receiving" /\ o.put = upload[u].put /\ o.big = upload[u].big
      /\ o.rollback = upload[u].rollback
      /\ o.answer = upload[u].answer /\ (o.called <=> upload[u].called)
    BY <1>1 DEF UploadState
<1>3. Becomes(u, LoadedEnd(o)) /\ UnchangedTenancy /\ UNCHANGED <<objectVars, leftover>>
    BY DEF FormFinishes, UnchangedTenancy
<1> HIDE DEF o
<1>4. upload'[u] = LoadedEnd(o)
    BY <1>3 DEF Becomes
<1>5. RequestInv(u)'
    BY <1>1, <1>2, <1>3, <1>4, LoadedEndType DEF RequestInv, objectVars
<1> QED
    BY <1>2, <1>3, <1>5, LoadedEndType, RequestStep DEF objectVars

\* A request that ends: answered, and its temporary object removed or left over.
LEMMA RequestEnds ==
    ASSUME FileInv, NEW u \in Uploads, UnchangedTenancy, UNCHANGED file,
           NEW code \in Codes \ {"none"}, upload[u].phase \in {"validate", "copied"}, NEW phase \in {"over", "lost"},
           Becomes(u, Answered([upload[u] EXCEPT !.phase = phase], code)),
           \/ tmp' = tmp \ {u} /\ UNCHANGED leftover
           \/ leftover' = leftover \cup {u} /\ tmp' \in {tmp, tmp \ {u}}
    PROVE  FileInv'
<1> USE DEF FileInv, TypeInv
<1> DEFINE o == [upload[u] EXCEPT !.phase = phase]
<1>1. upload[u] \in UploadState /\ RequestInv(u)
    OBVIOUS
<1>2. /\ o \in UploadState /\ o.phase = phase /\ o.put = upload[u].put /\ o.big = upload[u].big
      /\ o.rollback = upload[u].rollback
    BY <1>1 DEF UploadState
<1>3. Becomes(u, Answered(o, code))
    OBVIOUS
<1> HIDE DEF o
<1>4. Answered(o, code) \in UploadState /\ SameRequest(Answered(o, code), o)
    BY <1>2, AnsweredType
<1>5. upload'[u] = Answered(o, code)
    BY <1>3 DEF Becomes
<1>6. RequestInv(u)'
    BY <1>1, <1>2, <1>4, <1>5 DEF RequestInv, SameRequest
<1> QED
    BY <1>3, <1>4, <1>6, RequestStep

LEMMA RollsBackInv ==
    ASSUME FileInv, NEW u \in Uploads, RollsBack(u)
    PROVE  FileInv'
<1>1. UnchangedTenancy /\ UNCHANGED file
    BY DEF RollsBack, UnchangedTenancy
<1> QED
    BY <1>1, RequestEnds DEF RollsBack, Codes

LEMMA RemovesTmpObjectInv ==
    ASSUME FileInv, NEW u \in Uploads, RemovesTmpObject(u)
    PROVE  FileInv'
<1>1. UnchangedTenancy /\ UNCHANGED file
    BY DEF RemovesTmpObject, UnchangedTenancy
<1> QED
    BY <1>1, RequestEnds DEF RemovesTmpObject, Codes

\* A request that has been stored.
LEMMA StoredInv ==
    ASSUME FileInv, NEW u \in Uploads, UnchangedTenancy, UNCHANGED <<tmp, leftover>>, bucket, file' = u,
           NEW phase \in {"copied", "over"}, Becomes(u, [upload[u] EXCEPT !.phase = phase]),
           \/ upload[u].phase = "validate" /\ phase = "copied"
           \/ upload[u].phase = "lost" /\ phase = "over"
    PROVE  FileInv'
<1> USE DEF FileInv, TypeInv
<1> DEFINE o == [upload[u] EXCEPT !.phase = phase]
<1>1. upload[u] \in UploadState /\ RequestInv(u)
    OBVIOUS
<1>2. /\ o \in UploadState /\ o.phase = phase /\ o.put = upload[u].put /\ o.big = upload[u].big
      /\ o.rollback = upload[u].rollback
    BY <1>1 DEF UploadState
<1>3. Becomes(u, o)
    OBVIOUS
<1> HIDE DEF o
<1>4. upload'[u] = o
    BY <1>3 DEF Becomes
<1>5. RequestInv(u)'
    BY <1>1, <1>2, <1>4 DEF RequestInv
<1> QED
    BY <1>2, <1>3, <1>5, RequestStep

LEMMA CopiesInv ==
    ASSUME FileInv, NEW u \in Uploads, Copies(u)
    PROVE  FileInv'
<1>1. UnchangedTenancy /\ UNCHANGED tmp /\ upload[u].phase = "validate"
    BY DEF Copies, UnchangedTenancy
<1>2. CASE bucket /\ file' = u /\ Becomes(u, [upload[u] EXCEPT !.phase = "copied"]) /\ UNCHANGED leftover
    BY <1>1, <1>2, StoredInv
<1>3. ASSUME NEW phase \in {"over", "lost"}, Becomes(u, Answered([upload[u] EXCEPT !.phase = phase], "500")),
             leftover' = leftover \cup {u}, UNCHANGED file
      PROVE  FileInv'
    BY <1>1, <1>3, RequestEnds DEF Codes
<1> QED
    BY <1>2, <1>3 DEF Copies

LEMMA LostCopyInv ==
    ASSUME FileInv, NEW u \in Uploads, LostCopy(u)
    PROVE  FileInv'
<1>1. UnchangedTenancy
    BY DEF LostCopy, UnchangedTenancy
<1> QED
    BY <1>1, StoredInv DEF LostCopy

-----------------------------------------------------------------------------
(* file-mgmt: the bucket and its tenant *)

\* What the steps that are not of a request leave alone.
LEMMA TenantStep ==
    ASSUME FileInv, UNCHANGED uploadVars, tmp' \subseteq tmp, file' \in {file, NoUpload},
           bucket' \/ (tmp' = {} /\ file' = NoUpload),
           service' \in {"starting", "serving", "failed"},
           remover' \in [Removers -> RemoverState],
           {tenancies, consumed, committed}' \subseteq Nat,
           committed' <= consumed' /\ consumed' <= tenancies', TenancyInv'
    PROVE  FileInv'
<1> USE DEF FileInv, TypeInv, uploadVars
<1>1. FileTypeOK'
    BY DEF FileTypeOK
<1>2. \A w \in Uploads : RequestInv(w)'
    BY DEF RequestInv
<1> QED
    BY <1>1, <1>2

LEMMA DeletionsInv ==
    ASSUME FileInv, DeletionStats \/ DeletionRemoves
    PROVE  FileInv'
<1>1. /\ tmp' = tmp /\ file' \in {file, NoUpload}
      /\ UNCHANGED <<uploadVars, serviceVars, bucket, tenancyVars, remover, overlapped>>
    BY DEF DeletionStats, DeletionRemoves, objectVars
<1>2. bucket' \/ (tmp' = {} /\ file' = NoUpload)
    BY <1>1 DEF FileInv, TypeInv, FileTypeOK
<1>3. TenancyInv'
    BY <1>1 DEF FileInv, TenancyInv, RemoverBusy, serviceVars, tenancyVars
<1> QED
    BY <1>1, <1>2, <1>3, TenantStep DEF FileInv, TypeInv, FileTypeOK, serviceVars, tenancyVars

\* A removal is started beside those that run.
LEMMA StartsRemoverType ==
    ASSUME FileInv, StartsRemover
    PROVE  remover' \in [Removers -> RemoverState]
BY DEF FileInv, TypeInv, StartsRemover, RemoverState

LEMMA TenancyEventsInv ==
    ASSUME FileInv, TenantChanges \/ TakesCreation \/ TakesRemoval \/ Commits
    PROVE  FileInv'
<1> USE DEF FileInv, TypeInv, FileTypeOK
<1>1. UNCHANGED <<uploadVars, objectVars, bucket, service, overlapped>>
    BY DEF TenantChanges, TakesCreation, TakesRemoval, Commits, serviceVars
<1>2. remover' \in [Removers -> RemoverState]
    BY StartsRemoverType DEF TenantChanges, TakesCreation, TakesRemoval, Commits
<1>3. /\ {tenancies, consumed, committed}' \subseteq Nat
      /\ committed' <= consumed' /\ consumed' <= tenancies'
    BY DEF TenantChanges, TakesCreation, TakesRemoval, Commits
<1>4. TenancyInv'
    <2>1. CASE TenantChanges \/ Commits
        BY <1>1, <2>1 DEF TenantChanges, Commits, TenancyInv, RemoverBusy
    <2>2. CASE TakesCreation
        BY <1>1, <2>2 DEF TakesCreation, Creates, TenancyInv, RemoverBusy
    <2>3. CASE TakesRemoval
        BY <1>1, <2>3 DEF TakesRemoval, TenancyInv
    <2> QED
        BY <2>1, <2>2, <2>3
<1> QED
    BY <1>1, <1>2, <1>3, <1>4, TenantStep DEF objectVars

LEMMA StartsInv ==
    ASSUME FileInv, Starts
    PROVE  FileInv'
<1> USE DEF FileInv, TypeInv, FileTypeOK
<1>1. UNCHANGED <<uploadVars, objectVars, bucket, tenancies, consumed, committed, listed, overlapped>>
    BY DEF Starts
<1>2. service' \in {"starting", "serving", "failed"}
    BY DEF Starts, serviceVars
<1>3. remover' \in [Removers -> RemoverState]
    BY StartsRemoverType DEF Starts
<1>4. TenancyInv'
    BY <1>1 DEF Starts, Creates, TenancyInv, serviceVars
<1> QED
    BY <1>1, <1>2, <1>3, <1>4, TenantStep DEF objectVars

LEMMA BucketCreationsInv ==
    ASSUME FileInv, SessionStarts \/ EnsuresBucket \/ PushesTenant
    PROVE  FileInv'
<1> USE DEF FileInv, TypeInv, FileTypeOK
<1>1. UNCHANGED <<uploadVars, objectVars, tenancies, consumed, committed, remover>> /\ (bucket => bucket')
    <2>1. CASE SessionStarts
        BY <2>1 DEF SessionStarts
    <2>2. CASE EnsuresBucket
        <3>1. bucket' = TRUE \/ bucket' \in {bucket, TRUE}
            BY <2>2 DEF EnsuresBucket
        <3>2. bucket => bucket'
            BY <3>1, Zenon
        <3> QED
            BY <2>2, <3>2 DEF EnsuresBucket
    <2>3. CASE PushesTenant
        BY <2>3 DEF PushesTenant
    <2> QED
        BY <2>1, <2>2, <2>3
<1>2. service' \in {"starting", "serving", "failed"}
    BY DEF SessionStarts, EnsuresBucket, PushesTenant, serviceVars
<1>3. TenancyInv'
    <2>1. CASE SessionStarts
        BY <1>1, <2>1 DEF SessionStarts, TenancyInv, RemoverBusy, serviceVars
    <2>2. CASE EnsuresBucket
        BY <1>1, <2>2 DEF EnsuresBucket, TenancyInv, RemoverBusy, serviceVars
    <2>3. CASE PushesTenant
        BY <1>1, <2>3 DEF PushesTenant, TenancyInv, RemoverBusy
    <2> QED
        BY <2>1, <2>2, <2>3
<1> QED
    BY <1>1, <1>2, <1>3, TenantStep DEF objectVars

\* The steps of a removal of the bucket.
RemoverActs(r) == RemoverLists(r) \/ RemoverEmpties(r) \/ RemoverRemoves(r)

LEMMA RemoverInv ==
    ASSUME FileInv, NEW r \in Removers, RemoverActs(r)
    PROVE  FileInv'
<1> USE DEF FileInv, TypeInv, FileTypeOK, RemoverActs
<1>1. UNCHANGED <<uploadVars, serviceVars, tenancyVars, overlapped>>
    BY DEF RemoverLists, RemoverEmpties, RemoverRemoves
<1>2. tmp' \subseteq tmp /\ file' \in {file, NoUpload} /\ (bucket' \/ (tmp' = {} /\ file' = NoUpload))
    BY DEF RemoverLists, RemoverEmpties, RemoverRemoves, objectVars
<1>3. remover' \in [Removers -> RemoverState]
    <2>1. CASE RemoverLists(r)
        BY <2>1 DEF RemoverLists, RemoverState, NotRemoving
    <2>2. CASE RemoverEmpties(r)
        BY <2>2 DEF RemoverEmpties, RemoverState
    <2>3. CASE RemoverRemoves(r)
        BY <2>3 DEF RemoverRemoves, RemoverState, NotRemoving
    <2> QED
        BY <2>1, <2>2, <2>3
<1>4. RemoverBusy
    BY DEF RemoverBusy, RemoverLists, RemoverEmpties, RemoverRemoves, NotRemoving
<1>5. TenancyInv'
    BY <1>1, <1>4 DEF TenancyInv, serviceVars, tenancyVars
<1> QED
    BY <1>1, <1>2, <1>3, <1>5, TenantStep DEF serviceVars, tenancyVars

LEMMA KilledInv ==
    ASSUME FileInv, Killed
    PROVE  FileInv'
<1> USE DEF FileInv, TypeInv, Killed
<1>1. ASSUME NEW u \in Uploads
      PROVE  /\ upload'[u] \in UploadState
             /\ \/ upload'[u].phase = "idle" /\ upload'[u].answer = "none" /\ ~upload'[u].big
                \/ upload'[u].phase \in {"over", "lost"}
             /\ upload'[u].put = "none" /\ upload'[u].rollback = "none"
    <2> DEFINE r == upload[u]
               e == IF r.phase = "lost" \/ (r.phase = "validate" /\ r.kind = "good") THEN "lost" ELSE "over"
               o == [Fresh EXCEPT !.phase = e, !.kind = r.kind, !.answer = r.answer]
    <2>1. r \in UploadState /\ e \in {"over", "lost"}
        OBVIOUS
    <2>2. upload'[u] = IF r.phase = "idle" THEN Fresh ELSE o
        BY DEF Forgotten
    <2> HIDE DEF r, e
    <2>3. o \in UploadState /\ o.phase = e /\ o.put = "none" /\ o.rollback = "none"
        BY <2>1 DEF Fresh, UploadState, Codes
    <2>4. Fresh.phase = "idle" /\ Fresh.answer = "none" /\ ~Fresh.big /\ Fresh.put = "none" /\ Fresh.rollback = "none"
        BY DEF Fresh
    <2> QED
        BY <2>1, <2>2, <2>3, <2>4, FreshType
<1>2. upload' \in [Uploads -> UploadState]
    BY <1>1
<1>3. \A u \in Uploads : RequestInv(u)'
    BY <1>1 DEF RequestInv
<1>4. remover' \in [Removers -> RemoverState]
    BY DEF RemoverState, NotRemoving
<1>5. FileTypeOK'
    <2>1. \A u \in Uploads : upload'[u].answer \in Codes
        BY <1>1 DEF UploadState
    <2>2. committed' <= consumed' /\ consumed' <= tenancies'
        <3>1. committed \in Nat /\ consumed \in Nat /\ tenancies \in Nat
            OBVIOUS
        <3>2. committed' = committed /\ consumed' = committed /\ tenancies' = tenancies
            OBVIOUS
        <3>3. committed <= consumed /\ consumed <= tenancies
            BY DEF FileTypeOK
        <3> HIDE DEF FileInv, TypeInv, Killed
        <3> QED
            BY <3>1, <3>2, <3>3
    <2>3. /\ bucket' \/ (tmp' = {} /\ file' = NoUpload)
          /\ tmp' \subseteq Uploads /\ file' \in Uploads \cup {NoUpload}
        BY DEF FileTypeOK, objectVars
    <2> QED
        BY <2>1, <2>2, <2>3 DEF FileTypeOK, Codes
<1>6. TenancyInv'
    BY DEF TenancyInv
<1> QED
    BY <1>2, <1>3, <1>4, <1>5, <1>6

-----------------------------------------------------------------------------

LEMMA FileInvInit == FileInit => FileInv
<1> SUFFICES ASSUME FileInit
             PROVE  FileInv
    OBVIOUS
<1>1. Fresh.phase = "idle" /\ Fresh.answer = "none" /\ ~Fresh.big /\ Fresh.put = "none" /\ Fresh.rollback = "none"
    BY DEF Fresh
<1>2. TypeInv
    BY <1>1, FreshType DEF FileInit, TypeInv, FileTypeOK, RemoverState, NotRemoving
<1>3. \A u \in Uploads : RequestInv(u)
    BY <1>1 DEF FileInit, RequestInv
<1>4. TenancyInv
    BY DEF FileInit, TenancyInv
<1> QED
    BY <1>2, <1>3, <1>4 DEF FileInv

LEMMA FileInvStep == FileInv /\ [FileNext]_fileVars => FileInv'
<1> SUFFICES ASSUME FileInv, [FileNext]_fileVars
             PROVE  FileInv'
    OBVIOUS
<1>1. ASSUME NEW u \in Uploads,
             \/ Receives(u) \/ FieldNamedFile(u) \/ LimitReached(u) \/ LimitRolledBack(u) \/ LimitAnswered(u)
             \/ PutsTmpObject(u) \/ FormFinishes(u) \/ RollsBack(u) \/ Copies(u) \/ LostCopy(u) \/ RemovesTmpObject(u)
      PROVE  FileInv'
    BY <1>1, ReceivesInv, FieldNamedFileInv, LimitReachedInv, LimitRolledBackInv, LimitAnsweredInv, PutsTmpObjectInv,
       FormFinishesInv, RollsBackInv, CopiesInv, LostCopyInv, RemovesTmpObjectInv
<1>2. CASE DeletionStats \/ DeletionRemoves
    BY <1>2, DeletionsInv
<1>3. CASE TenantChanges \/ TakesCreation \/ TakesRemoval \/ Commits
    BY <1>3, TenancyEventsInv
<1>4. CASE Starts
    BY <1>4, StartsInv
<1>5. CASE SessionStarts \/ EnsuresBucket \/ PushesTenant
    BY <1>5, BucketCreationsInv
<1>6. ASSUME NEW r \in Removers, RemoverActs(r)
      PROVE  FileInv'
    BY <1>6, RemoverInv
<1>7. CASE Killed
    BY <1>7, KilledInv
<1>8. CASE UNCHANGED fileVars
    BY <1>8 DEF FileInv, TypeInv, FileTypeOK, RequestInv, TenancyInv, RemoverBusy, fileVars,
                serviceVars, objectVars, uploadVars, tenancyVars
<1> QED
    BY <1>1, <1>2, <1>3, <1>4, <1>5, <1>6, <1>7, <1>8 DEF FileNext, RemoverActs

LEMMA FileInvAlways == FileSpec => []FileInv
BY FileInvInit, FileInvStep, PTL DEF FileSpec

\* Every bucket the tenants of the list need is there, and a request that is over leaves a temporary object
\* behind only if MinIO failed it, it reached the limit or had a text field named 'file', or the service was killed.
THEOREM BucketsStaySound == FileSpec => []BucketsAreSound
<1>1. FileInv => BucketsAreSound
    <2>1. ASSUME FileInv, NEW u \in tmp, Through(upload[u])
          PROVE  u \in leftover
        BY <2>1 DEF FileInv, RequestInv, TypeInv, FileTypeOK, Through
    <2>2. FileInv => TenantsHaveBucket
        BY DEF FileInv, TenancyInv, TenantsHaveBucket
    <2> QED
        BY <2>1, <2>2 DEF BucketsAreSound, LeavesNoTemporaries
<1> QED
    BY <1>1, FileInvAlways, PTL

\* What a request, the bucket and the tenant's events may hold (UploadController, TenantService).
THEOREM FileTypeCorrect == FileSpec => []FileTypeOK
<1>1. FileInv => FileTypeOK
    BY DEF FileInv, TypeInv
<1> QED
    BY <1>1, FileInvAlways, PTL

-----------------------------------------------------------------------------
(* file-mgmt: the refinement of FileStore *)

StoreStep == [Files!StoreNext]_<<file, Pending, Overdue>>

\* A step that keeps the file, leaves every decided upload decided, and lets none be late that was not
\* pending.
LEMMA Decides ==
    ASSUME UNCHANGED file, Pending' \subseteq Pending, Overdue' \subseteq Overdue \cup Pending
    PROVE  StoreStep
<1>1. Pending' = Pending \ (Pending \ Pending')
    OBVIOUS
<1>2. Pending' \cap Overdue' = {}
    BY DEF Pending, Overdue
<1>3. Overdue' \subseteq Overdue \cup (Pending \ Pending')
    BY <1>2
<1>4. Files!Refuse(Pending \ Pending')
    BY <1>1, <1>3 DEF Files!Refuse
<1> QED
    BY <1>4 DEF StoreStep, Files!StoreNext

\* A step that may remove the file and touches no request.
LEMMA Discards ==
    ASSUME UNCHANGED upload, file' \in {file, NoUpload}
    PROVE  StoreStep
<1>1. Pending' = Pending /\ Overdue' = Overdue
    BY DEF Pending, Overdue
<1> QED
    BY <1>1 DEF StoreStep, Files!StoreNext, Files!Discard

\* A step of one request leaves the others as decided as they were.
IsPending(r) == r.answer = "none" /\ r.phase \notin {"copied", "over", "lost"}
IsLate(r) == r.phase = "lost" \/ (r.phase = "validate" /\ r.big /\ r.answer # "none")

LEMMA DecidesOne ==
    ASSUME NEW u \in Uploads, NEW r, FileInv, Becomes(u, r), UNCHANGED file,
           IsPending(r) => u \in Pending, IsLate(r) => u \in Pending \cup Overdue
    PROVE  StoreStep
<1>1. upload'[u] = r /\ \A w \in Uploads \ {u} : upload'[w] = upload[w]
    BY DEF Becomes, FileInv, TypeInv
<1>2. Pending' \subseteq Pending /\ Overdue' \subseteq Overdue \cup Pending
    BY <1>1 DEF Pending, Overdue, IsPending, IsLate
<1> QED
    BY <1>2, Decides

\* The controller works on an upload that is pending, or late.
LEMMA ValidatePending ==
    ASSUME FileInv, NEW u \in Uploads, upload[u].phase = "validate"
    PROVE  u \in Pending \cup Overdue
BY DEF FileInv, RequestInv, Pending, Overdue

LEMMA ReceivesStores ==
    ASSUME FileInv, NEW u \in Uploads, Receives(u)
    PROVE  StoreStep
<1>1. u \in Pending
    BY DEF Receives, FileInv, RequestInv, Pending
<1>2. UNCHANGED file
    BY DEF Receives, objectVars
<1> QED
    BY <1>1, <1>2, DecidesOne DEF Receives

\* A request that is not worked on by the controller is answered.
LEMMA FailureStores ==
    ASSUME FileInv, NEW u \in Uploads, UNCHANGED file, NEW r \in UploadState, NEW code \in Codes \ {"none"},
           Becomes(u, Fails(r, code)) \/ Becomes(u, Answered(r, code)),
           r.phase \in {"receiving", "over"} \/ u \in Pending \cup Overdue
    PROVE  StoreStep
<1>1. PICK n \in {Fails(r, code), Answered(r, code)} : Becomes(u, n)
    OBVIOUS
<1>2. n.answer # "none" /\ n.phase = r.phase
    BY FailsType, AnsweredType DEF SameRequest
<1> QED
    BY <1>1, <1>2, DecidesOne DEF IsPending, IsLate

LEMMA FieldNamedFileStores ==
    ASSUME FileInv, NEW u \in Uploads, FieldNamedFile(u)
    PROVE  StoreStep
<1>1. upload[u] \in UploadState /\ upload[u].phase = "receiving" /\ UNCHANGED file
    BY DEF FieldNamedFile, FileInv, TypeInv, objectVars
<1> QED
    BY <1>1, FailureStores DEF FieldNamedFile, Codes

LEMMA RollbackStores ==
    ASSUME FileInv, NEW u \in Uploads, LimitReached(u) \/ LimitRolledBack(u)
    PROVE  StoreStep
<1>1. PICK rollback \in {"sent", "removed"} : Becomes(u, [upload[u] EXCEPT !.rollback = rollback])
    BY DEF LimitReached, LimitRolledBack
<1> DEFINE o == [upload[u] EXCEPT !.rollback = rollback]
<1>2. o.phase = upload[u].phase /\ o.answer = upload[u].answer /\ o.big = upload[u].big
    BY DEF FileInv, TypeInv, UploadState
<1>3. Becomes(u, o) /\ UNCHANGED file
    BY <1>1 DEF LimitReached, LimitRolledBack, objectVars
<1> HIDE DEF o
<1> QED
    BY <1>2, <1>3, DecidesOne DEF IsPending, IsLate, Pending, Overdue

\* The limit's answer may come while the controller is at work: the upload is late then.
LEMMA LimitAnsweredStores ==
    ASSUME FileInv, NEW u \in Uploads, LimitAnswered(u)
    PROVE  StoreStep
<1> DEFINE o == [upload[u] EXCEPT !.rollback = "done"]
           n == Fails(o, "413")
<1>1. o \in UploadState /\ o.phase = upload[u].phase
    BY DEF FileInv, TypeInv, UploadState
<1>2. Becomes(u, n) /\ UNCHANGED file
    BY DEF LimitAnswered, objectVars
<1> HIDE DEF o
<1>3. n.answer # "none" /\ n.phase = upload[u].phase
    BY <1>1, FailsType DEF Codes, SameRequest
<1>4. upload[u].phase = "lost" => u \in Overdue
    BY DEF Overdue
<1> HIDE DEF n
<1> QED
    BY <1>2, <1>3, <1>4, ValidatePending, DecidesOne DEF IsPending, IsLate

\* The end of the form, or of the put, calls the controller only if the request is not answered.
LEMMA LoadedEndStores ==
    ASSUME FileInv, NEW u \in Uploads, UNCHANGED file, NEW o \in UploadState, Becomes(u, LoadedEnd(o)),
           upload[u].phase = "receiving", o.phase = "receiving", o.answer = upload[u].answer,
           o.called <=> upload[u].called
    PROVE  StoreStep
<1>1. LoadedEnd(o).answer = upload[u].answer
    BY LoadedEndType
<1>2. LoadedEnd(o).phase = "receiving" \/ (LoadedEnd(o).phase = "validate" /\ ~upload[u].called)
    BY LoadedEndType
<1>3. ~upload[u].called => upload[u].answer = "none"
    BY DEF FileInv, RequestInv
<1> QED
    BY <1>1, <1>2, <1>3, DecidesOne DEF IsPending, IsLate, Pending

LEMMA PutsTmpObjectStores ==
    ASSUME FileInv, NEW u \in Uploads, PutsTmpObject(u)
    PROVE  StoreStep
<1>1. upload[u] \in UploadState /\ upload[u].phase = "receiving" /\ UNCHANGED file
    BY DEF PutsTmpObject, FileInv, TypeInv, RequestInv
<1>2. CASE Becomes(u, LoadedEnd([upload[u] EXCEPT !.put = "done"]))
    <2> DEFINE o == [upload[u] EXCEPT !.put = "done"]
    <2>1. o \in UploadState /\ o.phase = "receiving" /\ o.answer = upload[u].answer /\ (o.called <=> upload[u].called)
        BY <1>1 DEF UploadState
    <2>2. Becomes(u, LoadedEnd(o))
        BY <1>2
    <2> HIDE DEF o
    <2> QED
        BY <1>1, <2>1, <2>2, LoadedEndStores
<1>3. CASE Becomes(u, Fails([upload[u] EXCEPT !.put = "failed"], "500"))
    <2> DEFINE o == [upload[u] EXCEPT !.put = "failed"]
    <2>1. o \in UploadState /\ o.phase = upload[u].phase
        BY <1>1 DEF UploadState
    <2>2. Becomes(u, Fails(o, "500"))
        BY <1>3
    <2> HIDE DEF o
    <2> QED
        BY <1>1, <2>1, <2>2, FailureStores DEF Codes
<1> QED
    BY <1>2, <1>3 DEF PutsTmpObject

LEMMA FormFinishesStores ==
    ASSUME FileInv, NEW u \in Uploads, FormFinishes(u)
    PROVE  StoreStep
<1> DEFINE o == [upload[u] EXCEPT !.finished = TRUE]
<1>1. upload[u] \in UploadState /\ upload[u].phase = "receiving" /\ UNCHANGED file
    BY DEF FormFinishes, FileInv, TypeInv, objectVars
<1>2. o \in UploadState /\ o.phase = "receiving" /\ o.answer = upload[u].answer /\ (o.called <=> upload[u].called)
    BY <1>1 DEF UploadState
<1>3. Becomes(u, LoadedEnd(o))
    BY DEF FormFinishes
<1> HIDE DEF o
<1> QED
    BY <1>1, <1>2, <1>3, LoadedEndStores

\* The end of a request decides it.
LEMMA EndStores ==
    ASSUME FileInv, NEW u \in Uploads, RollsBack(u) \/ RemovesTmpObject(u)
    PROVE  StoreStep
<1> DEFINE o == [upload[u] EXCEPT !.phase = "over"]
<1>1. o \in UploadState /\ o.phase = "over"
    BY DEF FileInv, TypeInv, UploadState
<1>2. UNCHANGED file
    BY DEF RollsBack, RemovesTmpObject
<1>3. PICK code \in Codes \ {"none"} : Becomes(u, Answered(o, code))
    BY DEF RollsBack, RemovesTmpObject, Codes
<1> HIDE DEF o
<1> QED
    BY <1>1, <1>2, <1>3, FailureStores

\* The copy is the step that stores.
LEMMA StoredStores ==
    ASSUME FileInv, NEW u \in Uploads, u \in Pending \cup Overdue, file' = u, NEW phase \in {"copied", "over"},
           Becomes(u, [upload[u] EXCEPT !.phase = phase])
    PROVE  StoreStep
<1>1. upload' = [upload EXCEPT ![u] = [upload[u] EXCEPT !.phase = phase]]
    BY DEF Becomes
<1>2. upload'[u].phase = phase /\ \A w \in Uploads \ {u} : upload'[w] = upload[w]
    BY <1>1 DEF FileInv, TypeInv, UploadState
<1>3. Pending' = Pending \ {u}
    BY <1>2 DEF Pending
<1>4. Overdue' = Overdue \ {u}
    BY <1>2 DEF Overdue
<1> QED
    BY <1>3, <1>4 DEF StoreStep, Files!StoreNext, Files!Store

LEMMA CopiesStores ==
    ASSUME FileInv, NEW u \in Uploads, Copies(u) \/ LostCopy(u)
    PROVE  StoreStep
<1>1. CASE file' = u /\ Becomes(u, [upload[u] EXCEPT !.phase = "copied"]) /\ upload[u].phase = "validate"
    BY <1>1, ValidatePending, StoredStores
<1>2. CASE LostCopy(u)
    BY <1>2, StoredStores DEF LostCopy, Overdue
<1>3. ASSUME NEW phase \in {"over", "lost"}, Becomes(u, Answered([upload[u] EXCEPT !.phase = phase], "500")),
             upload[u].phase = "validate", UNCHANGED file
      PROVE  StoreStep
    <2>1. [upload[u] EXCEPT !.phase = phase] \in UploadState
        BY DEF FileInv, TypeInv, UploadState
    <2> QED
        BY <1>3, <2>1, ValidatePending, FailureStores DEF Codes
<1> QED
    BY <1>1, <1>2, <1>3 DEF Copies

\* A kill decides what was being handled, and nothing that was not; a copy under way is late.
LEMMA KilledStores ==
    ASSUME FileInv, Killed
    PROVE  StoreStep
<1>1. ASSUME NEW u \in Uploads
      PROVE  /\ upload'[u].phase \in {"idle", "lost", "over"}
             /\ upload'[u].phase = "idle" => upload[u].phase = "idle"
             /\ upload'[u].phase = "lost" => upload[u].phase \in {"lost", "validate"}
    <2>1. upload'[u] = Forgotten(upload[u])
        BY DEF Killed
    <2> QED
        BY <2>1 DEF Forgotten, Fresh
<1>2. Pending' \subseteq Pending
    BY <1>1 DEF FileInv, RequestInv, Pending
<1>3. Overdue' \subseteq Overdue \cup Pending
    <2>1. ASSUME NEW u \in Overdue'
          PROVE  u \in Overdue \cup Pending
        <3>1. u \in Uploads /\ upload[u].phase \in {"lost", "validate"}
            BY <1>1 DEF Overdue
        <3> QED
            BY <3>1, ValidatePending DEF Overdue
    <2> QED
        BY <2>1
<1>4. UNCHANGED file
    BY DEF Killed, objectVars
<1> QED
    BY <1>2, <1>3, <1>4, Decides

LEMMA StoreStepAlways == FileInv /\ [FileNext]_fileVars => StoreStep
<1> SUFFICES ASSUME FileInv, [FileNext]_fileVars
             PROVE  StoreStep
    OBVIOUS
<1>1. ASSUME NEW u \in Uploads,
             \/ Receives(u) \/ FieldNamedFile(u) \/ LimitReached(u) \/ LimitRolledBack(u) \/ LimitAnswered(u)
             \/ PutsTmpObject(u) \/ FormFinishes(u) \/ RollsBack(u) \/ Copies(u) \/ LostCopy(u) \/ RemovesTmpObject(u)
      PROVE  StoreStep
    BY <1>1, ReceivesStores, FieldNamedFileStores, RollbackStores, LimitAnsweredStores, PutsTmpObjectStores,
       FormFinishesStores, EndStores, CopiesStores
<1>2. CASE \/ DeletionStats \/ DeletionRemoves \/ TenantChanges \/ Starts \/ TakesCreation \/ TakesRemoval
           \/ Commits \/ SessionStarts \/ EnsuresBucket \/ PushesTenant
    <2>1. UNCHANGED upload /\ file' \in {file, NoUpload}
        BY <1>2 DEF DeletionStats, DeletionRemoves, TenantChanges, Starts, TakesCreation, TakesRemoval,
                    Commits, SessionStarts, EnsuresBucket, PushesTenant, objectVars, uploadVars
    <2> QED
        BY <2>1, Discards
<1>3. ASSUME NEW r \in Removers, RemoverActs(r)
      PROVE  StoreStep
    <2>1. UNCHANGED upload /\ file' \in {file, NoUpload}
        BY <1>3 DEF RemoverActs, RemoverLists, RemoverEmpties, RemoverRemoves, objectVars, uploadVars
    <2> QED
        BY <2>1, Discards
<1>4. CASE Killed
    BY <1>4, KilledStores
<1>5. CASE UNCHANGED fileVars
    BY <1>5, Discards DEF fileVars, objectVars, uploadVars
<1> QED
    BY <1>1, <1>2, <1>3, <1>4, <1>5 DEF FileNext, RemoverActs

\* file-mgmt implements the abstract store of one path: whatever uploads, limits, rollbacks, removals of the
\* file and of the tenant, and restarts do at once, the path holds nothing or one upload, stored in one step
\* and at most once, and after its client was refused only if its copy was on the way when it was.
THEOREM FileMgmtImplementsStore == FileSpec => StoresAtomically
<1>1. FileInit => Files!StoreInit
    BY DEF FileInit, Files!StoreInit, Pending, Overdue, Fresh
<1>2. FileInv /\ [FileNext]_fileVars => [Files!StoreNext]_<<file, Pending, Overdue>>
    BY StoreStepAlways DEF StoreStep
<1> QED
    BY <1>1, <1>2, FileInvAlways, PTL DEF FileSpec, StoresAtomically, Files!StoreSpec

=============================================================================
