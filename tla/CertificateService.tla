------------------------- MODULE CertificateService -------------------------
(***************************************************************************)
(* x509-identity-mgmt: the certificate records in MongoDB, the requests of *)
(* its REST API, and the ownership event each request publishes.           *)
(*                                                                         *)
(* A request is a chain of awaited steps.  Its database write and its      *)
(* event are separate: other requests run in between, the process may die  *)
(* there, and the event may fail to be published.                          *)
(***************************************************************************)
EXTENDS OwnershipEvents

CONSTANTS
    Clients,        \* concurrent requests
    External,       \* fingerprints of certificates issued elsewhere
    MaxRequests,    \* bound: requests over a behaviour
    MaxLosses,      \* bound: failed revocations, failed productions, crashes
    MaxRetries      \* bound: retries of the Kafka producer over a behaviour

ASSUME ClientsAssumption == IsFiniteSet(Clients) /\ Clients # {}
ASSUME ServiceBounds == {MaxRequests, MaxLosses, MaxRetries} \subseteq Nat
ASSUME ExternalAssumption == External \subseteq Fingerprints

VARIABLES
    docs,           \* the collection 'certificates', in insertion order
    req,            \* req[c]: the request of client c
    issued,         \* fingerprints EJBCA has issued
    announced,      \* history: the owner said by the last event of f
    lost,           \* history: fingerprints whose write was not announced
    contended,      \* history: fingerprints two requests worked on at once
    requests, losses, retries   \* counters for the bounds

svcVars == <<docs, req, issued, announced, lost, contended, requests, losses, retries>>

Doc == [id : Nat, fp : Fingerprints, owner : Devices \cup {NoOwner}, internal : BOOLEAN]
NoDoc == [id |-> 0, fp |-> NoOwner, owner |-> NoOwner, internal |-> FALSE]

\* A request: what it waits for, the record it holds, and the event to publish
\* with the owner its partition key is made of.
Idle == [phase |-> "idle", rec |-> NoDoc, event |-> << >>, key |-> NoOwner]
Saving(d)   == [Idle EXCEPT !.phase = "save", !.rec = d]
Deleting(d) == [Idle EXCEPT !.phase = "delete", !.rec = d]
Revoking(d) == [Idle EXCEPT !.phase = "revoke", !.rec = d]
Notifying(d, e, k) == [phase |-> "notify", rec |-> d, event |-> e, key |-> k]

\* OwnershipNotifier.creation, change and removal: nothing is published for a
\* certificate that belongs (belonged) to nobody.
NotifyCreation(d, o) ==
    IF o = NoOwner THEN Idle ELSE Notifying(d, Creation(d.fp, o), o)
NotifyRemoval(d, prev) ==
    IF prev = NoOwner THEN Idle ELSE Notifying(d, Removal(d.fp), prev)
\* Mutant: the previous and the current owner are swapped.
NotifyChangeSwapped(d, prev, o) ==
    IF prev = o THEN Idle
    ELSE IF prev = NoOwner THEN NotifyCreation(d, o)
    ELSE IF o = NoOwner THEN NotifyRemoval(d, prev)
    ELSE Notifying(d, Change(d.fp, prev), prev)
\* changeOwnership: isDiff and determineNotificationType.
NotifyChange(d, prev, o) ==
    IF prev = o THEN Idle
    ELSE IF prev = NoOwner THEN NotifyCreation(d, o)
    ELSE IF o = NoOwner THEN NotifyRemoval(d, prev)
    ELSE Notifying(d, Change(d.fp, o), o)

\* findOne and findOneAndUpdate take the first record of the fingerprint.
RecordsOf(f) == {i \in DOMAIN docs : docs[i].fp = f}
FirstOf(f) == CHOOSE i \in RecordsOf(f) : \A j \in RecordsOf(f) : i <= j
DbOwner(f) == IF RecordsOf(f) = {} THEN NoOwner ELSE docs[FirstOf(f)].owner

\* The records without the i-th.
Without(s, i) == [j \in 1 .. Len(s) - 1 |-> IF j < i THEN s[j] ELSE s[j + 1]]

NewDoc(f, o, internal) ==
    [id |-> requests, fp |-> f, owner |-> o, internal |-> internal]

InProgress(f) == {c \in Clients : req[c].phase # "idle" /\ req[c].rec.fp = f}

\* Client c begins a request on certificate f.
Begin(c, f) ==
    /\ req[c].phase = "idle"
    /\ requests < MaxRequests
    /\ requests' = requests + 1
    /\ contended' = IF InProgress(f) = {} THEN contended ELSE contended \cup {f}
    /\ UNCHANGED <<announced, lost, losses, retries>>

SvcInit ==
    /\ docs = << >>
    /\ req = [c \in Clients |-> Idle]
    /\ issued = {}
    /\ announced = [f \in Fingerprints |-> NoOwner]
    /\ lost = {}
    /\ contended = {}
    /\ requests = 0
    /\ losses = 0
    /\ retries = 0

-----------------------------------------------------------------------------
(* Requests.  The checks that precede the first write (the CSR, the owner    *)
(* device, the CA and its chain of trust) end the request without effect.    *)

\* POST /certificates with a CSR: EJBCA issues, the record is saved.  One step,
\* for nobody else can name the new certificate before it is saved.
GenerateCertificate(c, f, o) ==
    /\ f \in Fingerprints \ (External \cup issued)
    /\ Begin(c, f)
    /\ issued' = issued \cup {f}
    /\ docs' = Append(docs, NewDoc(f, o, TRUE))
    /\ req' = [req EXCEPT ![c] = NotifyCreation(NewDoc(f, o, TRUE), o)]
    /\ UNCHANGED log

\* Mutant: the certificate of an application is recorded like a device's.
ThrowAwayCertificateKept(c, f, a) ==
    /\ f \in Fingerprints \ (External \cup issued)
    /\ Begin(c, f)
    /\ issued' = issued \cup {f}
    /\ docs' = Append(docs, NewDoc(f, a, TRUE))
    /\ req' = [req EXCEPT ![c] = NotifyCreation(NewDoc(f, NoOwner, TRUE), a)]
    /\ UNCHANGED log

\* POST /internal/throw-away: issued for an application, no record is kept.
ThrowAwayCertificate(c, f, a) ==
    /\ f \in Fingerprints \ (External \cup issued)
    /\ Begin(c, f)
    /\ issued' = issued \cup {f}
    /\ req' = [req EXCEPT ![c] = NotifyCreation(NewDoc(f, NoOwner, TRUE), a)]
    /\ UNCHANGED <<log, docs>>

\* POST /certificates with a chain: checkExistingCertificate finds no record...
RegisterChecks(c, f, o) ==
    /\ f \in External
    /\ RecordsOf(f) = {}
    /\ Begin(c, f)
    /\ req' = [req EXCEPT ![c] = Saving(NewDoc(f, o, FALSE))]
    /\ UNCHANGED <<log, docs, issued>>

\* ... and, several awaits later, the record is saved.
RegisterSaves(c) ==
    /\ req[c].phase = "save"
    /\ docs' = Append(docs, req[c].rec)
    /\ req' = [req EXCEPT ![c] = NotifyCreation(@.rec, @.rec.owner)]
    /\ UNCHANGED <<log, issued, announced, lost, contended, requests, losses, retries>>

\* Mutant: the update returns the record as it has become.
ChangeOwnershipReturningNew(c, f, o) ==
    /\ RecordsOf(f) # {}
    /\ Begin(c, f)
    /\ docs' = [docs EXCEPT ![FirstOf(f)].owner = o]
    /\ req' = [req EXCEPT ![c] = NotifyChange(docs'[FirstOf(f)], docs'[FirstOf(f)].owner, o)]
    /\ UNCHANGED <<log, issued>>

\* PATCH /certificates/:fp, and DELETE .../belongsto with no owner: one atomic
\* findOneAndUpdate, which returns the record as it was.
ChangeOwnership(c, f, o) ==
    /\ RecordsOf(f) # {}
    /\ Begin(c, f)
    /\ LET i == FirstOf(f) IN
        /\ docs' = [docs EXCEPT ![i].owner = o]
        /\ req' = [req EXCEPT ![c] = NotifyChange(docs[i], docs[i].owner, o)]
    /\ UNCHANGED <<log, issued>>

\* DELETE /certificates/:fp: getCertificate...
DeleteReads(c, f) ==
    /\ RecordsOf(f) # {}
    /\ Begin(c, f)
    /\ req' = [req EXCEPT ![c] = Deleting(docs[FirstOf(f)])]
    /\ UNCHANGED <<log, docs, issued>>

\* ... findByIdAndDelete, which does not mind a record that is gone ...
DeleteRemoves(c) ==
    /\ req[c].phase = "delete"
    /\ \/ \E i \in DOMAIN docs : docs[i].id = req[c].rec.id /\ docs' = Without(docs, i)
       \/ (\A i \in DOMAIN docs : docs[i].id # req[c].rec.id) /\ UNCHANGED docs
    /\ req' = [req EXCEPT ![c] =
                  IF @.rec.internal THEN Revoking(@.rec)
                  ELSE NotifyRemoval(@.rec, @.rec.owner)]
    /\ UNCHANGED <<log, issued, announced, lost, contended, requests, losses, retries>>

\* ... and the revocation at EJBCA, of a certificate it issued.
DeleteRevokes(c) ==
    /\ req[c].phase = "revoke"
    /\ req' = [req EXCEPT ![c] = NotifyRemoval(@.rec, @.rec.owner)]
    /\ UNCHANGED <<log, docs, issued, announced, lost, contended, requests, losses, retries>>

\* A request past its write has yet to announce it.
Unannounced(C) == {req[c].rec.fp : c \in {x \in C : req[x].phase \in {"revoke", "notify"}}}

\* MongoDB, EJBCA or Kafka fails: the request ends with an error, and an event
\* it had to publish never is.
Fails(c) ==
    /\ req[c].phase # "idle"
    /\ losses < MaxLosses
    /\ losses' = losses + 1
    /\ lost' = lost \cup Unannounced({c})
    /\ req' = [req EXCEPT ![c] = Idle]
    /\ UNCHANGED <<log, docs, issued, announced, contended, requests, retries>>

\* The broker appends the event.
Produce(c) ==
    /\ req[c].phase = "notify"
    /\ Append2Partition(PartitionOf[req[c].key], req[c].event)
    /\ announced' = [announced EXCEPT ![req[c].event.fp] = req[c].event.owner]
    /\ UNCHANGED <<docs, issued, lost, contended, requests, losses>>

\* The delivery report arrives: the request ends.
Notifies(c) ==
    /\ Produce(c)
    /\ req' = [req EXCEPT ![c] = Idle]
    /\ UNCHANGED retries

\* The broker's answer is lost and the producer, not idempotent, sends again.
NotifiesAgain(c) ==
    /\ retries < MaxRetries
    /\ retries' = retries + 1
    /\ Produce(c)
    /\ UNCHANGED req

\* The process dies: every request is cut where it stands.
Crash ==
    /\ losses < MaxLosses
    /\ \E c \in Clients : req[c].phase # "idle"
    /\ losses' = losses + 1
    /\ lost' = lost \cup Unannounced(Clients)
    /\ req' = [c \in Clients |-> Idle]
    /\ UNCHANGED <<log, docs, issued, announced, contended, requests, retries>>

SvcProgress(c) ==
    RegisterSaves(c) \/ DeleteRemoves(c) \/ DeleteRevokes(c) \/ Notifies(c)

\* Requests other than the registration of an external certificate.
OtherRequest(c) ==
    \E f \in Fingerprints :
        \/ \E o \in Devices \cup {NoOwner} :
            GenerateCertificate(c, f, o) \/ ChangeOwnership(c, f, o)
        \/ \E a \in Applications : ThrowAwayCertificate(c, f, a)
        \/ DeleteReads(c, f)

SvcStep ==
    \/ \E c \in Clients :
        \/ OtherRequest(c)
        \/ \E f \in Fingerprints, o \in Devices \cup {NoOwner} : RegisterChecks(c, f, o)
        \/ SvcProgress(c) \/ NotifiesAgain(c) \/ Fails(c)
    \/ Crash

-----------------------------------------------------------------------------
(* Properties *)

Request ==
    [phase : {"idle", "save", "delete", "revoke", "notify"}, rec : Doc \cup {NoDoc},
     event : OwnershipEvent \cup {<< >>}, key : Owners \cup {NoOwner}]

\* Shapes of the state of x509-identity-mgmt.
SvcTypeOK ==
    /\ LogTypeOK
    /\ docs \in Seq(Doc)
    /\ req \in [Clients -> Request]
    /\ issued \subseteq Fingerprints
    /\ announced \in [Fingerprints -> Owners \cup {NoOwner}]
    /\ lost \subseteq Fingerprints
    /\ contended \subseteq Fingerprints
    /\ {requests, losses, retries} \subseteq Nat

Quiet(f) == InProgress(f) = {}

\* A certificate no application owns: the database, not a throw-away, decides.
Recorded(f) == announced[f] \notin Applications

\* When requests on a certificate follow one another and none fails, the last
\* event published for it says what the database says: a chain of creations,
\* changes, removals, deletions and re-registrations never leaves the two apart.
LogFollowsDb ==
    \A f \in Fingerprints \ (lost \cup contended) :
        Quiet(f) /\ Recorded(f) => announced[f] = DbOwner(f)

\* Some event has said that o owns f (NoOwner: that nobody does).
Announced(f, o) ==
    \E p \in Partitions : \E i \in OffsetsOf(p, f) : log[p][i + 1].owner = o

\* The owners that the records of f name.
OwnersInDb(f) == {docs[i].owner : i \in RecordsOf(f)} \ {NoOwner}

\* Even when requests overlap, in any interleaving of their writes and events,
\* and even on the duplicate records two registrations can leave, every owner a
\* record holds has been announced.
EveryOwnerAnnounced ==
    \A f \in Fingerprints \ lost :
        Quiet(f) => \A o \in OwnersInDb(f) : Announced(f, o)

\* deleteCertificate "notifies the removal of ownership if the certificate
\* belonged to an owner before": a certificate announced as a device's, and
\* that no record gives to anybody, has had a removal announced.  It judges by
\* the record read before the deletion.
RemovalAnnounced ==
    \A f \in Fingerprints \ lost :
        Quiet(f) /\ OwnersInDb(f) = {} /\ (\E o \in Devices : Announced(f, o))
            => Announced(f, NoOwner)

=============================================================================
