------------------------- MODULE OwnershipPipeline --------------------------
(***************************************************************************)
(* x509-identity-mgmt and certificate-acl, joined by Kafka: the events one *)
(* publishes are the log the other consumes, and the owner a query asks    *)
(* for is the one in the database at that moment.                          *)
(***************************************************************************)
EXTENDS CertificateService, CertificateAcl

vars == <<log, svcVars, aclVars>>

Init == InitLog /\ SvcInit /\ AclInit

\* GET /internal/api/v1/certificates/:fp?fields=tenant,belongsTo
ServiceAnswersFromDb(q) ==
    /\ query[q].phase = "asking"
    /\ ServiceAnswers(q, DbOwner(query[q].fp))

Next ==
    \/ SvcStep /\ UNCHANGED aclVars
    \/ AclStep /\ UNCHANGED svcVars
    \/ (\E q \in Queries : ServiceAnswersFromDb(q)) /\ UNCHANGED svcVars

Spec == Init /\ [][Next]_vars

-----------------------------------------------------------------------------
\* All requests have ended and the consumer has nothing left to do.
Settled == CaughtUp /\ \A c \in Clients : req[c].phase = "idle"

\* The certificates whose requests followed one another and were announced,
\* and whose entry no query has written.
Orderly == Fingerprints \ (lost \cup contended \cup filled)

\* End to end, once everything has settled Redis names the owner the database
\* has, through crashes and redeliveries on either side, provided the events
\* of the certificate went to one partition.
AclMatchesDb ==
    Settled =>
        \A f \in Orderly :
            Recorded(f) /\ Cardinality({p \in Partitions : OffsetsOf(p, f) # {}}) <= 1
                => redis[f] = DbOwner(f)

\* The same without the proviso, which the code gives no ground for: the
\* partition key is the owner, so a change of owner moves to another partition.
SequentialChangesReachAcl ==
    Settled => \A f \in Orderly : Recorded(f) => redis[f] = DbOwner(f)

=============================================================================
