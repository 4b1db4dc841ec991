-------------------------- MODULE OwnershipEvents --------------------------
(***************************************************************************)
(* The ownership events that x509-identity-mgmt publishes to Kafka and     *)
(* certificate-acl consumes: who can own a certificate, what an event      *)
(* says, and on which partition it lands.                                  *)
(***************************************************************************)
EXTENDS Naturals, Sequences, FiniteSets

CONSTANTS
    Fingerprints,   \* certificates, by fingerprint
    Devices,        \* owners inside a tenant
    Applications,   \* owners without a tenant (vernemq, v2k-bridge, ...)
    NoOwner,        \* belongsTo is empty; also: no entry in Redis
    Partitions,     \* partitions of all topics the ACL's regex matches
    PartitionOf     \* owner -> partition its partition key hashes to

Owners == Devices \cup Applications

ASSUME OwnersAssumption == NoOwner \notin Owners
ASSUME PartitionAssumption == PartitionOf \in [Owners -> Partitions]
ASSUME PartitionsAreFinite == IsFiniteSet(Partitions)

VARIABLE
    log             \* log[p]: the records of partition p; offset o is log[p][o + 1]

\* "foreign" stands for a record whose eventType the ACL does not know,
\* "malformed" for one that is not JSON or lacks a mandatory attribute.
EventTypes == {"create", "update", "delete", "foreign", "malformed"}

OwnershipEvent == [type : EventTypes, fp : Fingerprints, owner : Owners \cup {NoOwner}]

LogTypeOK == log \in [Partitions -> Seq(OwnershipEvent)]

InitLog == log = [p \in Partitions |-> << >>]

Creation(f, o) == [type |-> "create", fp |-> f, owner |-> o]
Change(f, o)   == [type |-> "update", fp |-> f, owner |-> o]
Removal(f)     == [type |-> "delete", fp |-> f, owner |-> NoOwner]

\* The broker appends e to the partition that the key selects.
Append2Partition(p, e) == log' = [log EXCEPT ![p] = Append(@, e)]

\* Does the event decide who owns f?
Decides(e, f) == e.fp = f /\ e.type \in {"create", "update", "delete"}

\* The offsets of partition p that decide who owns f.
OffsetsOf(p, f) == {o \in 0 .. Len(log[p]) - 1 : Decides(log[p][o + 1], f)}

Latest(S) == CHOOSE x \in S : \A y \in S : y <= x

\* The owner the last event of f in partition p leaves.
OutcomeIn(p, f) == log[p][Latest(OffsetsOf(p, f)) + 1].owner

=============================================================================
