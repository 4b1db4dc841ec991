-------------------------- MODULE MCCertificateAcl --------------------------
(* certificate-acl alone, on one certificate and two partitions. *)
EXTENDS CertificateAcl, TLC

CONSTANTS f1, d1, d2, p1, p2, q1

MCFingerprints == {f1}
MCDevices == {d1, d2}
MCPartitions == {p1, p2}
MCMaxRecords == p1 :> 2 @@ p2 :> 1
MCPartitionOf == d1 :> p1 @@ d2 :> p2
=============================================================================
