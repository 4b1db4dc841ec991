------------------------ MODULE MCOwnershipPipeline -------------------------
(* One external certificate whose owner changes between two devices, whose     *)
(* events go to one partition of the tenant's topic or to two.                 *)
EXTENDS OwnershipPipeline, TLC

CONSTANTS ext, d1, d2, p1, p2, c1, q1

MCDevices == {d1, d2}
OnePartition == [o \in MCDevices |-> p1]
TwoPartitions == d1 :> p1 @@ d2 :> p2

\* Only certificate-acl on its own limits what producers append.
MCMaxRecords == [p \in Partitions |-> 0]
=============================================================================
