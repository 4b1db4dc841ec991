------------------------- MODULE MCTrustedCAService -------------------------
(* Two concurrent requests on one external certificate, one that the internal  *)
(* CA issues, and two root CAs of which one may be registered.                 *)
EXTENDS TrustedCAService, TLC

CONSTANTS ext, int, d1, d2, app, p1, ca1, ca2, c1, c2

MCFingerprints == {ext, int}
MCDevices == {d1, d2}
MCPartitionOf == [o \in {d1, d2, app} |-> p1]
MCCaOf == ext :> ca1

\* Clients run the same code; both devices' events go to the one partition.
MCSymmetry == Permutations({c1, c2}) \cup Permutations({d1, d2})
=============================================================================
