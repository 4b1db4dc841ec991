----------------------------- MODULE MCKafkaWs ------------------------------
(* Two sessions of one tenant, who may present the same ticket, on a topic of  *)
(* their own or of another tenant.                                            *)
EXTENDS KafkaWs, TLC

CONSTANTS s1, s2, a, b, ta, tb, k1, r1

MCSessions == {s1, s2}
MCTopics == {ta, tb}
MCTickets == {k1}
MCTenantOf == ta :> a @@ tb :> b
MCHolderOf == k1 :> a
=============================================================================
