---- MODULE MCRecovery ----
(***************************************************************************)
(* The components that have to recover: the two bridges, the disconnect    *)
(* plugin and the basic authentication.  They do not share state: each     *)
(* behaviour is one of the component "subject" names, the others resting,  *)
(* so that the run explores the sum of their behaviours, not the product.  *)
(***************************************************************************)
EXTENDS V2kBridge, K2vBridge, DisconnectPlugin, BasicCredentials

VARIABLE subject

Subjects == {"v2k", "k2v", "disconnect", "basic"}

RecoveryInit ==
    /\ subject \in Subjects
    /\ V2kInit /\ K2vInit /\ DisconnectInit /\ BasicInit
    \* One initial state of a component at rest is enough.
    /\ subject # "basic" => tenantThere /\ bare /\ \A d \in Things : thing[d] = "new"

\* Bound: no deletion of the tenant and no failed call beside an answer of
\* the device manager that is cut or is no array.
OneOddity == (bare /\ ~cut) \/ deletions + errors = 0

RecoveryNext ==
    /\ UNCHANGED subject
    /\ \/ subject = "v2k" /\ V2kNext /\ UNCHANGED <<k2vVars, disconnectVars, basicVars>>
       \/ subject = "k2v" /\ K2vNext /\ UNCHANGED <<v2kVars, disconnectVars, basicVars>>
       \/ subject = "disconnect" /\ DisconnectNext /\ UNCHANGED <<v2kVars, k2vVars, basicVars>>
       \/ subject = "basic" /\ BasicNext /\ OneOddity' /\ UNCHANGED <<v2kVars, k2vVars, disconnectVars>>

\* V2kFairness, K2vFairness, DisconnectFairness and BasicFairness, each of
\* the component that runs.
RecoveryFairness ==
    /\ WF_v2kVars(subject = "v2k" /\ OnConnect) /\ WF_v2kVars(subject = "v2k" /\ OnClose)
    /\ WF_v2kVars(subject = "v2k" /\ Works) /\ WF_v2kVars(subject = "v2k" /\ HealthCheck)
    /\ WF_k2vVars(subject = "k2v" /\ Connects)
    /\ \A c \in Consumers :
        /\ WF_k2vVars(subject = "k2v" /\ InitEnds(c)) /\ WF_k2vVars(subject = "k2v" /\ FinishEnds(c))
        /\ WF_k2vVars(subject = "k2v" /\ \E a \in Actuations : Takes(c, a))
    /\ \A c \in Clients, t \in 1..MaxSessions : WF_disconnectVars(subject = "disconnect" /\ Fires(c, t))
    /\ \A p \in Posts : WF_basicVars(subject = "basic" /\ PostSteps(p))
    /\ \A s \in Syncs : /\ WF_basicVars(subject = "basic" /\ SyncSteps(s))
                        /\ WF_basicVars(subject = "basic" /\ SyncBegins(s))

RecoverySpec ==
    /\ RecoveryInit /\ [][RecoveryNext]_<<subject, v2kVars, k2vVars, disconnectVars, basicVars>>
    /\ RecoveryFairness

RecoveryTypeOK ==
    /\ subject \in Subjects
    /\ V2kTypeOK /\ K2vTypeOK /\ DisconnectTypeOK /\ BasicTypeOK

\* BridgeRecovers, of the bridge that runs.
RunningBridgeRecovers == subject = "v2k" => BridgeRecovers

\* ActuationsPublished, of the bridge that runs.
RunningActuationsPublished == subject = "k2v" => ActuationsPublished
====
