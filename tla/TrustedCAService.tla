-------------------------- MODULE TrustedCAService --------------------------
(***************************************************************************)
(* The trusted CAs of one tenant in x509-identity-mgmt, and what the       *)
(* registration of an external certificate asks of them: its root CA must  *)
(* be registered, or be registered on the way.                             *)
(*                                                                         *)
(* Every check is a query of its own, and the writes come awaits later;    *)
(* neither the limit of CAs nor the dependency of a certificate on its CA  *)
(* is guarded by an index, a lock or a transaction.                        *)
(***************************************************************************)
EXTENDS CertificateService

CONSTANTS
    CAs,            \* root CAs, by fingerprint
    CaOf,           \* external certificate -> the root CA of its chain
    CaLimit,        \* certificate.external.ca.limit, when it is set (-1: no limit)
    AutoRegistration    \* certificate.external.ca.auto.registration

ASSUME CaAssumption ==
    /\ CaOf \in [External -> CAs]
    /\ CaLimit \in Nat
    /\ AutoRegistration \in BOOLEAN

VARIABLES
    cas,            \* the collection 'trustedcas': a set of [id, ca]
    caReq,          \* caReq[c]: what client c's request is doing to a CA
    caRaced         \* history: CAs removed while a registration relied on them

caVars == <<cas, caReq, caRaced>>
tcaVars == <<log, svcVars, caVars>>

\* A request at work on a CA: the step it waits for, the CA, the record to save
\* or to remove, whether it serves the registration of a certificate, and whether
\* that one's chain brings the root CA along.
CaIdle == [phase |-> "idle", ca |-> NoOwner, id |-> 0, forCert |-> FALSE, root |-> FALSE]
At(phase, ca) == [CaIdle EXCEPT !.phase = phase, !.ca = ca, !.id = requests]

IsRegistered(ca) == \E r \in cas : r.ca = ca

\* The certificates countDocuments finds dependent on the CA.
Dependents(ca) == {i \in DOMAIN docs : docs[i].fp \in External /\ CaOf[docs[i].fp] = ca}

\* Requests that have found the CA registered, or registered it, and not saved
\* the certificate yet; and requests that are removing the CA.
Relying(ca) ==
    {c \in Clients : caReq[c].forCert /\ caReq[c].ca = ca /\ caReq[c].phase \in {"notify", "trusted"}}
Removing(ca) == {c \in Clients : caReq[c].ca = ca /\ caReq[c].phase \in {"count", "remove"}}

Move(c, phase) == caReq' = [caReq EXCEPT ![c].phase = phase]

\* The request ends with an error, the registration it serves included.
Abort(c) ==
    /\ caReq' = [caReq EXCEPT ![c] = CaIdle]
    /\ req' = [req EXCEPT ![c] = Idle]

TcaInit ==
    /\ InitLog
    /\ SvcInit
    /\ cas = {}
    /\ caReq = [c \in Clients |-> CaIdle]
    /\ caRaced = {}

-----------------------------------------------------------------------------
(* registerCertificate of CertificateService, with its CA *)

\* The certificate is not registered yet: look for its CA.
RegisterNeedsCa(c, f, o) ==
    /\ caReq[c] = CaIdle
    /\ RegisterChecks(c, f, o)
    /\ \E root \in BOOLEAN :
        caReq' = [caReq EXCEPT ![c] = [At("lookup", CaOf[f]) EXCEPT !.forCert = TRUE, !.root = root]]
    /\ UNCHANGED <<cas, caRaced>>

\* getPEM.  A CA that is missing is registered if the chain brought it and
\* the configuration allows it.
LookUpCa(c) ==
    /\ caReq[c].phase = "lookup"
    /\ IF IsRegistered(caReq[c].ca) THEN Move(c, "trusted") /\ UNCHANGED req
       ELSE IF AutoRegistration /\ caReq[c].root THEN Move(c, "limit") /\ UNCHANGED req
       ELSE Abort(c)
    /\ UNCHANGED <<log, docs, issued, announced, lost, contended, requests, losses,
                   retries, cas, caRaced>>

\* With a trusted CA the certificate is saved.
RegisterSavesTrusted(c) ==
    /\ caReq[c].phase = "trusted"
    /\ RegisterSaves(c)
    /\ caReq' = [caReq EXCEPT ![c] = CaIdle]
    /\ caRaced' = IF Removing(caReq[c].ca) # {} THEN caRaced \cup {caReq[c].ca} ELSE caRaced
    /\ UNCHANGED cas

-----------------------------------------------------------------------------
(* TrustedCAService *)

caUnchanged == <<log, docs, issued, announced, lost, contended, losses, retries>>

\* A request on a CA begins.
BeginCa(c, work) ==
    /\ req[c] = Idle
    /\ caReq[c] = CaIdle
    /\ requests < MaxRequests
    /\ requests' = requests + 1
    /\ caReq' = [caReq EXCEPT ![c] = work]
    /\ UNCHANGED <<caUnchanged, req, cas, caRaced>>

\* POST /trusted-cas
PostCa(c, ca) == BeginCa(c, At("limit", ca))

\* Mutant: the limit is checked off by one.
CheckLimitOffByOne(c) ==
    /\ caReq[c].phase = "limit"
    /\ IF Cardinality(cas) > CaLimit THEN Abort(c) ELSE Move(c, "exists") /\ UNCHANGED req
    /\ UNCHANGED <<caUnchanged, requests, cas, caRaced>>

\* checkCACertLimitByTenant
CheckLimit(c) ==
    /\ caReq[c].phase = "limit"
    /\ IF Cardinality(cas) >= CaLimit THEN Abort(c) ELSE Move(c, "exists") /\ UNCHANGED req
    /\ UNCHANGED <<caUnchanged, requests, cas, caRaced>>

\* checkExistingCertificate
CheckExistingCa(c) ==
    /\ caReq[c].phase = "exists"
    /\ IF IsRegistered(caReq[c].ca) THEN Abort(c) ELSE Move(c, "save") /\ UNCHANGED req
    /\ UNCHANGED <<caUnchanged, requests, cas, caRaced>>

\* model.save()
SaveCa(c) ==
    /\ caReq[c].phase = "save"
    /\ cas' = cas \cup {[id |-> caReq[c].id, ca |-> caReq[c].ca]}
    /\ Move(c, "notify")
    /\ UNCHANGED <<caUnchanged, requests, req, caRaced>>

\* DELETE /trusted-cas/:fp: getCertificate, which takes one of the duplicates
\* that concurrent registrations may have left...
DeleteCaReads(c, ca) ==
    \E r \in cas :
        /\ r.ca = ca
        /\ BeginCa(c, [At("count", ca) EXCEPT !.id = r.id])

\* Mutant: only certificates marked autoRegistered, of which there are none, count.
CountDependentsMarked(c) ==
    /\ caReq[c].phase = "count"
    /\ Move(c, "remove")
    /\ UNCHANGED <<caUnchanged, requests, req, cas, caRaced>>

\* ... no certificate may depend on it (deleteMany of autoRegistered ones finds
\* none: nothing sets that attribute) ...
CountDependents(c) ==
    /\ caReq[c].phase = "count"
    /\ IF Dependents(caReq[c].ca) # {} THEN Abort(c) ELSE Move(c, "remove") /\ UNCHANGED req
    /\ UNCHANGED <<caUnchanged, requests, cas, caRaced>>

\* ... and findByIdAndDelete.
DeleteCaRemoves(c) ==
    /\ caReq[c].phase = "remove"
    /\ cas' = {r \in cas : r.id # caReq[c].id}
    /\ caRaced' = IF Relying(caReq[c].ca) # {} THEN caRaced \cup {caReq[c].ca} ELSE caRaced
    /\ Move(c, "notify")
    /\ UNCHANGED <<caUnchanged, requests, req>>

\* The event of a CA is published: a direct request ends, and a registration
\* goes on to save its certificate.
NotifyCa(c) ==
    /\ caReq[c].phase = "notify"
    /\ caReq' = [caReq EXCEPT ![c] = IF @.forCert THEN [@ EXCEPT !.phase = "trusted"] ELSE CaIdle]
    /\ UNCHANGED <<caUnchanged, requests, req, cas, caRaced>>

\* The database or Kafka fails: what was written stays.
CaFails(c) ==
    /\ caReq[c].phase # "idle"
    /\ losses < MaxLosses
    /\ losses' = losses + 1
    /\ Abort(c)
    /\ UNCHANGED <<log, docs, issued, announced, lost, contended, requests, retries, cas, caRaced>>

CaProgress(c) ==
    \/ LookUpCa(c) \/ CheckLimit(c) \/ CheckExistingCa(c) \/ SaveCa(c)
    \/ CountDependents(c) \/ DeleteCaRemoves(c) \/ NotifyCa(c)

TcaNext ==
    \/ \E c \in Clients :
        \/ \E f \in Fingerprints, o \in Devices \cup {NoOwner} : RegisterNeedsCa(c, f, o)
        \/ RegisterSavesTrusted(c)
        \/ \E ca \in CAs : PostCa(c, ca) \/ DeleteCaReads(c, ca)
        \/ CaProgress(c) \/ CaFails(c)
        \/ /\ caReq[c] = CaIdle
           /\ UNCHANGED caVars
           /\ \/ OtherRequest(c)
              \/ DeleteRemoves(c) \/ DeleteRevokes(c) \/ Notifies(c) \/ NotifiesAgain(c)
              \/ Fails(c)
    \/ Crash /\ caReq' = [c \in Clients |-> CaIdle] /\ UNCHANGED <<cas, caRaced>>

TcaSpec == TcaInit /\ [][TcaNext]_tcaVars

-----------------------------------------------------------------------------
(* Properties *)

CaRequest ==
    [phase : {"idle", "lookup", "limit", "exists", "save", "count", "remove", "notify", "trusted"},
     ca : CAs \cup {NoOwner}, id : Nat, forCert : BOOLEAN, root : BOOLEAN]

\* Shapes of the state of the trusted CAs.
TcaTypeOK ==
    /\ SvcTypeOK
    /\ cas \subseteq [id : Nat, ca : CAs]
    /\ caReq \in [Clients -> CaRequest]
    /\ caRaced \subseteq CAs

\* The limit of CAs is checked long before the record is saved; requests that
\* overlap can exceed it, but by fewer records than there are clients, however
\* many requests, failures and removals there have been.
CaLimitOvershoot == Cardinality(cas) <= CaLimit + Cardinality(Clients) - 1

\* A registered external certificate keeps its root CA: a CA with dependents is
\* not removed, unless a removal and a registration overlapped.
DependentsKeepCa ==
    \A i \in DOMAIN docs :
        docs[i].fp \in External /\ CaOf[docs[i].fp] \notin caRaced =>
            IsRegistered(CaOf[docs[i].fp])

=============================================================================
