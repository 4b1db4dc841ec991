----------------------------- MODULE EjbcaFacade -----------------------------
(***************************************************************************)
(* iam/x509-identity-mgmt, in front of EJBCA, the internal CA: requests    *)
(* share one SOAP client, which the first of them creates (EjbcaSoapClient)*)
(* and have certificates issued and revoked, and the revocation list made  *)
(* and read (EjbcaFacade).  What CertificateService keeps in its database  *)
(* is here the set of its records.                                         *)
(***************************************************************************)
EXTENDS Naturals

CONSTANTS
    Serials,         \* certificates of the internal CA
    NoSerial,
    CaRequests,      \* HTTP requests
    ForceCRLRenew,   \* ejbca.forcecrlrenew
    MaxEjbcaFaults   \* failed calls, and kills

ASSUME EjbcaAssumption ==
    /\ NoSerial \notin Serials
    /\ ForceCRLRenew \in BOOLEAN /\ MaxEjbcaFaults \in Nat

VARIABLES
    soapClient, inactive,   \* EjbcaSoapClient: it has its client, and it is creating it
    call,
    records,        \* MongoDB: certificates of the internal CA with a record
    issued, revoked, crl,   \* EJBCA; crl is what its latest list has
    removed,         \* history: certificates whose removal was answered
    adrift,          \* history: thrown away by design, or left by a request that failed
    ejbcaFaults

pki == <<issued, revoked, crl>>
ejbcaVars == <<soapClient, inactive, call, records, pki, removed, adrift, ejbcaFaults>>

Call(op, s, renew, due) == [op |-> op, serial |-> s, renew |-> renew, step |-> "idle", due |-> due, list |-> {}]

\* There may be certificates already.
EjbcaInit ==
    /\ soapClient = FALSE /\ inactive = FALSE
    /\ call = [r \in CaRequests |-> Call("none", NoSerial, FALSE, {})]
    /\ records \in SUBSET Serials /\ issued = records
    /\ revoked = {} /\ crl = {} /\ removed = {} /\ adrift = {} /\ ejbcaFaults = 0

EjbcaFault == ejbcaFaults < MaxEjbcaFaults /\ ejbcaFaults' = ejbcaFaults + 1

Steps(r, s) == call' = [call EXCEPT ![r].step = s]

-----------------------------------------------------------------------------
(* The SOAP client *)

\* getClient, when nobody is creating the client: it is there, or it is created.
Obtains(r, c) ==
    IF soapClient THEN call' = [call EXCEPT ![r] = [c EXCEPT !.step = "calling"]] /\ UNCHANGED inactive
    ELSE call' = [call EXCEPT ![r] = [c EXCEPT !.step = "creating"]] /\ inactive' = TRUE

\* getClient, for the request c; it sleeps while another request creates the client.
GetsClient(r, c) ==
    IF inactive THEN call' = [call EXCEPT ![r] = [c EXCEPT !.step = "sleeping"]] /\ UNCHANGED inactive
    ELSE Obtains(r, c)

\* A record that is gone, of a certificate that is not revoked now.
LeftBehind(r) == IF call[r].op = "remove" THEN {call[r].serial} ELSE {}

\* Mutant: the client is not asked for again after the sleep.
WakesRegardless(r) ==
    /\ call[r].step = "sleeping"
    /\ IF soapClient THEN Steps(r, "calling") /\ UNCHANGED inactive ELSE Steps(r, "creating") /\ inactive' = TRUE
    /\ UNCHANGED <<soapClient, records, pki, removed, adrift, ejbcaFaults>>

\* Five seconds later the client must not be under way, be it the same attempt or the next one.
Wakes(r) ==
    /\ call[r].step = "sleeping"
    /\ \/ inactive /\ Steps(r, "refused") /\ adrift' = adrift \cup LeftBehind(r) /\ UNCHANGED inactive
       \/ ~inactive /\ Obtains(r, call[r]) /\ UNCHANGED adrift
    /\ UNCHANGED <<soapClient, records, pki, removed, ejbcaFaults>>

\* createClient, after checkSecurityFiles; an error leaves no client, and finally nobody waits.
ClientEnds(r) ==
    /\ call[r].step = "creating" /\ inactive' = FALSE
    /\ \/ soapClient' = TRUE /\ Steps(r, "calling") /\ UNCHANGED <<adrift, ejbcaFaults>>
       \/ /\ EjbcaFault /\ soapClient' = FALSE /\ Steps(r, "refused")
          /\ adrift' = adrift \cup LeftBehind(r)
    /\ UNCHANGED <<records, pki, removed>>

-----------------------------------------------------------------------------
(* Certificates are issued and removed *)

\* generateCertificate and throwAwayCertificate, up to the facade.
AsksCertificate(r, s) ==
    /\ call[r].step = "idle"
    /\ s \notin issued /\ \A q \in CaRequests : call[q].serial # s
    /\ \E op \in {"issue", "throw away"} : GetsClient(r, Call(op, s, FALSE, {}))
    /\ UNCHANGED <<soapClient, records, pki, removed, adrift, ejbcaFaults>>

\* certificateRequest; a failed call may have issued the certificate, which nobody has then.
SignsCertificate(r) ==
    /\ call[r].step = "calling" /\ call[r].op \in {"issue", "throw away"}
    /\ \/ /\ issued' = issued \cup {call[r].serial} /\ UNCHANGED ejbcaFaults
          /\ IF call[r].op = "issue" THEN Steps(r, "saving") /\ UNCHANGED adrift
             ELSE Steps(r, "answered") /\ adrift' = adrift \cup {call[r].serial}
       \/ /\ EjbcaFault /\ issued' \in {issued, issued \cup {call[r].serial}}
          /\ Steps(r, "refused") /\ adrift' = adrift \cup {call[r].serial}
    /\ UNCHANGED <<soapClient, inactive, records, revoked, crl, removed>>

\* model.save()
Saves(r) ==
    /\ call[r].step = "saving"
    /\ \/ /\ records' = records \cup {call[r].serial}
          /\ Steps(r, "answered") /\ UNCHANGED <<adrift, ejbcaFaults>>
       \/ /\ EjbcaFault /\ records' \in {records, records \cup {call[r].serial}}
          /\ Steps(r, "refused") /\ adrift' = adrift \cup {call[r].serial}
    /\ UNCHANGED <<soapClient, inactive, pki, removed>>

\* The handler of DELETE reads the record ...
AsksRemoval(r, s) ==
    /\ call[r].step = "idle" /\ s \in records
    /\ call' = [call EXCEPT ![r] = [Call("remove", s, FALSE, {}) EXCEPT !.step = "removing"]]
    /\ UNCHANGED <<soapClient, inactive, records, pki, removed, adrift, ejbcaFaults>>

\* ... deleteCertificate removes it, if another request did not, and then revokes the certificate.
RemovesRecord(r) ==
    /\ call[r].step = "removing"
    /\ \/ /\ records' = records \ {call[r].serial} /\ GetsClient(r, call[r])
          /\ UNCHANGED <<adrift, ejbcaFaults>>
       \/ /\ EjbcaFault /\ records' \in {records, records \ {call[r].serial}}
          /\ Steps(r, "refused") /\ adrift' = adrift \cup LeftBehind(r) /\ UNCHANGED inactive
    /\ UNCHANGED <<soapClient, pki, removed>>

\* revokeCert; EJBCA refuses to revoke a certificate again.
Revokes(r) ==
    /\ call[r].step = "calling" /\ call[r].op = "remove"
    /\ \/ /\ call[r].serial \notin revoked /\ revoked' = revoked \cup {call[r].serial}
          /\ removed' = removed \cup {call[r].serial}
          /\ Steps(r, "answered") /\ UNCHANGED <<adrift, ejbcaFaults>>
       \/ /\ \/ call[r].serial \in revoked /\ UNCHANGED <<revoked, ejbcaFaults>>
             \/ EjbcaFault /\ revoked' \in {revoked, revoked \cup {call[r].serial}}
          /\ Steps(r, "refused") /\ adrift' = adrift \cup LeftBehind(r) /\ UNCHANGED removed
    /\ UNCHANGED <<soapClient, inactive, records, issued, crl>>

-----------------------------------------------------------------------------
(* The root certificate and the revocation list *)

\* getRootCertificate, and getCRL: "update" of the query renews the list.
AsksAuthority(r) ==
    /\ call[r].step = "idle"
    /\ \E op \in {"root", "list"}, update \in BOOLEAN :
        GetsClient(r, Call(op, NoSerial, update \/ ForceCRLRenew, removed))
    /\ UNCHANGED <<soapClient, records, pki, removed, adrift, ejbcaFaults>>

Renews(r) == call[r].op = "list" /\ call[r].renew

\* createCRL
CreatesCRL(r) ==
    /\ call[r].step = "calling" /\ Renews(r)
    /\ \/ crl' = revoked /\ Steps(r, "reading") /\ UNCHANGED ejbcaFaults
       \/ EjbcaFault /\ crl' \in {crl, revoked} /\ Steps(r, "refused")
    /\ UNCHANGED <<soapClient, inactive, records, issued, revoked, removed, adrift>>

\* getLatestCRL, or getLastCAChain.
ReadsAuthority(r) ==
    /\ \/ call[r].step = "reading"
       \/ call[r].step = "calling" /\ call[r].op \in {"root", "list"} /\ ~Renews(r)
    /\ \/ /\ call' = [call EXCEPT ![r].step = "answered",
                                        ![r].list = IF call[r].op = "list" THEN crl ELSE {}]
          /\ UNCHANGED ejbcaFaults
       \/ EjbcaFault /\ Steps(r, "refused")
    /\ UNCHANGED <<soapClient, inactive, records, pki, removed, adrift>>

\* EJBCA makes lists by itself.
EjbcaUpdatesCRL ==
    /\ crl # revoked /\ crl' = revoked
    /\ UNCHANGED <<soapClient, inactive, call, records, issued, revoked, removed, adrift, ejbcaFaults>>

\* A kill: what was under way is not answered.
UnderWay == {"sleeping", "creating", "calling", "saving"}
EjbcaRestarts ==
    /\ EjbcaFault
    /\ soapClient' = FALSE /\ inactive' = FALSE
    /\ call' = [r \in CaRequests |-> IF call[r].step \in {"idle", "answered"} THEN call[r]
                                        ELSE [call[r] EXCEPT !.step = "refused"]]
    /\ adrift' = adrift \cup {call[r].serial : r \in {q \in CaRequests :
                                 call[q].serial # NoSerial /\ call[q].step \in UnderWay}}
    /\ UNCHANGED <<records, pki, removed>>

EjbcaNext ==
    \/ \E r \in CaRequests :
        \/ Wakes(r) \/ ClientEnds(r) \/ SignsCertificate(r) \/ Saves(r) \/ RemovesRecord(r) \/ Revokes(r)
        \/ AsksAuthority(r) \/ CreatesCRL(r) \/ ReadsAuthority(r)
        \/ \E s \in Serials : AsksCertificate(r, s) \/ AsksRemoval(r, s)
    \/ EjbcaUpdatesCRL \/ EjbcaRestarts

EjbcaSpec == EjbcaInit /\ [][EjbcaNext]_ejbcaVars

-----------------------------------------------------------------------------
CaCalls ==
    [op : {"none", "issue", "throw away", "remove", "root", "list"}, serial : Serials \cup {NoSerial},
     renew : BOOLEAN, due : SUBSET Serials, list : SUBSET Serials,
     step : {"idle", "removing", "reading", "answered", "refused"} \cup UnderWay]

EjbcaTypeOK ==
    /\ {soapClient, inactive} \subseteq BOOLEAN
    /\ call \in [CaRequests -> CaCalls]
    /\ {records, issued, revoked, crl, removed, adrift} \subseteq SUBSET Serials
    /\ ejbcaFaults \in 0..MaxEjbcaFaults

\* One request at a time creates the client, whatever sleeps and fails meanwhile, others are kept
\* out exactly as long, and nobody calls without one.
OneClient ==
    /\ inactive <=> \E r \in CaRequests : call[r].step = "creating"
    /\ \A q, r \in CaRequests : call[q].step = "creating" /\ call[r].step = "creating" => q = r
    /\ \A r \in CaRequests : call[r].step \in {"calling", "reading"} => soapClient

\* A certificate whose removal was answered is revoked, and each list that is asked for with "update"
\* after that has it, though requests overlap.
RemovalsAreListed ==
    /\ removed \subseteq revoked
    /\ \A r \in CaRequests : call[r].step = "answered" /\ Renews(r) => call[r].due \subseteq call[r].list

\* A certificate that EJBCA would have clients accept has its record, or a request is at it, unless it
\* was thrown away or a request failed.
ValidOnesAreRecorded ==
    issued \ revoked \subseteq
        records \cup adrift \cup {call[r].serial : r \in {q \in CaRequests : call[q].step \in UnderWay}}

\* All of it: what EJBCA holds and what the service says of it are in step.
AuthorityIsInStep == OneClient /\ RemovalsAreListed /\ ValidOnesAreRecorded
=============================================================================
