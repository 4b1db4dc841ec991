--------------------------- MODULE AuthorityProofs ---------------------------
(***************************************************************************)
(* What x509-identity-mgmt keeps in front of EJBCA, for every number of    *)
(* requests, certificates and faults; what the other services hear of      *)
(* tenants from Keycloak, for every number of realms and sessions; and     *)
(* what cert-sidecar keeps in the files of a service, for every number of  *)
(* renewals and failures.                                                  *)
(***************************************************************************)
EXTENDS EjbcaFacade, KeycloakProvider, CertSidecar, SequenceTheorems, TLAPS

\* What is known of the request r.  Of a certificate that is asked for, nobody else has the serial, which
\* is why a request that is refused before EJBCA signs leaves nothing behind; a list that is renewed
\* has, from then on, what was removed when it was asked for.
CallInv(r) ==
    /\ call[r].op \in {"none", "root", "list"} <=> call[r].serial = NoSerial
    /\ call[r].step = "removing" => call[r].op = "remove"
    /\ call[r].step = "saving" => call[r].op = "issue" /\ call[r].serial \in issued
    /\ call[r].op \in {"issue", "throw away"} /\ call[r].step \in {"sleeping", "creating", "calling"} =>
          /\ call[r].serial \notin issued
          /\ \A q \in CaRequests \ {r} : call[q].serial # call[r].serial
    /\ call[r].due \subseteq removed
    /\ call[r].step = "reading" => Renews(r) /\ call[r].due \subseteq crl
    /\ call[r].step = "answered" /\ Renews(r) => call[r].due \subseteq call[r].list

\* Nobody creates a client that is there: the one who fails to create it takes it from nobody.
EjbcaInv ==
    /\ EjbcaTypeOK
    /\ inactive => ~soapClient
    /\ OneClient
    /\ records \subseteq issued /\ removed \subseteq revoked
    /\ \A r \in CaRequests : CallInv(r)
    /\ ValidOnesAreRecorded

CallSteps == {"idle", "removing", "reading", "answered", "refused"} \cup UnderWay

\* The request r is, or goes on as, the call c; the other requests are as they were.
BecomesCall(r, c) ==
    /\ call' \in [CaRequests -> CaCalls]
    /\ call'[r] = c
    /\ \A q \in CaRequests \ {r} : call'[q] = call[q]

\* The call c with another step.
LEMMA WithStep ==
    ASSUME NEW c \in CaCalls, NEW s \in CallSteps
    PROVE  /\ [c EXCEPT !.step = s] \in CaCalls /\ [c EXCEPT !.step = s].step = s
           /\ [c EXCEPT !.step = s].op = c.op /\ [c EXCEPT !.step = s].serial = c.serial
           /\ [c EXCEPT !.step = s].renew = c.renew /\ [c EXCEPT !.step = s].due = c.due
           /\ [c EXCEPT !.step = s].list = c.list
BY DEF CaCalls, CallSteps

LEMMA StepsOn ==
    ASSUME EjbcaTypeOK, NEW r \in CaRequests, NEW s \in CallSteps, Steps(r, s)
    PROVE  \E c \in CaCalls :
              /\ BecomesCall(r, c) /\ c.step = s
              /\ c.op = call[r].op /\ c.serial = call[r].serial /\ c.renew = call[r].renew
              /\ c.due = call[r].due /\ c.list = call[r].list
<1> DEFINE c == [call[r] EXCEPT !.step = s]
<1>1. call \in [CaRequests -> CaCalls] /\ call[r] \in CaCalls
    BY DEF EjbcaTypeOK
<1>2. /\ c \in CaCalls /\ c.step = s
      /\ c.op = call[r].op /\ c.serial = call[r].serial /\ c.renew = call[r].renew
      /\ c.due = call[r].due /\ c.list = call[r].list
    BY <1>1, WithStep
<1>3. call' = [call EXCEPT ![r] = c]
    BY DEF Steps
<1> HIDE DEF c
<1>4. BecomesCall(r, c)
    BY <1>1, <1>2, <1>3 DEF BecomesCall
<1> QED
    BY <1>2, <1>4

\* A request that asks for the client sleeps, creates it, or calls with it.
LEMMA ClientIsAsked ==
    ASSUME EjbcaTypeOK, NEW r \in CaRequests, NEW d \in CaCalls,
           GetsClient(r, d) \/ (~inactive /\ Obtains(r, d))
    PROVE  \E c \in CaCalls :
              /\ BecomesCall(r, c)
              /\ c.op = d.op /\ c.serial = d.serial /\ c.renew = d.renew /\ c.due = d.due /\ c.list = d.list
              /\ \/ c.step = "sleeping" /\ inactive /\ inactive' = inactive
                 \/ c.step = "creating" /\ ~inactive /\ ~soapClient /\ inactive' = TRUE
                 \/ c.step = "calling" /\ ~inactive /\ soapClient /\ inactive' = inactive
<1> DEFINE Then(s) == [d EXCEPT !.step = s]
<1>1. call \in [CaRequests -> CaCalls]
    BY DEF EjbcaTypeOK
<1>2. ASSUME NEW s \in {"sleeping", "creating", "calling"}, call' = [call EXCEPT ![r] = Then(s)]
      PROVE  /\ Then(s) \in CaCalls /\ BecomesCall(r, Then(s)) /\ Then(s).step = s
             /\ Then(s).op = d.op /\ Then(s).serial = d.serial /\ Then(s).renew = d.renew
             /\ Then(s).due = d.due /\ Then(s).list = d.list
    <2>1. s \in CallSteps
        BY DEF CallSteps, UnderWay
    <2>2. /\ Then(s) \in CaCalls /\ Then(s).step = s
          /\ Then(s).op = d.op /\ Then(s).serial = d.serial /\ Then(s).renew = d.renew
          /\ Then(s).due = d.due /\ Then(s).list = d.list
        BY <2>1, WithStep
    <2> HIDE DEF Then
    <2> QED
        BY <1>1, <1>2, <2>2 DEF BecomesCall
<1>3. \/ call' = [call EXCEPT ![r] = Then("sleeping")] /\ inactive /\ inactive' = inactive
      \/ call' = [call EXCEPT ![r] = Then("creating")] /\ ~inactive /\ ~soapClient /\ inactive' = TRUE
      \/ call' = [call EXCEPT ![r] = Then("calling")] /\ ~inactive /\ soapClient /\ inactive' = inactive
    BY DEF GetsClient, Obtains
<1> HIDE DEF Then
<1> QED
    BY <1>2, <1>3

-----------------------------------------------------------------------------
(* One request moves *)

\* Its part in the creation of the client.
LEMMA OneClientKept ==
    ASSUME EjbcaInv, NEW r \in CaRequests, NEW c \in CaCalls, BecomesCall(r, c),
           inactive' <=> c.step = "creating" \/ (inactive /\ call[r].step # "creating"),
           c.step = "creating" => ~inactive,
           c.step \in {"calling", "reading"} => soapClient',
           soapClient => soapClient',
           inactive' => ~soapClient'
    PROVE  OneClient'
<1>1. \A q \in CaRequests \ {r} : call'[q] = call[q]
    BY DEF BecomesCall
<1>2. call'[r] = c
    BY DEF BecomesCall
<1>3. OneClient
    BY DEF EjbcaInv
<1>4. inactive' <=> \E q \in CaRequests : call'[q].step = "creating"
    BY <1>1, <1>2, <1>3 DEF OneClient
<1>5. \A p, q \in CaRequests : call'[p].step = "creating" /\ call'[q].step = "creating" => p = q
    BY <1>1, <1>2, <1>3 DEF OneClient
<1>6. \A q \in CaRequests : call'[q].step \in {"calling", "reading"} => soapClient'
    BY <1>1, <1>2, <1>3 DEF OneClient
<1> QED
    BY <1>4, <1>5, <1>6 DEF OneClient

\* What is known of the others: its serial is its own while the certificate is asked for.
LEMMA OthersKeep ==
    ASSUME EjbcaInv, NEW r \in CaRequests, NEW c \in CaCalls, BecomesCall(r, c),
           issued \subseteq issued', issued' \subseteq issued \cup {call[r].serial},
           removed \subseteq removed', crl' \in {crl, revoked},
           \/ c.serial = call[r].serial \/ c.serial = NoSerial \/ c.serial \in issued
           \/ \A q \in CaRequests : call[q].serial # c.serial
    PROVE  \A q \in CaRequests \ {r} : CallInv(q)'
<1> SUFFICES ASSUME NEW q \in CaRequests \ {r}
             PROVE  CallInv(q)'
    OBVIOUS
<1>1. /\ call'[r] = c /\ \A p \in CaRequests \ {r} : call'[p] = call[p]
    BY DEF BecomesCall
<1>2. CallInv(q) /\ call'[q] = call[q]
    BY <1>1 DEF EjbcaInv
<1>3. /\ call[q].op \in {"none", "root", "list"} <=> call[q].serial = NoSerial
      /\ call[q].step = "removing" => call[q].op = "remove"
      /\ call[q].step = "saving" => call[q].op = "issue" /\ call[q].serial \in issued'
    BY <1>2 DEF CallInv
<1>4. ASSUME call[q].op \in {"issue", "throw away"}, call[q].step \in {"sleeping", "creating", "calling"}
      PROVE  /\ call[q].serial \notin issued'
             /\ \A p \in CaRequests \ {q} : call'[p].serial # call[q].serial
    <2>1. /\ call[q].serial \notin issued /\ call[q].serial # NoSerial
          /\ \A p \in CaRequests \ {q} : call[p].serial # call[q].serial
        BY <1>2, <1>4 DEF CallInv
    <2>2. c.serial # call[q].serial
        BY <2>1
    <2> QED
        BY <1>1, <2>1, <2>2
<1>5. call[q].due \subseteq removed'
    BY <1>2 DEF CallInv
<1>6. call[q].step = "reading" => Renews(q) /\ call[q].due \subseteq crl'
    BY <1>2 DEF CallInv, EjbcaInv
<1>7. call[q].step = "answered" /\ Renews(q) => call[q].due \subseteq call[q].list
    BY <1>2 DEF CallInv
<1>8. Renews(q)' <=> Renews(q)
    BY <1>2 DEF Renews
<1> QED
    BY <1>2, <1>3, <1>4, <1>5, <1>6, <1>7, <1>8 DEF CallInv

\* Whether its certificate is still somebody's.
LEMMA ValidKept ==
    ASSUME EjbcaInv, NEW r \in CaRequests, NEW c \in CaCalls, BecomesCall(r, c),
           issued' \subseteq issued \cup {call[r].serial}, revoked \subseteq revoked', adrift \subseteq adrift',
           records \subseteq records' \cup {call[r].serial},
           \/ call[r].serial \notin issued'
           \/ call[r].serial \in records' \cup adrift' \cup revoked'
           \/ c.serial = call[r].serial /\ c.step \in UnderWay
           \/ call[r].step \notin UnderWay /\ records \subseteq records' /\ issued' = issued
    PROVE  ValidOnesAreRecorded'
<1> SUFFICES ASSUME NEW s \in issued', s \notin revoked', s \notin records', s \notin adrift'
             PROVE  \E q \in CaRequests : call'[q].step \in UnderWay /\ call'[q].serial = s
    BY DEF ValidOnesAreRecorded
<1>1. /\ call'[r] = c /\ \A p \in CaRequests \ {r} : call'[p] = call[p]
    BY DEF BecomesCall
<1>2. CASE s = call[r].serial /\ c.serial = call[r].serial /\ c.step \in UnderWay
    BY <1>1, <1>2
<1>3. CASE s # call[r].serial \/ (call[r].step \notin UnderWay /\ records \subseteq records' /\ issued' = issued)
    <2>1. s \in issued /\ s \notin revoked /\ s \notin records /\ s \notin adrift
        BY <1>3
    <2>2. PICK q \in CaRequests : call[q].step \in UnderWay /\ call[q].serial = s
        BY <2>1 DEF EjbcaInv, ValidOnesAreRecorded
    <2>3. q # r
        BY <1>3, <2>2
    <2> QED
        BY <1>1, <2>2, <2>3
<1> QED
    BY <1>2, <1>3

\* A step of one request, from what it does to each of the parts.
LEMMA MoveKeeps ==
    ASSUME EjbcaInv, NEW r \in CaRequests, NEW c \in CaCalls, BecomesCall(r, c),
           {soapClient', inactive'} \subseteq BOOLEAN, ejbcaFaults' \in 0..MaxEjbcaFaults,
           {records', issued', revoked', crl', removed', adrift'} \subseteq SUBSET Serials,
           inactive' => ~soapClient', OneClient', ValidOnesAreRecorded',
           records' \subseteq issued', removed' \subseteq revoked',
           \A q \in CaRequests \ {r} : CallInv(q)', CallInv(r)'
    PROVE  EjbcaInv'
<1>1. EjbcaTypeOK'
    BY DEF EjbcaTypeOK, BecomesCall
<1>2. \A q \in CaRequests : CallInv(q)'
    OBVIOUS
<1> QED
    BY <1>1, <1>2 DEF EjbcaInv

LEMMA FaultTypes == EjbcaInv /\ (EjbcaFault \/ UNCHANGED ejbcaFaults) => ejbcaFaults' \in 0..MaxEjbcaFaults
BY EjbcaAssumption DEF EjbcaInv, EjbcaTypeOK, EjbcaFault

LEMMA InvTypes ==
    ASSUME EjbcaInv
    PROVE  /\ {soapClient, inactive} \subseteq BOOLEAN /\ EjbcaTypeOK
           /\ {records, issued, revoked, crl, removed, adrift} \subseteq SUBSET Serials
           /\ records \subseteq issued /\ removed \subseteq revoked
           /\ inactive => ~soapClient
           /\ \A r \in CaRequests :
                 /\ call[r] \in CaCalls /\ CallInv(r) /\ LeftBehind(r) \subseteq Serials
                 /\ call[r].step = "creating" => inactive
                 /\ call[r].step \in {"calling", "reading"} => soapClient
                 /\ call[r].serial \in Serials \/ call[r].serial = NoSerial
<1>1. /\ {soapClient, inactive} \subseteq BOOLEAN /\ EjbcaTypeOK
      /\ {records, issued, revoked, crl, removed, adrift} \subseteq SUBSET Serials
      /\ records \subseteq issued /\ removed \subseteq revoked
      /\ inactive => ~soapClient
    BY DEF EjbcaInv, EjbcaTypeOK
<1>2. ASSUME NEW r \in CaRequests
      PROVE  /\ call[r] \in CaCalls /\ CallInv(r)
             /\ call[r].step = "creating" => inactive
             /\ call[r].step \in {"calling", "reading"} => soapClient
    BY <1>2 DEF EjbcaInv, EjbcaTypeOK, OneClient
<1>3. ASSUME NEW r \in CaRequests
      PROVE  /\ call[r].serial \in Serials \/ call[r].serial = NoSerial
             /\ LeftBehind(r) \subseteq Serials
    <2>1. call[r].serial \in Serials \/ call[r].serial = NoSerial
        BY <1>2 DEF CaCalls
    <2> QED
        BY <1>2, <2>1 DEF LeftBehind, CallInv
<1> QED
    BY <1>1, <1>2, <1>3

\* A request that asks for the client, or that has nothing to do with it.
LEMMA AskingKeeps ==
    ASSUME EjbcaInv, NEW r \in CaRequests, NEW c \in CaCalls, BecomesCall(r, c),
           call[r].step # "creating", UNCHANGED soapClient,
           \/ c.step = "sleeping" /\ inactive /\ inactive' = inactive
           \/ c.step = "creating" /\ ~inactive /\ ~soapClient /\ inactive' = TRUE
           \/ c.step = "calling" /\ ~inactive /\ soapClient /\ inactive' = inactive
    PROVE  OneClient' /\ {soapClient', inactive'} \subseteq BOOLEAN /\ (inactive' => ~soapClient')
<1>1. /\ inactive' <=> c.step = "creating" \/ (inactive /\ call[r].step # "creating")
      /\ c.step = "creating" => ~inactive
      /\ c.step \in {"calling", "reading"} => soapClient'
      /\ soapClient => soapClient'
    OBVIOUS
<1>2. inactive' => ~soapClient'
    BY InvTypes
<1>3. {soapClient', inactive'} \subseteq BOOLEAN
    BY InvTypes
<1> QED
    BY <1>1, <1>2, <1>3, OneClientKept

LEMMA RestingKeeps ==
    ASSUME EjbcaInv, NEW r \in CaRequests, NEW c \in CaCalls, BecomesCall(r, c),
           call[r].step # "creating", c.step # "creating", UNCHANGED <<soapClient, inactive>>,
           c.step \in {"calling", "reading"} => call[r].step = "calling"
    PROVE  OneClient' /\ {soapClient', inactive'} \subseteq BOOLEAN /\ (inactive' => ~soapClient')
<1>1. /\ inactive' <=> c.step = "creating" \/ (inactive /\ call[r].step # "creating")
      /\ c.step = "creating" => ~inactive
      /\ c.step \in {"calling", "reading"} => soapClient'
      /\ soapClient => soapClient'
    BY InvTypes
<1>2. inactive' => ~soapClient'
    BY InvTypes
<1>3. {soapClient', inactive'} \subseteq BOOLEAN
    BY InvTypes
<1> QED
    BY <1>1, <1>2, <1>3, OneClientKept

LEMMA AskedAlone ==
    ASSUME EjbcaInv, NEW r \in CaRequests,
           call[r].op \in {"issue", "throw away"}, call[r].step \in {"sleeping", "creating", "calling"}
    PROVE  /\ call[r].serial \notin issued
           /\ \A q \in CaRequests \ {r} : call[q].serial # call[r].serial
BY InvTypes DEF CallInv

\* What is known of a request that waits for the client or for EJBCA.
LEMMA AskingCall ==
    ASSUME EjbcaInv, NEW r \in CaRequests, NEW c \in CaCalls, BecomesCall(r, c),
           c.step \in {"sleeping", "creating", "calling"}, UNCHANGED <<issued, removed>>,
           c.op \in {"none", "root", "list"} <=> c.serial = NoSerial, c.due \subseteq removed,
           c.op \in {"issue", "throw away"} =>
              c.serial \notin issued /\ \A q \in CaRequests \ {r} : call[q].serial # c.serial
    PROVE  CallInv(r)'
<1>1. /\ call'[r] = c
      /\ \A q \in CaRequests \ {r} : call'[q] = call[q]
    BY DEF BecomesCall
<1> QED
    BY <1>1 DEF CallInv

-----------------------------------------------------------------------------
(* The actions *)

LEMMA WakesInv ==
    ASSUME EjbcaInv, NEW r \in CaRequests, Wakes(r)
    PROVE  EjbcaInv'
<1>1. /\ call[r].step = "sleeping"
      /\ UNCHANGED <<soapClient, records, issued, revoked, crl, removed, ejbcaFaults>>
    BY DEF Wakes, pki
<1>2. CASE inactive /\ Steps(r, "refused") /\ adrift' = adrift \cup LeftBehind(r) /\ UNCHANGED inactive
    <2>1. PICK c \in CaCalls :
              /\ BecomesCall(r, c) /\ c.step = "refused"
              /\ c.op = call[r].op /\ c.serial = call[r].serial /\ c.renew = call[r].renew
              /\ c.due = call[r].due /\ c.list = call[r].list
        BY <1>2, InvTypes, StepsOn DEF CallSteps
    <2>2. call'[r] = c
        BY <2>1 DEF BecomesCall
    <2>3. OneClient' /\ {soapClient', inactive'} \subseteq BOOLEAN /\ (inactive' => ~soapClient')
        BY <1>1, <1>2, <2>1, RestingKeeps
    <2>4. \A q \in CaRequests \ {r} : CallInv(q)'
        BY <1>1, <2>1, OthersKeep
    <2>5. call[r].serial \notin issued \/ call[r].serial \in adrift'
        BY <1>1, <1>2, EjbcaAssumption, InvTypes DEF CallInv, LeftBehind, CaCalls
    <2>6. ValidOnesAreRecorded'
        BY <1>1, <1>2, <2>1, <2>5, ValidKept
    <2>7. CallInv(r)'
        BY <1>1, <2>1, <2>2, InvTypes DEF CallInv, Renews
    <2> QED
        BY <1>1, <1>2, <2>1, <2>3, <2>4, <2>6, <2>7, FaultTypes, InvTypes, MoveKeeps
<1>3. CASE ~inactive /\ Obtains(r, call[r]) /\ UNCHANGED adrift
    <2>1. PICK c \in CaCalls :
              /\ BecomesCall(r, c)
              /\ c.op = call[r].op /\ c.serial = call[r].serial /\ c.renew = call[r].renew
              /\ c.due = call[r].due /\ c.list = call[r].list
              /\ \/ c.step = "sleeping" /\ inactive /\ inactive' = inactive
                 \/ c.step = "creating" /\ ~inactive /\ ~soapClient /\ inactive' = TRUE
                 \/ c.step = "calling" /\ ~inactive /\ soapClient /\ inactive' = inactive
        BY <1>3, InvTypes, ClientIsAsked
    <2>2. call'[r] = c
        BY <2>1 DEF BecomesCall
    <2>3. OneClient' /\ {soapClient', inactive'} \subseteq BOOLEAN /\ (inactive' => ~soapClient')
        BY <1>1, <2>1, AskingKeeps
    <2>4. \A q \in CaRequests \ {r} : CallInv(q)'
        BY <1>1, <2>1, OthersKeep
    <2>6. ValidOnesAreRecorded'
        BY <1>1, <1>3, <2>1, ValidKept DEF UnderWay
    <2>7. CallInv(r)'
        <3>1. c.op \in {"none", "root", "list"} <=> c.serial = NoSerial
            BY <2>1, InvTypes DEF CallInv
        <3>2. c.due \subseteq removed
            BY <2>1, InvTypes DEF CallInv
        <3>3. c.op \in {"issue", "throw away"} =>
                  c.serial \notin issued /\ \A q \in CaRequests \ {r} : call[q].serial # c.serial
            BY <1>1, <2>1, AskedAlone
        <3> QED
            BY <1>1, <2>1, <3>1, <3>2, <3>3, AskingCall
    <2> QED
        BY <1>1, <1>3, <2>1, <2>3, <2>4, <2>6, <2>7, FaultTypes, InvTypes, MoveKeeps
<1> QED
    BY <1>2, <1>3 DEF Wakes

LEMMA ClientEndsInv ==
    ASSUME EjbcaInv, NEW r \in CaRequests, ClientEnds(r)
    PROVE  EjbcaInv'
<1>1. /\ call[r].step = "creating" /\ inactive' = FALSE
      /\ UNCHANGED <<records, issued, revoked, crl, removed>>
    BY DEF ClientEnds, pki
<1>2. CASE soapClient' = TRUE /\ Steps(r, "calling") /\ UNCHANGED <<adrift, ejbcaFaults>>
    <2>1. PICK c \in CaCalls :
              /\ BecomesCall(r, c) /\ c.step = "calling"
              /\ c.op = call[r].op /\ c.serial = call[r].serial /\ c.renew = call[r].renew
              /\ c.due = call[r].due /\ c.list = call[r].list
        BY <1>2, InvTypes, StepsOn DEF CallSteps, UnderWay
    <2>2. call'[r] = c
        BY <2>1 DEF BecomesCall
    <2>3. OneClient' /\ {soapClient', inactive'} \subseteq BOOLEAN /\ (inactive' => ~soapClient')
        BY <1>1, <1>2, <2>1, OneClientKept
    <2>4. \A q \in CaRequests \ {r} : CallInv(q)'
        BY <1>1, <2>1, OthersKeep
    <2>6. ValidOnesAreRecorded'
        BY <1>1, <1>2, <2>1, ValidKept DEF UnderWay
    <2>7. CallInv(r)'
        <3>1. c.op \in {"none", "root", "list"} <=> c.serial = NoSerial
            BY <2>1, InvTypes DEF CallInv
        <3>2. c.due \subseteq removed
            BY <2>1, InvTypes DEF CallInv
        <3>3. c.op \in {"issue", "throw away"} =>
                  c.serial \notin issued /\ \A q \in CaRequests \ {r} : call[q].serial # c.serial
            BY <1>1, <2>1, AskedAlone
        <3> QED
            BY <1>1, <2>1, <3>1, <3>2, <3>3, AskingCall
    <2> QED
        BY <1>1, <1>2, <2>1, <2>3, <2>4, <2>6, <2>7, FaultTypes, InvTypes, MoveKeeps
<1>3. CASE /\ EjbcaFault /\ soapClient' = FALSE /\ Steps(r, "refused")
           /\ adrift' = adrift \cup LeftBehind(r)
    <2>1. PICK c \in CaCalls :
              /\ BecomesCall(r, c) /\ c.step = "refused"
              /\ c.op = call[r].op /\ c.serial = call[r].serial /\ c.renew = call[r].renew
              /\ c.due = call[r].due /\ c.list = call[r].list
        BY <1>3, InvTypes, StepsOn DEF CallSteps, UnderWay
    <2>2. call'[r] = c
        BY <2>1 DEF BecomesCall
    <2>3. OneClient' /\ {soapClient', inactive'} \subseteq BOOLEAN /\ (inactive' => ~soapClient')
        BY <1>1, <1>3, <2>1, InvTypes, OneClientKept
    <2>4. \A q \in CaRequests \ {r} : CallInv(q)'
        BY <1>1, <1>3, <2>1, OthersKeep
    <2>5. call[r].serial \notin issued \/ call[r].serial \in adrift'
        BY <1>1, <1>3, EjbcaAssumption, InvTypes DEF CallInv, LeftBehind, CaCalls
    <2>6. ValidOnesAreRecorded'
        BY <1>1, <1>3, <2>1, <2>5, ValidKept
    <2>7. CallInv(r)'
        BY <1>1, <1>3, <2>1, <2>2, InvTypes DEF CallInv, Renews
    <2> QED
        BY <1>1, <1>3, <2>1, <2>3, <2>4, <2>6, <2>7, FaultTypes, InvTypes, MoveKeeps
<1> QED
    BY <1>2, <1>3 DEF ClientEnds

LEMMA SignsCertificateInv ==
    ASSUME EjbcaInv, NEW r \in CaRequests, SignsCertificate(r)
    PROVE  EjbcaInv'
<1>1. /\ call[r].step = "calling" /\ call[r].op \in {"issue", "throw away"}
      /\ issued \subseteq issued' /\ issued' \subseteq issued \cup {call[r].serial}
      /\ UNCHANGED <<soapClient, inactive, records, revoked, crl, removed>>
    BY DEF SignsCertificate
<1>2. call[r].serial \in Serials /\ issued' \subseteq Serials
    BY <1>1, InvTypes DEF CallInv
<1>3. CASE issued' = issued \cup {call[r].serial} /\ Steps(r, "saving") /\ call[r].op = "issue" /\ UNCHANGED <<adrift, ejbcaFaults>>
    <2>1. PICK c \in CaCalls :
              /\ BecomesCall(r, c) /\ c.step = "saving"
              /\ c.op = call[r].op /\ c.serial = call[r].serial /\ c.renew = call[r].renew
              /\ c.due = call[r].due /\ c.list = call[r].list
        BY <1>3, InvTypes, StepsOn DEF CallSteps, UnderWay
    <2>2. call'[r] = c
        BY <2>1 DEF BecomesCall
    <2>3. OneClient' /\ {soapClient', inactive'} \subseteq BOOLEAN /\ (inactive' => ~soapClient')
        BY <1>1, <2>1, RestingKeeps
    <2>4. \A q \in CaRequests \ {r} : CallInv(q)'
        BY <1>1, <1>3, <2>1, OthersKeep
    <2>5. c.serial = call[r].serial /\ c.step \in UnderWay
        BY <2>1 DEF UnderWay
    <2>6. ValidOnesAreRecorded'
        BY <1>1, <1>3, <2>1, <2>5, ValidKept
    <2>7. CallInv(r)'
        BY <1>1, <1>3, <2>1, <2>2, InvTypes DEF CallInv, Renews
    <2> QED
        BY <1>1, <1>2, <1>3, <2>1, <2>3, <2>4, <2>6, <2>7, FaultTypes, InvTypes, MoveKeeps
<1>4. ASSUME NEW s \in {"answered", "refused"}, Steps(r, s), adrift' = adrift \cup {call[r].serial},
             EjbcaFault \/ UNCHANGED ejbcaFaults
      PROVE  EjbcaInv'
    <2>1. PICK c \in CaCalls :
              /\ BecomesCall(r, c) /\ c.step = s
              /\ c.op = call[r].op /\ c.serial = call[r].serial /\ c.renew = call[r].renew
              /\ c.due = call[r].due /\ c.list = call[r].list
        BY <1>4, InvTypes, StepsOn DEF CallSteps, UnderWay
    <2>2. call'[r] = c
        BY <2>1 DEF BecomesCall
    <2>3. OneClient' /\ {soapClient', inactive'} \subseteq BOOLEAN /\ (inactive' => ~soapClient')
        BY <1>1, <1>4, <2>1, RestingKeeps
    <2>4. \A q \in CaRequests \ {r} : CallInv(q)'
        BY <1>1, <1>4, <2>1, OthersKeep
    <2>5. call[r].serial \in adrift'
        BY <1>4
    <2>6. ValidOnesAreRecorded'
        BY <1>1, <1>4, <2>1, <2>5, ValidKept
    <2>7. CallInv(r)'
        BY <1>1, <1>4, <2>1, <2>2, InvTypes DEF CallInv, Renews
    <2> QED
        BY <1>1, <1>2, <1>4, <2>1, <2>3, <2>4, <2>6, <2>7, FaultTypes, InvTypes, MoveKeeps
<1> QED
    BY <1>1, <1>3, <1>4 DEF SignsCertificate

LEMMA SavesInv ==
    ASSUME EjbcaInv, NEW r \in CaRequests, Saves(r)
    PROVE  EjbcaInv'
<1>1. /\ call[r].step = "saving"
      /\ records \subseteq records' /\ records' \subseteq records \cup {call[r].serial}
      /\ adrift' \in {adrift, adrift \cup {call[r].serial}} /\ (EjbcaFault \/ UNCHANGED ejbcaFaults)
      /\ call[r].serial \in records' \cup adrift'
      /\ UNCHANGED <<soapClient, inactive, issued, revoked, crl, removed>>
    BY DEF Saves, pki
<1>2. call[r].serial \in issued /\ call[r].op = "issue" /\ call[r].serial \in Serials
    BY <1>1, InvTypes DEF CallInv
<1>3. ASSUME NEW s \in {"answered", "refused"}, Steps(r, s)
      PROVE  EjbcaInv'
    <2>1. PICK c \in CaCalls :
              /\ BecomesCall(r, c) /\ c.step = s
              /\ c.op = call[r].op /\ c.serial = call[r].serial /\ c.renew = call[r].renew
              /\ c.due = call[r].due /\ c.list = call[r].list
        BY <1>3, InvTypes, StepsOn DEF CallSteps, UnderWay
    <2>2. call'[r] = c
        BY <2>1 DEF BecomesCall
    <2>3. OneClient' /\ {soapClient', inactive'} \subseteq BOOLEAN /\ (inactive' => ~soapClient')
        BY <1>1, <1>3, <2>1, RestingKeeps
    <2>4. \A q \in CaRequests \ {r} : CallInv(q)'
        BY <1>1, <1>3, <2>1, OthersKeep
    <2>5. call[r].serial \in records' \cup adrift'
        BY <1>1
    <2>6. ValidOnesAreRecorded'
        BY <1>1, <1>3, <2>1, <2>5, ValidKept
    <2>7. CallInv(r)'
        BY <1>1, <1>2, <1>3, <2>1, <2>2, InvTypes DEF CallInv, Renews
    <2> QED
        BY <1>1, <1>2, <1>3, <2>1, <2>3, <2>4, <2>6, <2>7, FaultTypes, InvTypes, MoveKeeps
<1> QED
    BY <1>3 DEF Saves

LEMMA AsksCertificateInv ==
    ASSUME EjbcaInv, NEW r \in CaRequests, NEW s \in Serials, AsksCertificate(r, s)
    PROVE  EjbcaInv'
<1>1. /\ call[r].step = "idle" /\ s \notin issued /\ \A q \in CaRequests : call[q].serial # s
      /\ UNCHANGED <<soapClient, records, issued, revoked, crl, removed, adrift, ejbcaFaults>>
    BY DEF AsksCertificate, pki
<1>2. PICK asked \in {"issue", "throw away"} : GetsClient(r, Call(asked, s, FALSE, {}))
    BY DEF AsksCertificate
<1> DEFINE d == Call(asked, s, FALSE, {})
<1>3. d \in CaCalls /\ GetsClient(r, d) /\ d.op = asked /\ d.serial = s /\ d.due = {}
    BY <1>2 DEF CaCalls, UnderWay, Call
<1> HIDE DEF d
<1> QED
    <2>1. PICK c \in CaCalls :
              /\ BecomesCall(r, c)
              /\ c.op = d.op /\ c.serial = d.serial /\ c.renew = d.renew /\ c.due = d.due /\ c.list = d.list
              /\ \/ c.step = "sleeping" /\ inactive /\ inactive' = inactive
                 \/ c.step = "creating" /\ ~inactive /\ ~soapClient /\ inactive' = TRUE
                 \/ c.step = "calling" /\ ~inactive /\ soapClient /\ inactive' = inactive
        BY <1>3, InvTypes, ClientIsAsked
    <2>2. c.op = asked /\ c.serial = s /\ c.due = {} /\ c.serial # NoSerial
        BY <1>3, <2>1, EjbcaAssumption
    <2>3. OneClient' /\ {soapClient', inactive'} \subseteq BOOLEAN /\ (inactive' => ~soapClient')
        BY <1>1, <2>1, AskingKeeps
    <2>4. \A q \in CaRequests \ {r} : CallInv(q)'
        BY <1>1, <2>1, <2>2, OthersKeep
    <2>5. call[r].step \notin UnderWay
        BY <1>1 DEF UnderWay
    <2>6. ValidOnesAreRecorded'
        BY <1>1, <2>1, <2>5, ValidKept
    <2>7. CallInv(r)'
        BY <1>1, <2>1, <2>2, AskingCall
    <2> QED
        BY <1>1, <2>1, <2>3, <2>4, <2>6, <2>7, FaultTypes, InvTypes, MoveKeeps

LEMMA AsksRemovalInv ==
    ASSUME EjbcaInv, NEW r \in CaRequests, NEW s \in Serials, AsksRemoval(r, s)
    PROVE  EjbcaInv'
<1>1. /\ call[r].step = "idle" /\ s \in records /\ s \in issued
      /\ UNCHANGED <<soapClient, inactive, records, issued, revoked, crl, removed, adrift, ejbcaFaults>>
    BY InvTypes DEF AsksRemoval, pki
<1> DEFINE d == Call("remove", s, FALSE, {})
           c == [d EXCEPT !.step = "removing"]
<1>0. d \in CaCalls /\ d.op = "remove" /\ d.serial = s /\ d.due = {}
    BY DEF CaCalls, UnderWay, Call
<1>3. call' = [call EXCEPT ![r] = c]
    BY DEF AsksRemoval
<1> HIDE DEF d
<1>2. c \in CaCalls /\ c.op = d.op /\ c.serial = d.serial /\ c.step = "removing" /\ c.due = d.due
    BY <1>0, WithStep DEF CallSteps
<1>4. c.op = "remove" /\ c.serial = s /\ c.serial # NoSerial /\ c.step = "removing" /\ c.due = {}
    BY <1>0, <1>2, EjbcaAssumption
<1> HIDE DEF c
<1>5. BecomesCall(r, c) /\ call'[r] = c
    BY <1>2, <1>3, InvTypes DEF BecomesCall, EjbcaTypeOK
<1>6. OneClient' /\ {soapClient', inactive'} \subseteq BOOLEAN /\ (inactive' => ~soapClient')
    BY <1>1, <1>2, <1>4, <1>5, RestingKeeps
<1>7. \A q \in CaRequests \ {r} : CallInv(q)'
    BY <1>1, <1>2, <1>4, <1>5, OthersKeep
<1>8. call[r].step \notin UnderWay
    BY <1>1 DEF UnderWay
<1>9. ValidOnesAreRecorded'
    BY <1>1, <1>2, <1>5, <1>8, ValidKept
<1>10. CallInv(r)'
    BY <1>1, <1>4, <1>5 DEF CallInv
<1> QED
    BY <1>1, <1>2, <1>5, <1>6, <1>7, <1>9, <1>10, FaultTypes, InvTypes, MoveKeeps

LEMMA RemovesRecordInv ==
    ASSUME EjbcaInv, NEW r \in CaRequests, RemovesRecord(r)
    PROVE  EjbcaInv'
<1>1. /\ call[r].step = "removing" /\ call[r].op = "remove"
      /\ records' \subseteq records /\ records \subseteq records' \cup {call[r].serial}
      /\ UNCHANGED <<soapClient, issued, revoked, crl, removed>>
    BY InvTypes DEF RemovesRecord, pki, CallInv
<1>2. CASE GetsClient(r, call[r]) /\ UNCHANGED <<adrift, ejbcaFaults>>
    <2>1. PICK c \in CaCalls :
              /\ BecomesCall(r, c)
              /\ c.op = call[r].op /\ c.serial = call[r].serial /\ c.renew = call[r].renew
              /\ c.due = call[r].due /\ c.list = call[r].list
              /\ \/ c.step = "sleeping" /\ inactive /\ inactive' = inactive
                 \/ c.step = "creating" /\ ~inactive /\ ~soapClient /\ inactive' = TRUE
                 \/ c.step = "calling" /\ ~inactive /\ soapClient /\ inactive' = inactive
        BY <1>2, InvTypes, ClientIsAsked
    <2>3. OneClient' /\ {soapClient', inactive'} \subseteq BOOLEAN /\ (inactive' => ~soapClient')
        BY <1>1, <2>1, AskingKeeps
    <2>4. \A q \in CaRequests \ {r} : CallInv(q)'
        BY <1>1, <2>1, OthersKeep
    <2>5. c.step \in UnderWay
        BY <2>1 DEF UnderWay
    <2>6. ValidOnesAreRecorded'
        BY <1>1, <1>2, <2>1, <2>5, ValidKept
    <2>7. CallInv(r)'
        <3>1. c.op = "remove" /\ c.serial # NoSerial /\ c.due \subseteq removed
            BY <1>1, <2>1, InvTypes DEF CallInv
        <3> QED
            BY <1>1, <2>1, <3>1, AskingCall
    <2> QED
        BY <1>1, <1>2, <2>1, <2>3, <2>4, <2>6, <2>7, FaultTypes, InvTypes, MoveKeeps
<1>3. CASE /\ EjbcaFault /\ Steps(r, "refused") /\ adrift' = adrift \cup LeftBehind(r) /\ UNCHANGED inactive
    <2>1. PICK c \in CaCalls :
              /\ BecomesCall(r, c) /\ c.step = "refused"
              /\ c.op = call[r].op /\ c.serial = call[r].serial /\ c.renew = call[r].renew
              /\ c.due = call[r].due /\ c.list = call[r].list
        BY <1>3, InvTypes, StepsOn DEF CallSteps, UnderWay
    <2>2. call'[r] = c
        BY <2>1 DEF BecomesCall
    <2>3. OneClient' /\ {soapClient', inactive'} \subseteq BOOLEAN /\ (inactive' => ~soapClient')
        BY <1>1, <1>3, <2>1, RestingKeeps
    <2>4. \A q \in CaRequests \ {r} : CallInv(q)'
        BY <1>1, <1>3, <2>1, InvTypes, OthersKeep
    <2>5. call[r].serial \in adrift'
        BY <1>1, <1>3 DEF LeftBehind
    <2>6. ValidOnesAreRecorded'
        BY <1>1, <1>3, <2>1, <2>5, ValidKept
    <2>7. CallInv(r)'
        BY <1>1, <1>3, <2>1, <2>2, InvTypes DEF CallInv, Renews
    <2> QED
        BY <1>1, <1>3, <2>1, <2>3, <2>4, <2>6, <2>7, FaultTypes, InvTypes, MoveKeeps
<1> QED
    BY <1>2, <1>3 DEF RemovesRecord

LEMMA RevokesInv ==
    ASSUME EjbcaInv, NEW r \in CaRequests, Revokes(r)
    PROVE  EjbcaInv'
<1>1. /\ call[r].step = "calling" /\ call[r].op = "remove"
      /\ revoked \subseteq revoked' /\ revoked' \subseteq revoked \cup {call[r].serial}
      /\ removed \subseteq removed' /\ removed' \subseteq removed \cup {call[r].serial}
      /\ removed' # removed => call[r].serial \in revoked'
      /\ adrift' \in {adrift, adrift \cup LeftBehind(r)}
      /\ call[r].serial \in revoked' \cup adrift'
      /\ EjbcaFault \/ UNCHANGED ejbcaFaults
      /\ UNCHANGED <<soapClient, inactive, records, issued, crl>>
    BY DEF Revokes, LeftBehind
<1>2. /\ call[r].serial \in Serials /\ {revoked', removed', adrift'} \subseteq SUBSET Serials
      /\ removed' \subseteq revoked'
    <2>1. call[r].serial \in Serials
        BY <1>1, InvTypes DEF CallInv
    <2>2. {revoked', removed', adrift'} \subseteq SUBSET Serials
        BY <1>1, <2>1, InvTypes
    <2>3. removed' \subseteq revoked'
        BY <1>1, InvTypes
    <2> QED
        BY <2>1, <2>2, <2>3
<1>3. ASSUME NEW s \in {"answered", "refused"}, Steps(r, s)
      PROVE  EjbcaInv'
    <2>1. PICK c \in CaCalls :
              /\ BecomesCall(r, c) /\ c.step = s
              /\ c.op = call[r].op /\ c.serial = call[r].serial /\ c.renew = call[r].renew
              /\ c.due = call[r].due /\ c.list = call[r].list
        BY <1>3, InvTypes, StepsOn DEF CallSteps, UnderWay
    <2>2. call'[r] = c
        BY <2>1 DEF BecomesCall
    <2>3. OneClient' /\ {soapClient', inactive'} \subseteq BOOLEAN /\ (inactive' => ~soapClient')
        BY <1>1, <1>3, <2>1, RestingKeeps
    <2>4. \A q \in CaRequests \ {r} : CallInv(q)'
        BY <1>1, <1>2, <1>3, <2>1, InvTypes, OthersKeep
    <2>5. call[r].serial \in revoked' \cup adrift'
        BY <1>1
    <2>6. ValidOnesAreRecorded'
        BY <1>1, <1>2, <1>3, <2>1, <2>5, ValidKept
    <2>7. CallInv(r)'
        BY <1>1, <1>2, <1>3, <2>1, <2>2, InvTypes DEF CallInv, Renews
    <2> QED
        BY <1>1, <1>2, <1>3, <2>1, <2>3, <2>4, <2>6, <2>7, FaultTypes, InvTypes, MoveKeeps
<1> QED
    BY <1>3 DEF Revokes

LEMMA AsksAuthorityInv ==
    ASSUME EjbcaInv, NEW r \in CaRequests, AsksAuthority(r)
    PROVE  EjbcaInv'
<1>1. /\ call[r].step = "idle"
      /\ UNCHANGED <<soapClient, records, issued, revoked, crl, removed, adrift, ejbcaFaults>>
    BY DEF AsksAuthority, pki
<1>2. PICK asked \in {"root", "list"}, renew \in BOOLEAN :
          GetsClient(r, Call(asked, NoSerial, renew, removed))
    BY EjbcaAssumption DEF AsksAuthority
<1> DEFINE d == Call(asked, NoSerial, renew, removed)
<1>3. d \in CaCalls /\ GetsClient(r, d) /\ d.op = asked /\ d.serial = NoSerial /\ d.due = removed
    BY <1>2, InvTypes DEF CaCalls, UnderWay, Call
<1> HIDE DEF d
<1>4. PICK c \in CaCalls :
          /\ BecomesCall(r, c)
          /\ c.op = d.op /\ c.serial = d.serial /\ c.renew = d.renew /\ c.due = d.due /\ c.list = d.list
          /\ \/ c.step = "sleeping" /\ inactive /\ inactive' = inactive
             \/ c.step = "creating" /\ ~inactive /\ ~soapClient /\ inactive' = TRUE
             \/ c.step = "calling" /\ ~inactive /\ soapClient /\ inactive' = inactive
    BY <1>3, InvTypes, ClientIsAsked
<1>5. c.op = asked /\ c.serial = NoSerial /\ c.due = removed
    BY <1>3, <1>4
<1>6. OneClient' /\ {soapClient', inactive'} \subseteq BOOLEAN /\ (inactive' => ~soapClient')
    BY <1>1, <1>4, AskingKeeps
<1>7. \A q \in CaRequests \ {r} : CallInv(q)'
    BY <1>1, <1>4, <1>5, OthersKeep
<1>8. call[r].step \notin UnderWay
    BY <1>1 DEF UnderWay
<1>9. ValidOnesAreRecorded'
    BY <1>1, <1>4, <1>8, ValidKept
<1>10. CallInv(r)'
    BY <1>1, <1>4, <1>5, AskingCall
<1> QED
    BY <1>1, <1>4, <1>6, <1>7, <1>9, <1>10, FaultTypes, InvTypes, MoveKeeps

LEMMA CreatesCRLInv ==
    ASSUME EjbcaInv, NEW r \in CaRequests, CreatesCRL(r)
    PROVE  EjbcaInv'
<1>1. /\ call[r].step = "calling" /\ Renews(r) /\ call[r].op = "list" /\ call[r].serial = NoSerial
      /\ crl' \in {crl, revoked} /\ (EjbcaFault \/ UNCHANGED ejbcaFaults)
      /\ UNCHANGED <<soapClient, inactive, records, issued, revoked, removed, adrift>>
    BY InvTypes DEF CreatesCRL, Renews, CallInv
<1>2. ASSUME NEW s \in {"reading", "refused"}, Steps(r, s), s = "reading" => crl' = revoked
      PROVE  EjbcaInv'
    <2>1. PICK c \in CaCalls :
              /\ BecomesCall(r, c) /\ c.step = s
              /\ c.op = call[r].op /\ c.serial = call[r].serial /\ c.renew = call[r].renew
              /\ c.due = call[r].due /\ c.list = call[r].list
        BY <1>2, InvTypes, StepsOn DEF CallSteps, UnderWay
    <2>2. call'[r] = c
        BY <2>1 DEF BecomesCall
    <2>3. OneClient' /\ {soapClient', inactive'} \subseteq BOOLEAN /\ (inactive' => ~soapClient')
        BY <1>1, <1>2, <2>1, RestingKeeps
    <2>4. \A q \in CaRequests \ {r} : CallInv(q)'
        BY <1>1, <1>2, <2>1, InvTypes, OthersKeep
    <2>5. call[r].serial \notin issued
        BY <1>1, EjbcaAssumption, InvTypes
    <2>6. ValidOnesAreRecorded'
        BY <1>1, <1>2, <2>1, <2>5, ValidKept
    <2>7. CallInv(r)'
        BY <1>1, <1>2, <2>1, <2>2, InvTypes DEF CallInv, Renews
    <2> QED
        BY <1>1, <1>2, <2>1, <2>3, <2>4, <2>6, <2>7, FaultTypes, InvTypes, MoveKeeps
<1> QED
    BY <1>2 DEF CreatesCRL

LEMMA ReadsAuthorityInv ==
    ASSUME EjbcaInv, NEW r \in CaRequests, ReadsAuthority(r)
    PROVE  EjbcaInv'
<1>1. /\ call[r].step = "reading" \/ (call[r].step = "calling" /\ ~Renews(r))
      /\ call[r].op \in {"root", "list"} /\ call[r].serial = NoSerial
      /\ EjbcaFault \/ UNCHANGED ejbcaFaults
      /\ UNCHANGED <<soapClient, inactive, records, issued, revoked, crl, removed, adrift>>
    BY InvTypes DEF ReadsAuthority, Renews, CallInv, pki
<1>2. call[r].serial \notin issued
    BY <1>1, EjbcaAssumption, InvTypes
<1>3. CASE Steps(r, "refused")
    <2>1. PICK c \in CaCalls :
              /\ BecomesCall(r, c) /\ c.step = "refused"
              /\ c.op = call[r].op /\ c.serial = call[r].serial /\ c.renew = call[r].renew
              /\ c.due = call[r].due /\ c.list = call[r].list
        BY <1>3, InvTypes, StepsOn DEF CallSteps, UnderWay
    <2>2. call'[r] = c
        BY <2>1 DEF BecomesCall
    <2>3. OneClient' /\ {soapClient', inactive'} \subseteq BOOLEAN /\ (inactive' => ~soapClient')
        BY <1>1, <1>3, <2>1, RestingKeeps
    <2>4. \A q \in CaRequests \ {r} : CallInv(q)'
        BY <1>1, <1>2, <1>3, <2>1, InvTypes, OthersKeep
    <2>6. ValidOnesAreRecorded'
        BY <1>1, <1>2, <1>3, <2>1, ValidKept
    <2>7. CallInv(r)'
        BY <1>1, <1>2, <1>3, <2>1, <2>2, InvTypes DEF CallInv, Renews
    <2> QED
        BY <1>1, <1>2, <1>3, <2>1, <2>3, <2>4, <2>6, <2>7, FaultTypes, InvTypes, MoveKeeps
<1>4. CASE call' = [call EXCEPT ![r].step = "answered", ![r].list = IF call[r].op = "list" THEN crl ELSE {}]
    <2> DEFINE seen == IF call[r].op = "list" THEN crl ELSE {}
               c == [call[r] EXCEPT !.step = "answered", !.list = seen]
    <2>1. call[r] \in CaCalls /\ seen \in SUBSET Serials
        BY InvTypes
    <2>2. /\ c \in CaCalls /\ c.step = "answered" /\ c.list = seen
          /\ c.op = call[r].op /\ c.serial = call[r].serial /\ c.renew = call[r].renew
          /\ c.due = call[r].due
        BY <2>1 DEF CaCalls
    <2>3. call' = [call EXCEPT ![r] = c]
        BY <1>4
    <2>4. call[r].step = "reading" => call[r].due \subseteq seen
        BY <1>1, InvTypes DEF CallInv, Renews
    <2> HIDE DEF c, seen
    <2>5. BecomesCall(r, c) /\ call'[r] = c
        BY <2>2, <2>3, InvTypes DEF BecomesCall, EjbcaTypeOK
    <2>6. OneClient' /\ {soapClient', inactive'} \subseteq BOOLEAN /\ (inactive' => ~soapClient')
        BY <1>1, <2>2, <2>5, RestingKeeps
    <2>7. \A q \in CaRequests \ {r} : CallInv(q)'
        BY <1>1, <2>2, <2>5, OthersKeep
    <2>8. ValidOnesAreRecorded'
        BY <1>1, <1>2, <2>2, <2>5, ValidKept
    <2>9. CallInv(r)'
        BY <1>1, <2>2, <2>4, <2>5, InvTypes DEF CallInv, Renews
    <2> QED
        BY <1>1, <2>2, <2>5, <2>6, <2>7, <2>8, <2>9, FaultTypes, InvTypes, MoveKeeps
<1> QED
    BY <1>3, <1>4 DEF ReadsAuthority

LEMMA EjbcaUpdatesCRLInv == EjbcaInv /\ EjbcaUpdatesCRL => EjbcaInv'
<1> SUFFICES ASSUME EjbcaInv, EjbcaUpdatesCRL
             PROVE  EjbcaInv'
    OBVIOUS
<1>1. /\ crl' = revoked
      /\ UNCHANGED <<soapClient, inactive, call, records, issued, revoked, removed, adrift, ejbcaFaults>>
    BY DEF EjbcaUpdatesCRL
<1>2. EjbcaTypeOK'
    BY <1>1, InvTypes DEF EjbcaTypeOK
<1>3. OneClient' /\ ValidOnesAreRecorded'
    BY <1>1 DEF EjbcaInv, OneClient, ValidOnesAreRecorded
<1>4. ASSUME NEW r \in CaRequests
      PROVE  CallInv(r)'
    BY <1>1, InvTypes DEF CallInv, Renews
<1> QED
    BY <1>1, <1>2, <1>3, <1>4 DEF EjbcaInv

LEMMA EjbcaRestartsInv == EjbcaInv /\ EjbcaRestarts => EjbcaInv'
<1> SUFFICES ASSUME EjbcaInv, EjbcaRestarts
             PROVE  EjbcaInv'
    OBVIOUS
<1> DEFINE Ended(r) == IF call[r].step \in {"idle", "answered"} THEN call[r]
                       ELSE [call[r] EXCEPT !.step = "refused"]
           cut == {q \in CaRequests : call[q].serial # NoSerial /\ call[q].step \in UnderWay}
<1>1. /\ EjbcaFault /\ soapClient' = FALSE /\ inactive' = FALSE
      /\ call' = [r \in CaRequests |-> Ended(r)]
      /\ adrift' = adrift \cup {call[r].serial : r \in cut}
      /\ UNCHANGED <<records, issued, revoked, crl, removed>>
    BY DEF EjbcaRestarts, pki
<1>2. ASSUME NEW r \in CaRequests
      PROVE  /\ call'[r] \in CaCalls /\ call'[r] = Ended(r)
             /\ call'[r].op = call[r].op /\ call'[r].serial = call[r].serial
             /\ call'[r].renew = call[r].renew /\ call'[r].due = call[r].due
             /\ call'[r].list = call[r].list
             /\ \/ call'[r].step \in {"idle", "answered"} /\ call'[r].step = call[r].step
                \/ call'[r].step = "refused"
    <2>1. call[r] \in CaCalls /\ call'[r] = Ended(r)
        BY <1>1, InvTypes
    <2>2. CASE call[r].step \in {"idle", "answered"}
        BY <2>1, <2>2
    <2>3. CASE call[r].step \notin {"idle", "answered"}
        <3>1. call'[r] = [call[r] EXCEPT !.step = "refused"]
            BY <2>1, <2>3
        <3>2. "refused" \in CallSteps
            BY DEF CallSteps
        <3> QED
            BY <2>1, <3>1, <3>2, WithStep
    <2> QED
        BY <2>2, <2>3
<1>3. call' \in [CaRequests -> CaCalls]
    BY <1>1, <1>2
<1>4. adrift' \in SUBSET Serials
    BY <1>1, InvTypes
<1> HIDE DEF Ended
<1>5. EjbcaTypeOK'
    BY <1>1, <1>3, <1>4, FaultTypes, InvTypes DEF EjbcaTypeOK
<1>6. OneClient'
    BY <1>1, <1>2 DEF OneClient
<1>7. ASSUME NEW r \in CaRequests
      PROVE  CallInv(r)'
    <2>1. CallInv(r)
        BY InvTypes
    <2>2. call'[r].step \notin {"removing", "saving", "reading"} \cup {"sleeping", "creating", "calling"}
        BY <1>2
    <2>3. call'[r].step = "answered" => call[r].step = "answered"
        BY <1>2
    <2>4. Renews(r)' <=> Renews(r)
        BY <1>2 DEF Renews
    <2> QED
        BY <1>1, <1>2, <2>1, <2>2, <2>3, <2>4 DEF CallInv
<1>8. ValidOnesAreRecorded'
    <2> SUFFICES ASSUME NEW s \in issued, s \notin revoked, s \notin records, s \notin adrift'
                 PROVE  FALSE
        BY <1>1 DEF ValidOnesAreRecorded
    <2>1. PICK q \in CaRequests : call[q].step \in UnderWay /\ call[q].serial = s
        BY <1>1 DEF EjbcaInv, ValidOnesAreRecorded
    <2>2. q \in cut
        BY <2>1, EjbcaAssumption, InvTypes
    <2> QED
        BY <1>1, <2>1, <2>2
<1> QED
    BY <1>1, <1>5, <1>6, <1>7, <1>8, InvTypes DEF EjbcaInv

LEMMA EjbcaInvInit == EjbcaInit => EjbcaInv
<1> SUFFICES ASSUME EjbcaInit
             PROVE  EjbcaInv
    OBVIOUS
<1>1. /\ soapClient = FALSE /\ inactive = FALSE /\ records \in SUBSET Serials /\ issued = records
      /\ revoked = {} /\ crl = {} /\ removed = {} /\ adrift = {} /\ ejbcaFaults = 0
      /\ call = [r \in CaRequests |-> Call("none", NoSerial, FALSE, {})]
    BY DEF EjbcaInit
<1>2. ASSUME NEW r \in CaRequests
      PROVE  /\ call[r] \in CaCalls /\ call[r].op = "none" /\ call[r].serial = NoSerial
             /\ call[r].step = "idle" /\ call[r].due = {}
    BY <1>1 DEF Call, CaCalls, UnderWay
<1>3. EjbcaTypeOK
    <2>1. call \in [CaRequests -> CaCalls]
        BY <1>1, <1>2
    <2> QED
        <3>1. 0 \in 0..MaxEjbcaFaults
            BY EjbcaAssumption
        <3> QED
            BY <1>1, <2>1, <3>1 DEF EjbcaTypeOK
<1>4. OneClient /\ ValidOnesAreRecorded
    BY <1>1, <1>2 DEF OneClient, ValidOnesAreRecorded
<1>5. \A r \in CaRequests : CallInv(r)
    BY <1>2 DEF CallInv
<1> QED
    BY <1>1, <1>3, <1>4, <1>5 DEF EjbcaInv

LEMMA EjbcaInvNext == EjbcaInv /\ [EjbcaNext]_ejbcaVars => EjbcaInv'
<1> SUFFICES ASSUME EjbcaInv, [EjbcaNext]_ejbcaVars
             PROVE  EjbcaInv'
    OBVIOUS
<1>1. CASE UNCHANGED ejbcaVars
    <2>1. UNCHANGED <<soapClient, inactive, call, records, issued, revoked, crl, removed, adrift, ejbcaFaults>>
        BY <1>1 DEF ejbcaVars, pki
    <2>2. EjbcaTypeOK' /\ OneClient' /\ ValidOnesAreRecorded'
        BY <2>1 DEF EjbcaInv, EjbcaTypeOK, OneClient, ValidOnesAreRecorded
    <2>3. \A r \in CaRequests : CallInv(r)'
        BY <2>1 DEF EjbcaInv, CallInv, Renews
    <2> QED
        BY <2>1, <2>2, <2>3 DEF EjbcaInv
<1>2. CASE \E r \in CaRequests : \/ Wakes(r) \/ ClientEnds(r) \/ SignsCertificate(r) \/ Saves(r) \/ RemovesRecord(r) \/ Revokes(r)
                                 \/ AsksAuthority(r) \/ CreatesCRL(r) \/ ReadsAuthority(r)
    BY <1>2, WakesInv, ClientEndsInv, SignsCertificateInv, SavesInv, RemovesRecordInv, RevokesInv, AsksAuthorityInv,
       CreatesCRLInv, ReadsAuthorityInv
<1>3. CASE \E r \in CaRequests, s \in Serials : AsksCertificate(r, s) \/ AsksRemoval(r, s)
    BY <1>3, AsksCertificateInv, AsksRemovalInv
<1> QED
    BY <1>1, <1>2, <1>3, EjbcaUpdatesCRLInv, EjbcaRestartsInv DEF EjbcaNext

\* One request at a time creates the SOAP client and none calls without it, the revocation lists have
\* every certificate whose removal was answered, and every valid certificate has a record, a request at
\* it, or a failure behind it: for any requests, certificates, faults and interleaving (EjbcaSoapClient,
\* EjbcaFacade, CertificateService.deleteCertificate).
THEOREM AuthorityStaysInStep == EjbcaSpec => []AuthorityIsInStep
<1>1. EjbcaInv => AuthorityIsInStep
    BY DEF EjbcaInv, AuthorityIsInStep, RemovalsAreListed, CallInv
<1> QED
    BY <1>1, EjbcaInvInit, EjbcaInvNext, PTL DEF EjbcaSpec

\* What a request, EJBCA and the database may hold (EjbcaSoapClient, EjbcaFacade).
THEOREM EjbcaTypeCorrect == EjbcaSpec => []EjbcaTypeOK
<1>1. EjbcaInv => EjbcaTypeOK
    BY DEF EjbcaInv
<1> QED
    BY <1>1, EjbcaInvInit, EjbcaInvNext, PTL DEF EjbcaSpec

-----------------------------------------------------------------------------
(* keycloak provider: what a customization adds to a realm *)

\* A realm has the whole customization and no placeholder.
Customised(c) ==
    /\ CustomRep.parts \subseteq c.parts /\ CustomRep.roles \subseteq c.roles
    /\ Named(CustomRep.clients) \subseteq Named(c.clients)
    /\ CustomRep.clientRoles \subseteq c.clientRoles
    /\ Named(CustomRep.users) \subseteq Named(c.users)
    /\ <<"dojot-proxy", "custom">> \notin c.clients /\ <<"admin", "custom">> \notin c.users

\* A realm before it is customised: it has the client account, and nothing of the customization's secrets.
Plain(c) ==
    /\ c \in Contents /\ c.clientRoles = {} /\ <<"account", "own">> \in c.clients
    /\ <<"dojot-proxy", "custom">> \notin c.clients /\ <<"admin", "custom">> \notin c.users

LEMMA NewRealmsArePlain == \A c \in {Defaults, Scoped, Imported} : Plain(c)
<1>1. Plain(Defaults) /\ Defaults.users = {} /\ Defaults.clients = {<<"account", "own">>}
    BY DEF Plain, Contents, Defaults
<1>2. Plain(Scoped) /\ Scoped.users = {} /\ Scoped.clients = {<<"account", "own">>}
    BY <1>1 DEF Plain, Contents, Scoped
<1>3. Plain(Imported)
    <2>1. Scoped \in Contents /\ Scoped.clientRoles = {}
        BY <1>2 DEF Plain
    <2>2. Imported = [Scoped EXCEPT !.clients = {<<"account", "own">>, <<"gui", "own">>}, !.roles = {"user"},
                                    !.users = {<<"admin", "own">>}]
        BY <1>2, <2>1 DEF Imported, Contents
    <2>3. PICK a : a = {<<"account", "own">>, <<"gui", "own">>}
        OBVIOUS
    <2>4. PICK b : b = {<<"admin", "own">>}
        OBVIOUS
    <2>5. /\ a \in SUBSET ({"dojot-proxy", "gui", "account"} \X {"own", "custom", "configured"})
          /\ b \in SUBSET ({"admin"} \X {"own", "custom", "configured"}) /\ {"user"} \in SUBSET {"user"}
        BY <2>3, <2>4
    <2>6. /\ Imported \in Contents /\ Imported.clientRoles = {} /\ Imported.clients = a /\ Imported.users = b
        BY <2>1, <2>2, <2>3, <2>4, <2>5 DEF Contents
    <2> QED
        BY <2>3, <2>4, <2>6 DEF Plain
<1> QED
    BY <1>1, <1>2, <1>3

\* The representations that the factory may have loaded.
Loaded(rep) ==
    /\ rep \in Contents
    /\ rep.parts = {"scope", "flow"} /\ rep.roles = {"user"} /\ rep.users = {<<"admin", "custom">>}
    /\ rep.clients = {<<"dojot-proxy", "custom">>, <<"gui", "custom">>, <<"account", "custom">>}
    /\ rep.clientRoles \in {{<<"gui", "viewer">>}, {<<"nobody", "viewer">>}}

LEMMA RepresentationsLoaded == Loaded(CustomRep) /\ Loaded(OrphanRep)
<1>1. Loaded(CustomRep)
    BY DEF Loaded, Contents, CustomRep
<1>2. Loaded(OrphanRep)
    BY <1>1 DEF Loaded, Contents, OrphanRep
<1> QED
    BY <1>1, <1>2

\* What the preparation leaves of a representation.
LEMMA PreparedParts ==
    ASSUME NEW rep \in Contents, NEW c \in Contents
    PROVE  /\ Prepared(rep, c) \in Contents
           /\ Prepared(rep, c).parts = rep.parts \ c.parts
           /\ Prepared(rep, c).roles = rep.roles \ c.roles
           /\ Prepared(rep, c).clientRoles = rep.clientRoles \ c.clientRoles
           /\ Prepared(rep, c).clients =
                {<<p[1], IF p[1] = "dojot-proxy" THEN "configured" ELSE p[2]>> :
                     p \in Missing(rep.clients, InternalClients \cup Named(c.clients))}
           /\ Prepared(rep, c).users =
                {<<u, IF u = "admin" THEN "configured" ELSE "custom">> : u \in Named(rep.users) \ Named(c.users)}
<1> DEFINE clients == {<<p[1], IF p[1] = "dojot-proxy" THEN "configured" ELSE p[2]>> :
                           p \in Missing(rep.clients, InternalClients \cup Named(c.clients))}
           users == {<<u, IF u = "admin" THEN "configured" ELSE "custom">> : u \in Named(rep.users) \ Named(c.users)}
<1>1. PICK r1 \in Contents :
        /\ r1 = PrepareRealm(rep)
        /\ r1.parts = rep.parts /\ r1.clients = rep.clients /\ r1.roles = rep.roles
        /\ r1.clientRoles = rep.clientRoles /\ r1.users = rep.users
    <2>1. PICK b \in BOOLEAN : b = (rep.resets /\ SmtpConfigured)
        OBVIOUS
    <2>2. PrepareRealm(rep) = [rep EXCEPT !.resets = b]
        BY <2>1 DEF PrepareRealm
    <2> QED
        BY <2>2 DEF Contents
<1>2. PICK r2 \in Contents :
        /\ r2 = PrepareParts(r1, c)
        /\ r2.parts = rep.parts \ c.parts /\ r2.clients = rep.clients /\ r2.roles = rep.roles
        /\ r2.clientRoles = rep.clientRoles /\ r2.users = rep.users
    <2>1. PrepareParts(r1, c) = [r1 EXCEPT !.parts = r1.parts \ c.parts]
        BY DEF PrepareParts
    <2>2. r1.parts \ c.parts \in SUBSET {"scope", "flow"}
        BY DEF Contents
    <2> QED
        BY <1>1, <2>1, <2>2 DEF Contents
<1>3. clients \subseteq {"dojot-proxy", "gui", "account"} \X {"own", "custom", "configured"}
    BY DEF Missing, Contents
<1>4. users \subseteq {"admin"} \X {"own", "custom", "configured"}
    BY DEF Named, Contents
<1>5. PICK r3 \in Contents :
        /\ r3 = PrepareClients(r2, c)
        /\ r3.parts = rep.parts \ c.parts /\ r3.clients = clients /\ r3.roles = rep.roles
        /\ r3.clientRoles = rep.clientRoles /\ r3.users = rep.users
    <2>1. PrepareClients(r2, c) = [r2 EXCEPT !.clients = clients]
        BY <1>2 DEF PrepareClients
    <2> HIDE DEF clients
    <2> QED
        BY <1>2, <1>3, <2>1 DEF Contents
<1>6. PICK r4 \in Contents :
        /\ r4 = PrepareRoles(r3, c)
        /\ r4.parts = rep.parts \ c.parts /\ r4.clients = clients /\ r4.roles = rep.roles \ c.roles
        /\ r4.clientRoles = rep.clientRoles \ c.clientRoles /\ r4.users = rep.users
    <2>1. PrepareRoles(r3, c) = [r3 EXCEPT !.roles = r3.roles \ c.roles, !.clientRoles = r3.clientRoles \ c.clientRoles]
        BY DEF PrepareRoles
    <2>2. PICK a \in SUBSET {"user"} : a = r3.roles \ c.roles
        BY DEF Contents
    <2>3. PICK b \in SUBSET {<<"gui", "viewer">>, <<"nobody", "viewer">>} : b = r3.clientRoles \ c.clientRoles
        BY DEF Contents
    <2>4. PrepareRoles(r3, c) = [r3 EXCEPT !.roles = a, !.clientRoles = b]
        BY <2>1, <2>2, <2>3
    <2>5. \A r \in Contents : LET r4 == [r EXCEPT !.roles = a, !.clientRoles = b]
                             IN  /\ r4 \in Contents /\ r4.roles = a /\ r4.clientRoles = b
                                 /\ r4.parts = r.parts /\ r4.clients = r.clients /\ r4.users = r.users
        BY DEF Contents
    <2>6. PICK r4 : r4 = [r3 EXCEPT !.roles = a, !.clientRoles = b]
        OBVIOUS
    <2>7. /\ r4 \in Contents /\ r4.roles = a /\ r4.clientRoles = b
          /\ r4.parts = r3.parts /\ r4.clients = r3.clients /\ r4.users = r3.users
        BY <1>5, <2>5, <2>6
    <2>8. r4 = PrepareRoles(r3, c)
        BY <2>4, <2>6
    <2> HIDE DEF clients
    <2> QED
        BY <1>5, <2>2, <2>3, <2>7, <2>8
<1>7. PICK r5 \in Contents :
        /\ r5 = PrepareUsers(r4, c)
        /\ r5.parts = rep.parts \ c.parts /\ r5.clients = clients /\ r5.roles = rep.roles \ c.roles
        /\ r5.clientRoles = rep.clientRoles \ c.clientRoles /\ r5.users = users
    <2>1. PrepareUsers(r4, c) = [r4 EXCEPT !.users = users]
        BY <1>6 DEF PrepareUsers, Contents
    <2> HIDE DEF clients, users
    <2> QED
        BY <1>4, <1>6, <2>1 DEF Contents
<1>8. Prepared(rep, c) = r5
    BY <1>1, <1>2, <1>5, <1>6, <1>7 DEF Prepared
<1> QED
    BY <1>7, <1>8

\* A plain realm that is customised has the whole customization: a representation that lacks some of it
\* is not imported.
LEMMA CustomizationIsWhole ==
    ASSUME NEW rep, NEW c, Loaded(rep), Plain(c), NEW p, p = Prepared(rep, c), RolesHaveClients(p, c)
    PROVE  p \in Contents /\ DoImport(p, c) \in Contents /\ Customised(DoImport(p, c))
<1>1. rep \in Contents /\ c \in Contents
    BY DEF Loaded, Plain
<1>2. /\ p \in Contents /\ p.parts = rep.parts \ c.parts /\ p.roles = rep.roles \ c.roles
      /\ p.clientRoles = rep.clientRoles \ c.clientRoles
      /\ p.clients = {<<q[1], IF q[1] = "dojot-proxy" THEN "configured" ELSE q[2]>> :
                          q \in Missing(rep.clients, InternalClients \cup Named(c.clients))}
      /\ p.users = {<<u, IF u = "admin" THEN "configured" ELSE "custom">> : u \in Named(rep.users) \ Named(c.users)}
    BY <1>1, PreparedParts
<1>3. PICK d : d = DoImport(p, c)
    OBVIOUS
<1>4. /\ d.parts = c.parts \cup p.parts /\ d.clients = c.clients \cup p.clients /\ d.roles = c.roles \cup p.roles
      /\ d.clientRoles = c.clientRoles \cup p.clientRoles /\ d.users = c.users \cup p.users
      /\ d \in Contents
    BY <1>1, <1>2, <1>3 DEF DoImport, Contents
<1>5. CustomRep.parts \subseteq d.parts /\ CustomRep.roles \subseteq d.roles
    BY <1>2, <1>4 DEF Loaded, CustomRep
<1>6. CustomRep.clientRoles \subseteq d.clientRoles
    <2>1. rep.clientRoles = {<<"gui", "viewer">>}
        <3> SUFFICES ASSUME rep.clientRoles = {<<"nobody", "viewer">>} PROVE FALSE
            BY DEF Loaded
        <3>1. <<"nobody", "viewer">> \in p.clientRoles
            BY <1>2 DEF Plain
        <3>2. "nobody" \in Named(p.clients) \cup Named(c.clients)
            BY <3>1 DEF RolesHaveClients, ClientExists
        <3>3. \E q \in {"dojot-proxy", "gui", "account"} \X {"own", "custom", "configured"} : q[1] = "nobody"
            BY <1>1, <1>2, <3>2 DEF Named, Contents
        <3> QED
            BY <3>3
    <2> QED
        BY <1>2, <1>4, <2>1 DEF CustomRep
<1>7. Named(CustomRep.clients) \subseteq Named(d.clients)
    <2>1. Named(CustomRep.clients) = {"dojot-proxy", "gui", "account"}
        BY DEF Named, CustomRep
    <2>2. "account" \in Named(d.clients)
        BY <1>4 DEF Plain, Named
    <2>3. ASSUME NEW n \in {"dojot-proxy", "gui"}, n \notin Named(c.clients)
          PROVE  n \in Named(p.clients)
        <3>1. <<n, "custom">> \in Missing(rep.clients, InternalClients \cup Named(c.clients))
            BY <2>3 DEF Loaded, Missing, InternalClients
        <3>2. <<n, IF n = "dojot-proxy" THEN "configured" ELSE "custom">> \in p.clients
            BY <1>2, <3>1
        <3> QED
            BY <3>2 DEF Named
    <2>4. \A n \in {"dojot-proxy", "gui"} : n \in Named(d.clients)
        BY <1>4, <2>3 DEF Named
    <2> QED
        BY <2>1, <2>2, <2>4
<1>8. Named(CustomRep.users) \subseteq Named(d.users)
    <2>1. Named(CustomRep.users) = {"admin"} /\ Named(rep.users) = {"admin"}
        BY DEF Named, CustomRep, Loaded
    <2>2. CASE "admin" \in Named(c.users)
        BY <1>4, <2>1, <2>2 DEF Named
    <2>3. CASE "admin" \notin Named(c.users)
        <3>1. <<"admin", "configured">> \in p.users
            BY <1>2, <2>1, <2>3
        <3> QED
            BY <1>4, <2>1, <3>1 DEF Named
    <2> QED
        BY <2>2, <2>3
<1>9. <<"dojot-proxy", "custom">> \notin d.clients /\ <<"admin", "custom">> \notin d.users
    <2>1. <<"dojot-proxy", "custom">> \notin p.clients
        BY <1>2
    <2>2. <<"admin", "custom">> \notin p.users
        BY <1>2
    <2> QED
        BY <1>4, <2>1, <2>2 DEF Plain
<1> QED
    BY <1>2, <1>3, <1>4, <1>5, <1>6, <1>7, <1>8, <1>9 DEF Customised

-----------------------------------------------------------------------------
(* keycloak provider: what is announced *)

OperationKinds == {"create", "remove"}
Operation == [phase : {"idle", "validate", "customize", "publish", "commit"}, kind : OperationKinds, name : Realms,
              content : Contents, rep : {NoRep} \cup Contents, of : Nat, event : Nat]

\* An event stands for a transaction that committed: it is neither rolled back nor one of a session that
\* has yet to commit.
Uncommitted(i) == \E s \in Sessions : op[s].phase = "commit" /\ op[s].event = i
Counts(r, i) == i \in 1..Len(tenantTopic) /\ tenantTopic[i][2] = r /\ i \notin rolledBack /\ ~Uncommitted(i)
Last(r, what) == \E i \in 1..Len(tenantTopic) : /\ Counts(r, i) /\ tenantTopic[i][1] = what
                                                /\ \A j \in 1..Len(tenantTopic) : Counts(r, j) => j <= i
TopicTells(r) ==
    /\ realms[r] # NoRealm => Last(r, "CREATE")
    /\ realms[r] = NoRealm => (\A i \in 1..Len(tenantTopic) : ~Counts(r, i)) \/ Last(r, "DELETE")

\* A creation may still commit, and so may a removal unless its realm is gone.
MayCommit(s) == op[s].kind = "remove" => realms[op[s].name] # NoRealm /\ born[op[s].name] = op[s].of

\* What the listener has made of the operation q.
Listening(q) ==
    /\ q.phase \in {"validate", "customize", "publish"} => q.name # Master /\ q.event = 0
    /\ q.phase \in {"validate", "customize"} => q.kind = "create" /\ Plain(q.content) /\ Loaded(q.rep)
    /\ q.phase \in {"publish", "commit"} /\ q.kind = "create" /\ q.name # Master => Customised(q.content)

\* The creation of a realm is alone with the name, which nobody has; a removal is of a realm there was.
Creating(q) == q.phase # "idle" /\ q.kind = "create"
Exclusive(s, q) ==
    /\ Creating(q) => /\ realms[q.name] = NoRealm
                      /\ \A t \in Sessions \ {s} : Creating(op[t]) => op[t].name # q.name
    /\ q.phase # "idle" /\ q.kind = "remove" => q.name # Master /\ q.of <= born[q.name]

\* A session that is to commit has an event of its own, behind all that count if it may still commit.
EventAnnounced(s) ==
    /\ op[s].phase = "commit" /\ op[s].name = Master => op[s].event = 0
    /\ op[s].phase = "commit" /\ op[s].name # Master =>
          /\ op[s].event \in 1..Len(tenantTopic) /\ op[s].event \notin rolledBack
          /\ tenantTopic[op[s].event] = Event(s)
          /\ \A t \in Sessions \ {s} : op[t].phase = "commit" => op[t].event # op[s].event
          /\ MayCommit(s) => \A j \in 1..Len(tenantTopic) : Counts(op[s].name, j) => j < op[s].event

KeycloakTyped ==
    /\ factoryRep \in {NoRep, CustomRep, OrphanRep}
    /\ realms \in [Realms -> {NoRealm} \cup Contents] /\ born \in [Realms -> Nat]
    /\ op \in [Sessions -> Operation]
    /\ tenantTopic \in Seq({"CREATE", "DELETE"} \X Realms) /\ rolledBack \subseteq 1..Len(tenantTopic)

KeycloakInv ==
    /\ KeycloakTyped /\ RealmsAreCustomised
    /\ \A r \in Realms \ {Master} : TopicTells(r)
    /\ \A s \in Sessions : Listening(op[s]) /\ Exclusive(s, op[s]) /\ EventAnnounced(s)


LEMMA KeycloakInvInit == KeycloakInit => KeycloakInv
<1> SUFFICES ASSUME KeycloakInit PROVE KeycloakInv
    OBVIOUS
<1>1. NoOp \in Operation /\ NoOp.phase = "idle"
    BY NewRealmsArePlain, KeycloakAssumption DEF NoOp, Operation, OperationKinds, Plain
<1>2. Len(tenantTopic) = 0 /\ tenantTopic \in Seq({"CREATE", "DELETE"} \X Realms)
    BY DEF KeycloakInit
<1>3. KeycloakTyped
    BY <1>1, <1>2 DEF KeycloakInit, KeycloakTyped
<1>4. RealmsAreCustomised /\ \A r \in Realms \ {Master} : TopicTells(r)
    BY <1>2 DEF KeycloakInit, RealmsAreCustomised, TopicTells
<1>5. \A s \in Sessions : Listening(op[s]) /\ Exclusive(s, op[s]) /\ EventAnnounced(s)
    BY <1>1 DEF KeycloakInit, Listening, Exclusive, Creating, EventAnnounced
<1> QED
    BY <1>3, <1>4, <1>5 DEF KeycloakInv

\* One session takes a step.
LEMMA SessionSteps ==
    ASSUME KeycloakTyped, NEW s \in Sessions, NEW q \in Operation, op' = [op EXCEPT ![s] = q]
    PROVE  /\ op' \in [Sessions -> Operation] /\ op'[s] = q
           /\ \A t \in Sessions \ {s} : op'[t] = op[t]
BY DEF KeycloakTyped

\* A session that neither publishes nor commits: what is announced stays as it is.
LEMMA QuietSteps ==
    ASSUME KeycloakInv, NEW s \in Sessions, NEW q \in Operation, op' = [op EXCEPT ![s] = q],
           UNCHANGED <<realms, born, tenantTopic, rolledBack>>, factoryRep' \in {NoRep, CustomRep, OrphanRep},
           op[s].phase # "commit", q.phase = "commit" => q.event = 0 /\ q.name = Master,
           Listening(q), Exclusive(s, q)
    PROVE  KeycloakInv'
<1>1. /\ op' \in [Sessions -> Operation] /\ op'[s] = q
      /\ \A t \in Sessions \ {s} : op'[t] = op[t]
    BY SessionSteps DEF KeycloakInv
<1>2. Len(tenantTopic) \in Nat
    BY DEF KeycloakInv, KeycloakTyped
<1>3. \A i \in 1..Len(tenantTopic) : Uncommitted(i)' <=> Uncommitted(i)
    BY <1>1, <1>2 DEF Uncommitted
<1>4. \A x : \A i \in 1..Len(tenantTopic) : Counts(x, i)' <=> Counts(x, i)
    BY <1>3 DEF Counts
<1>5. \A r \in Realms \ {Master} : TopicTells(r)'
    BY <1>4 DEF KeycloakInv, TopicTells, Last
<1>6. \A t \in Sessions : Listening(op'[t])
    BY <1>1 DEF KeycloakInv
<1>7. ASSUME NEW t \in Sessions
      PROVE  Exclusive(t, op[t])'
    <2>1. CASE t = s
        BY <1>1, <2>1 DEF Exclusive
    <2>2. CASE t # s
        BY <1>1, <2>2 DEF KeycloakInv, Exclusive
    <2> QED
        BY <2>1, <2>2
<1>8. ASSUME NEW t \in Sessions
      PROVE  EventAnnounced(t)'
    <2>1. CASE t = s
        BY <1>1, <2>1 DEF EventAnnounced
    <2>2. CASE t # s
        BY <1>1, <1>2, <1>4, <2>2 DEF KeycloakInv, EventAnnounced, MayCommit, Event
    <2> QED
        BY <2>1, <2>2
<1>9. KeycloakTyped' /\ RealmsAreCustomised'
    BY <1>1 DEF KeycloakInv, KeycloakTyped, RealmsAreCustomised
<1> QED
    BY <1>5, <1>6, <1>7, <1>8, <1>9 DEF KeycloakInv

LEMMA AtRest == NoOp \in Operation /\ NoOp.phase = "idle"
BY NewRealmsArePlain, KeycloakAssumption DEF NoOp, Operation, OperationKinds, Plain

\* A transaction begins.
LEMMA TransactionBeginsInv ==
    ASSUME KeycloakInv, NEW s \in Sessions, NEW r \in Realms,
           (\E c \in {Defaults, Scoped, Imported} : CreatesRealm(s, r, c)) \/ RemovesRealm(s, r)
    PROVE  KeycloakInv'
<1>0. /\ op[s].phase = "idle" /\ factoryRep' = factoryRep /\ factoryRep \in {CustomRep, OrphanRep}
      /\ UNCHANGED <<realms, born, tenantTopic, rolledBack>>
    BY DEF CreatesRealm, RemovesRealm, BeginsTransaction, KeycloakInv, KeycloakTyped
<1>1. Loaded(factoryRep) /\ factoryRep \in Contents /\ born[r] \in Nat
    BY <1>0, RepresentationsLoaded DEF Loaded, KeycloakInv, KeycloakTyped
<1>2. ASSUME NEW c \in {Defaults, Scoped, Imported}, CreatesRealm(s, r, c)
      PROVE  KeycloakInv'
    <2>1. PICK q : q = [NoOp EXCEPT !.phase = IF r = Master THEN "commit" ELSE "validate",
                                    !.name = r, !.content = c, !.rep = factoryRep, !.of = born[r]]
        OBVIOUS
    <2>2. Plain(c) /\ c \in Contents
        BY <1>2, NewRealmsArePlain DEF Plain
    <2>3. /\ q \in Operation /\ q.phase = (IF r = Master THEN "commit" ELSE "validate") /\ q.name = r
          /\ q.content = c /\ q.rep = factoryRep /\ q.kind = "create" /\ q.event = 0
        BY <1>1, <2>1, <2>2 DEF NoOp, Operation, OperationKinds
    <2>4. op' = [op EXCEPT ![s] = q] /\ realms[r] = NoRealm
        BY <1>2, <2>1 DEF CreatesRealm
    <2>5. \A t \in Sessions : Creating(op[t]) => op[t].name # r
        BY <1>2 DEF CreatesRealm, Creating
    <2>6. Listening(q) /\ Exclusive(s, q)
        BY <1>1, <2>2, <2>3, <2>4, <2>5 DEF Listening, Exclusive, Creating
    <2> QED
        BY <1>0, <2>3, <2>4, <2>6, QuietSteps
<1>3. CASE RemovesRealm(s, r)
    <2>1. PICK q : q = [NoOp EXCEPT !.phase = "publish", !.kind = "remove", !.name = r, !.of = born[r]]
        OBVIOUS
    <2>2. /\ q \in Operation /\ q.phase = "publish" /\ q.name = r /\ q.kind = "remove" /\ q.event = 0 /\ q.of = born[r]
        BY <1>1, <2>1, AtRest DEF NoOp, Operation, OperationKinds
    <2>3. op' = [op EXCEPT ![s] = q] /\ r # Master
        BY <1>3, <2>1 DEF RemovesRealm
    <2>4. Listening(q) /\ Exclusive(s, q)
        BY <1>1, <2>2, <2>3 DEF Listening, Exclusive, Creating
    <2> QED
        BY <1>0, <2>2, <2>3, <2>4, QuietSteps
<1> QED
    BY <1>2, <1>3

\* The listener validates and customises the realm, or throws.
LEMMA ListenerInv ==
    ASSUME KeycloakInv, NEW s \in Sessions, ValidatesRealm(s) \/ CustomizesRealm(s) \/ CustomizationFails(s)
    PROVE  KeycloakInv'
<1>0. /\ op[s] \in Operation /\ Listening(op[s]) /\ Exclusive(s, op[s]) /\ op[s].phase \in {"validate", "customize"}
      /\ factoryRep' \in {NoRep, CustomRep, OrphanRep} /\ UNCHANGED <<realms, born, tenantTopic, rolledBack>>
    BY DEF ValidatesRealm, CustomizesRealm, CustomizationFails, ListenerThrows, FactoryRepAfter, KeycloakInv, KeycloakTyped
<1>1. CASE op' = [op EXCEPT ![s] = NoOp]
    <2>1. PICK q \in Operation : q = NoOp /\ q.phase = "idle"
        BY AtRest
    <2> QED
        BY <1>0, <1>1, <2>1, QuietSteps DEF Listening, Exclusive, Creating
<1>2. CASE op' = [op EXCEPT ![s].phase = "customize"] /\ op[s].phase = "validate"
    <2>1. PICK q : q = [op[s] EXCEPT !.phase = "customize"]
        OBVIOUS
    <2>2. /\ q \in Operation /\ q.phase = "customize" /\ q.name = op[s].name /\ q.kind = op[s].kind
          /\ q.content = op[s].content /\ q.rep = op[s].rep /\ q.event = op[s].event /\ q.of = op[s].of
        BY <1>0, <2>1 DEF Operation
    <2>3. op' = [op EXCEPT ![s] = q]
        BY <1>2, <2>1 DEF KeycloakInv, KeycloakTyped
    <2>4. Listening(q) /\ Exclusive(s, q)
        BY <1>0, <2>2 DEF Listening, Exclusive, Creating
    <2> QED
        BY <1>0, <2>2, <2>3, <2>4, QuietSteps
<1>3. CASE CustomizesRealm(s)
    <2>1. PICK p : p = Prepared(op[s].rep, op[s].content)
        OBVIOUS
    <2>2. RolesHaveClients(p, op[s].content) /\ Loaded(op[s].rep) /\ Plain(op[s].content)
        BY <1>0, <1>3, <2>1 DEF CustomizesRealm, Listening
    <2>3. PICK d \in Contents : d = DoImport(p, op[s].content) /\ p \in Contents /\ Customised(d)
        BY <2>1, <2>2, CustomizationIsWhole
    <2>4. PICK q : q = [op[s] EXCEPT !.phase = "publish", !.rep = p, !.content = d]
        OBVIOUS
    <2>5. /\ q \in Operation /\ q.phase = "publish" /\ q.name = op[s].name /\ q.kind = op[s].kind
          /\ q.content = d /\ q.event = op[s].event /\ q.of = op[s].of
        BY <1>0, <2>3, <2>4 DEF Operation
    <2>6. op' = [op EXCEPT ![s] = q]
        BY <1>3, <2>1, <2>3, <2>4 DEF CustomizesRealm, KeycloakInv, KeycloakTyped
    <2>7. Listening(q) /\ Exclusive(s, q)
        BY <1>0, <2>3, <2>5 DEF Listening, Exclusive, Creating
    <2> QED
        BY <1>0, <2>5, <2>6, <2>7, QuietSteps
<1> QED
    BY <1>1, <1>2, <1>3 DEF ValidatesRealm, CustomizationFails, ListenerThrows

\* An event more on the topic, which does not count yet or never will.
LEMMA LongerTopic ==
    ASSUME KeycloakTyped, NEW e \in {"CREATE", "DELETE"} \X Realms, tenantTopic' = Append(tenantTopic, e)
    PROVE  /\ tenantTopic' \in Seq({"CREATE", "DELETE"} \X Realms)
           /\ Len(tenantTopic') = Len(tenantTopic) + 1 /\ Len(tenantTopic) \in Nat
           /\ tenantTopic'[Len(tenantTopic) + 1] = e
           /\ \A i \in 1..Len(tenantTopic) : tenantTopic'[i] = tenantTopic[i]
BY DEF KeycloakTyped

LEMMA EventsTyped ==
    ASSUME KeycloakTyped, NEW s \in Sessions
    PROVE  Event(s) \in {"CREATE", "DELETE"} \X Realms /\ Event(s)[2] = op[s].name
BY DEF KeycloakTyped, Operation, Event

\* A session publishes: its event is the last one, and counts when it commits.
LEMMA PublishesInv ==
    ASSUME KeycloakInv, NEW s \in Sessions, Publishes(s)
    PROVE  KeycloakInv'
<1>n. PICK n \in Nat : n = Len(tenantTopic)
    BY DEF KeycloakInv, KeycloakTyped
<1>0. /\ KeycloakTyped /\ op[s] \in Operation /\ Listening(op[s]) /\ Exclusive(s, op[s])
      /\ op[s].phase = "publish" /\ UNCHANGED <<factoryRep, realms, born, rolledBack>>
    BY DEF Publishes, KeycloakInv, KeycloakTyped
<1>1. tenantTopic' = Append(tenantTopic, Event(s))
    BY DEF Publishes
<1>2. /\ tenantTopic' \in Seq({"CREATE", "DELETE"} \X Realms) /\ Len(tenantTopic') = n + 1 /\ n \in Nat
      /\ tenantTopic'[n + 1] = Event(s) /\ \A i \in 1..n : tenantTopic'[i] = tenantTopic[i]
    BY <1>0, <1>1, <1>n, EventsTyped, LongerTopic
<1>3. PICK q : q = [op[s] EXCEPT !.phase = "commit", !.event = n + 1]
    OBVIOUS
<1>4. /\ q \in Operation /\ q.phase = "commit" /\ q.event = n + 1 /\ q.name = op[s].name /\ q.kind = op[s].kind
      /\ q.content = op[s].content /\ q.of = op[s].of
    <2>1. \A o \in Operation, m \in Nat :
            LET c == [o EXCEPT !.phase = "commit", !.event = m]
            IN  /\ c \in Operation /\ c.phase = "commit" /\ c.event = m /\ c.name = o.name /\ c.kind = o.kind
                /\ c.content = o.content /\ c.of = o.of
        BY DEF Operation
    <2>2. n + 1 \in Nat
        OBVIOUS
    <2> QED
        BY <1>0, <1>3, <2>1, <2>2
<1>5. op' = [op EXCEPT ![s] = q]
    BY <1>3, <1>n DEF Publishes, KeycloakInv, KeycloakTyped
<1>6. op' \in [Sessions -> Operation] /\ op'[s] = q /\ \A t \in Sessions \ {s} : op'[t] = op[t]
    BY <1>0, <1>4, <1>5, SessionSteps
<1>7. \A t \in Sessions \ {s} : op[t].phase = "commit" => op[t].event # n + 1
    <2>1. \A t \in Sessions : op[t].phase = "commit" => op[t].event \in {0} \cup 1..n
        BY <1>n DEF KeycloakInv, EventAnnounced
    <2> QED
        BY <2>1
<1>8. \A x : ~Counts(x, n + 1)' /\ \A i \in 1..n : Counts(x, i)' <=> Counts(x, i)
    <2>1. Uncommitted(n + 1)'
        BY <1>4, <1>6 DEF Uncommitted
    <2>2. \A i \in 1..n : Uncommitted(i)' <=> Uncommitted(i)
        <3>1. \A i \in 1..n : i # n + 1
            OBVIOUS
        <3> QED
            BY <1>0, <1>4, <1>6, <3>1 DEF Uncommitted
    <2> QED
        BY <1>0, <1>2, <1>n, <2>1, <2>2 DEF Counts
<1>9. 1..(n + 1) = 1..n \cup {n + 1}
    BY <1>2
<1>10. \A r \in Realms \ {Master} : TopicTells(r)'
    <2>1. ASSUME NEW r \in Realms \ {Master}, NEW what, Last(r, what)
          PROVE  Last(r, what)'
        <3>1. PICK i \in 1..n : Counts(r, i) /\ tenantTopic[i][1] = what /\ \A j \in 1..n : Counts(r, j) => j <= i
            BY <1>n, <2>1 DEF Last
        <3>2. i \in 1..(n + 1) /\ Counts(r, i)' /\ tenantTopic'[i][1] = what
            BY <1>2, <1>8, <1>9, <3>1
        <3>3. \A j \in 1..(n + 1) : Counts(r, j)' => j <= i
            BY <1>2, <1>8, <1>9, <3>1
        <3> QED
            BY <3>2, <3>3, <1>2, <1>8, <1>9 DEF Last
    <2>2. \A r \in Realms \ {Master} :
           (\A i \in 1..n : ~Counts(r, i)) => \A i \in 1..(n + 1) : ~Counts(r, i)'
        BY <1>2, <1>8, <1>9
    <2> QED
        BY <1>0, <1>n, <1>2, <1>8, <1>9, <2>1, <2>2 DEF KeycloakInv, TopicTells
<1>11. Listening(q) /\ \A t \in Sessions : Listening(op'[t])
    BY <1>0, <1>4, <1>6 DEF KeycloakInv, Listening
<1>12. ASSUME NEW t \in Sessions
       PROVE  Exclusive(t, op[t])'
    <2>1. CASE t = s
        BY <1>0, <1>4, <1>6, <2>1 DEF Exclusive, Creating
    <2>2. CASE t # s
        BY <1>0, <1>4, <1>6, <2>2 DEF KeycloakInv, Exclusive, Creating
    <2> QED
        BY <2>1, <2>2
<1>13. n + 1 \notin rolledBack
    BY <1>n DEF KeycloakInv, KeycloakTyped
<1>14. ASSUME NEW t \in Sessions
       PROVE  EventAnnounced(t)'
    <2>1. CASE t = s
        <3>1. Event(s)' = Event(s) /\ q.name # Master
            BY <1>0, <1>4, <1>6 DEF Event, Listening
        <3>2. \A j \in 1..(n + 1) : Counts(q.name, j)' => j < n + 1
            BY <1>8, <1>9
        <3>3. n + 1 \in 1..(n + 1)
            OBVIOUS
        <3> QED
            BY <1>0, <1>2, <1>4, <1>6, <1>7, <1>13, <2>1, <3>1, <3>2, <3>3 DEF EventAnnounced
    <2>2. CASE t # s
        <3>1. Event(t)' = Event(t) /\ MayCommit(t)' = MayCommit(t) /\ op'[t] = op[t]
            BY <1>0, <1>6, <2>2 DEF Event, MayCommit
        <3>2. op[t].phase = "commit" => op[t].event # n + 1
            BY <1>7, <2>2
        <3>3. \A x : \A j \in 1..(n + 1) : Counts(x, j)' => j \in 1..n /\ Counts(x, j)
            BY <1>8, <1>9
        <3>4. EventAnnounced(t) /\ 1..n \subseteq 1..(n + 1)
            BY <1>9 DEF KeycloakInv
        <3> QED
            BY <1>0, <1>2, <1>4, <1>6, <1>n, <2>2, <3>1, <3>2, <3>3, <3>4 DEF EventAnnounced
    <2> QED
        BY <2>1, <2>2
<1>15. KeycloakTyped' /\ RealmsAreCustomised'
    <2>1. rolledBack' \subseteq 1..Len(tenantTopic')
        BY <1>0, <1>2, <1>9, <1>n DEF KeycloakTyped
    <2> QED
        BY <1>0, <1>2, <1>6, <2>1 DEF KeycloakInv, KeycloakTyped, RealmsAreCustomised
<1> QED
    BY <1>10, <1>11, <1>12, <1>14, <1>15 DEF KeycloakInv

\* The producer fails, whether the event is on the topic or not: it never counts.
LEMMA PublishFailsInv ==
    ASSUME KeycloakInv, NEW s \in Sessions, PublishFails(s)
    PROVE  KeycloakInv'
<1>n. PICK n \in Nat : n = Len(tenantTopic)
    BY DEF KeycloakInv, KeycloakTyped
<1>0. /\ KeycloakTyped /\ op[s] \in Operation /\ op[s].phase = "publish" /\ op' = [op EXCEPT ![s] = NoOp]
      /\ UNCHANGED <<factoryRep, realms, born>>
    BY DEF PublishFails, KeycloakInv, KeycloakTyped
<1>1. CASE UNCHANGED <<tenantTopic, rolledBack>>
    <2>1. PICK q \in Operation : q = NoOp /\ q.phase = "idle"
        BY AtRest
    <2>2. factoryRep' \in {NoRep, CustomRep, OrphanRep}
        BY <1>0 DEF KeycloakTyped
    <2> QED
        BY <1>0, <1>1, <2>1, <2>2, QuietSteps DEF Listening, Exclusive, Creating
<1>2. CASE tenantTopic' = Append(tenantTopic, Event(s)) /\ rolledBack' = rolledBack \cup {n + 1}
    <2>1. /\ tenantTopic' \in Seq({"CREATE", "DELETE"} \X Realms) /\ Len(tenantTopic') = n + 1 /\ n \in Nat
          /\ \A i \in 1..n : tenantTopic'[i] = tenantTopic[i]
        BY <1>0, <1>2, <1>n, EventsTyped, LongerTopic
    <2>2. /\ op' \in [Sessions -> Operation] /\ op'[s].phase = "idle" /\ \A t \in Sessions \ {s} : op'[t] = op[t]
        BY <1>0, AtRest, SessionSteps
    <2>3. \A x : ~Counts(x, n + 1)' /\ \A i \in 1..n : Counts(x, i)' <=> Counts(x, i)
        <3>1. \A i \in 1..n : Uncommitted(i)' <=> Uncommitted(i)
            BY <1>0, <2>2 DEF Uncommitted
        <3>2. \A i \in 1..n : i \in rolledBack' <=> i \in rolledBack
            BY <1>2, <2>1
        <3> QED
            BY <1>2, <1>n, <2>1, <3>1, <3>2 DEF Counts
    <2>4. 1..(n + 1) = 1..n \cup {n + 1}
        BY <2>1
    <2>5. \A r \in Realms \ {Master} : TopicTells(r)'
        <3>1. ASSUME NEW r \in Realms \ {Master}, NEW what, Last(r, what)
              PROVE  Last(r, what)'
            <4>1. PICK i \in 1..n : Counts(r, i) /\ tenantTopic[i][1] = what /\ \A j \in 1..n : Counts(r, j) => j <= i
                BY <1>n, <3>1 DEF Last
            <4>2. i \in 1..(n + 1) /\ Counts(r, i)' /\ tenantTopic'[i][1] = what
                BY <2>1, <2>3, <2>4, <4>1
            <4>3. \A j \in 1..(n + 1) : Counts(r, j)' => j <= i
                BY <2>1, <2>3, <2>4, <4>1
            <4> QED
                BY <4>2, <4>3, <2>1, <2>3, <2>4 DEF Last
        <3>2. \A r \in Realms \ {Master} :
               (\A i \in 1..n : ~Counts(r, i)) => \A i \in 1..(n + 1) : ~Counts(r, i)'
            BY <2>1, <2>3, <2>4
        <3> QED
            BY <1>0, <1>n, <2>1, <2>3, <2>4, <3>1, <3>2 DEF KeycloakInv, TopicTells
    <2>6. ASSUME NEW t \in Sessions
          PROVE  Listening(op[t])' /\ Exclusive(t, op[t])' /\ EventAnnounced(t)'
        <3>1. CASE t = s
            BY <2>2, <3>1 DEF Listening, Exclusive, Creating, EventAnnounced
        <3>2. CASE t # s
            <4>1. op'[t] = op[t] /\ Event(t)' = Event(t) /\ MayCommit(t)' = MayCommit(t)
                BY <1>0, <2>2, <3>2 DEF Event, MayCommit
            <4>2. Listening(op[t])' /\ Exclusive(t, op[t])'
                BY <1>0, <2>2, <3>2, <4>1 DEF KeycloakInv, Exclusive, Creating
            <4>3. \A x : \A j \in 1..(n + 1) : Counts(x, j)' => j \in 1..n /\ Counts(x, j)
                BY <2>3, <2>4
            <4>4. \A i \in 1..n : i \notin rolledBack => i \notin rolledBack'
                BY <1>2, <2>1
            <4>5. EventAnnounced(t) /\ 1..n \subseteq 1..(n + 1)
                BY <2>4 DEF KeycloakInv
            <4>6. EventAnnounced(t)'
                BY <1>0, <1>n, <2>1, <2>2, <3>2, <4>1, <4>3, <4>4, <4>5 DEF EventAnnounced
            <4> QED
                BY <4>2, <4>6
        <3> QED
            BY <3>1, <3>2
    <2>7. KeycloakTyped' /\ RealmsAreCustomised'
        <3>1. rolledBack' \subseteq 1..Len(tenantTopic')
            BY <1>0, <1>2, <1>n, <2>1, <2>4 DEF KeycloakTyped
        <3> QED
            BY <1>0, <2>1, <2>2, <3>1 DEF KeycloakInv, KeycloakTyped, RealmsAreCustomised
    <2> QED
        BY <2>5, <2>6, <2>7 DEF KeycloakInv
<1> QED
    BY <1>1, <1>2, <1>n DEF PublishFails

\* A transaction commits or rolls back: of its realm, its event counts or does not.
LEMMA CommitEnds ==
    ASSUME KeycloakInv, NEW s \in Sessions, op[s].phase = "commit", op' = [op EXCEPT ![s] = NoOp],
           UNCHANGED tenantTopic
    PROVE  /\ op' \in [Sessions -> Operation] /\ op'[s].phase = "idle"
           /\ \A t \in Sessions \ {s} : op'[t] = op[t] /\ Event(t)' = Event(t)
           /\ \A i \in 1..Len(tenantTopic) : Uncommitted(i)' <=> Uncommitted(i) /\ i # op[s].event
<1>1. op' \in [Sessions -> Operation] /\ op'[s].phase = "idle" /\ \A t \in Sessions \ {s} : op'[t] = op[t]
    BY AtRest, SessionSteps DEF KeycloakInv
<1>2. Len(tenantTopic) \in Nat /\ EventAnnounced(s)
    BY DEF KeycloakInv, KeycloakTyped
<1>3. \A i \in 1..Len(tenantTopic) : \A t \in Sessions \ {s} :
        op[t].phase = "commit" /\ op[t].event = i => i # op[s].event
    <2>1. CASE op[s].name = Master
        BY <1>2, <2>1 DEF EventAnnounced
    <2>2. CASE op[s].name # Master
        BY <1>2, <2>2 DEF EventAnnounced
    <2> QED
        BY <2>1, <2>2
<1>4. \A i \in 1..Len(tenantTopic) : Uncommitted(i)' <=> Uncommitted(i) /\ i # op[s].event
    BY <1>1, <1>3 DEF Uncommitted
<1> QED
    BY <1>1, <1>4 DEF Event

LEMMA CommitFailsInv ==
    ASSUME KeycloakInv, NEW s \in Sessions, CommitFails(s)
    PROVE  KeycloakInv'
<1>0. /\ op[s].phase = "commit" /\ op' = [op EXCEPT ![s] = NoOp] /\ KeycloakTyped
      /\ rolledBack' = rolledBack \cup ({op[s].event} \ {0}) /\ UNCHANGED <<factoryRep, realms, born, tenantTopic>>
    BY DEF CommitFails, KeycloakInv
<1>1. /\ op' \in [Sessions -> Operation] /\ op'[s].phase = "idle"
      /\ \A t \in Sessions \ {s} : op'[t] = op[t] /\ Event(t)' = Event(t)
      /\ \A i \in 1..Len(tenantTopic) : Uncommitted(i)' <=> Uncommitted(i) /\ i # op[s].event
    BY <1>0, CommitEnds
<1>2. \A x : \A i \in 1..Len(tenantTopic) : Counts(x, i)' <=> Counts(x, i)
    <2>1. \A i \in 1..Len(tenantTopic) : i # 0
        OBVIOUS
    <2>2. \A i \in 1..Len(tenantTopic) : i = op[s].event => Uncommitted(i) /\ i \in rolledBack'
        BY <1>0, <2>1 DEF Uncommitted
    <2>3. \A i \in 1..Len(tenantTopic) : i # op[s].event => (i \in rolledBack' <=> i \in rolledBack)
        BY <1>0
    <2> QED
        BY <1>0, <1>1, <2>2, <2>3 DEF Counts
<1>3. \A r \in Realms \ {Master} : TopicTells(r)'
    BY <1>0, <1>2 DEF KeycloakInv, TopicTells, Last
<1>4. ASSUME NEW t \in Sessions
      PROVE  Listening(op[t])' /\ Exclusive(t, op[t])' /\ EventAnnounced(t)'
    <2>1. CASE t = s
        BY <1>1, <2>1 DEF Listening, Exclusive, Creating, EventAnnounced
    <2>2. CASE t # s
        <3>1. op'[t] = op[t] /\ Event(t)' = Event(t) /\ MayCommit(t)' = MayCommit(t)
            BY <1>0, <1>1, <2>2 DEF MayCommit
        <3>2. Listening(op[t])' /\ Exclusive(t, op[t])'
            BY <1>0, <1>1, <2>2, <3>1 DEF KeycloakInv, Exclusive, Creating
        <3>3. op[t].phase = "commit" /\ op[t].name # Master => op[t].event # op[s].event
            BY <1>0, <2>2 DEF KeycloakInv, EventAnnounced
        <3>4. EventAnnounced(t)'
            BY <1>0, <1>1, <1>2, <2>2, <3>1, <3>3 DEF KeycloakInv, EventAnnounced
        <3> QED
            BY <3>2, <3>4
    <2> QED
        BY <2>1, <2>2
<1>5. KeycloakTyped' /\ RealmsAreCustomised'
    <2>1. op[s].event \in {0} \cup 1..Len(tenantTopic)
        BY <1>0 DEF KeycloakInv, EventAnnounced
    <2>2. rolledBack' \subseteq 1..Len(tenantTopic)
        BY <1>0, <2>1 DEF KeycloakTyped
    <2> QED
        BY <1>0, <1>1, <2>2 DEF KeycloakInv, KeycloakTyped, RealmsAreCustomised
<1> QED
    BY <1>3, <1>4, <1>5 DEF KeycloakInv

\* The realm is there or gone, as its event says from now on; of the others of its name nobody may
\* commit any more.
LEMMA CommitsInv ==
    ASSUME KeycloakInv, NEW s \in Sessions, CommitsRealm(s)
    PROVE  KeycloakInv'
<1>n. PICK n \in Nat, r \in Realms, e \in Nat : n = Len(tenantTopic) /\ r = op[s].name /\ e = op[s].event
    BY DEF KeycloakInv, KeycloakTyped, Operation
<1>0. /\ op[s].phase = "commit" /\ op' = [op EXCEPT ![s] = NoOp] /\ KeycloakTyped /\ op[s] \in Operation
      /\ UNCHANGED <<factoryRep, tenantTopic, rolledBack>>
      /\ Listening(op[s]) /\ Exclusive(s, op[s]) /\ EventAnnounced(s) /\ MayCommit(s)
    BY DEF CommitsRealm, KeycloakInv, KeycloakTyped, MayCommit
<1>1. /\ op' \in [Sessions -> Operation] /\ op'[s].phase = "idle"
      /\ \A t \in Sessions \ {s} : op'[t] = op[t] /\ Event(t)' = Event(t)
      /\ \A i \in 1..n : Uncommitted(i)' <=> Uncommitted(i) /\ i # e
    BY <1>0, <1>n, CommitEnds
<1>2. /\ r \in Realms /\ op[s].content \in Contents /\ op[s].content # NoRealm /\ op[s].kind \in OperationKinds
    BY <1>0, <1>n, KeycloakAssumption DEF Operation
<1>3. PICK content \in {NoRealm} \cup Contents :
        /\ realms' = [realms EXCEPT ![r] = content] /\ (op[s].kind = "create" <=> content # NoRealm)
        /\ op[s].kind = "create" => content = op[s].content /\ born' = [born EXCEPT ![r] = @ + 1]
        /\ op[s].kind = "remove" => UNCHANGED born
    <2>1. CASE op[s].kind = "create"
        BY <1>n, <1>2, <2>1 DEF CommitsRealm
    <2>2. CASE op[s].kind = "remove"
        BY <1>n, <2>2 DEF CommitsRealm
    <2> QED
        BY <1>n, <1>2, <2>1, <2>2 DEF OperationKinds
<1>4. /\ realms' \in [Realms -> {NoRealm} \cup Contents] /\ realms'[r] = content
      /\ \A x \in Realms \ {r} : realms'[x] = realms[x]
    BY <1>n, <1>0, <1>2, <1>3 DEF KeycloakTyped
<1>5. /\ born' \in [Realms -> Nat] /\ \A x \in Realms : born[x] \in Nat /\ born[x] <= born'[x]
      /\ op[s].kind = "create" => born'[r] = born[r] + 1
    <2>1. CASE op[s].kind = "create"
        <3>1. \A x \in Realms : born[x] \in Nat /\ born'[x] = IF x = r THEN born[x] + 1 ELSE born[x]
            BY <1>0, <1>3, <2>1 DEF KeycloakTyped
        <3>2. born' \in [Realms -> Nat]
            BY <1>0, <1>3, <2>1 DEF KeycloakTyped
        <3> QED
            BY <3>1, <3>2
    <2>2. CASE op[s].kind = "remove"
        BY <1>n, <1>0, <1>3, <2>2 DEF KeycloakTyped
    <2> QED
        BY <1>n, <1>2, <2>1, <2>2 DEF OperationKinds
\* Of every other realm the same events count.
<1>6. \A x \in Realms \ {Master} : \A i \in 1..n :
        Counts(x, i)' <=> Counts(x, i) \/ (x = r /\ i = e)
    <2>1. ASSUME NEW x \in Realms \ {Master}, NEW i \in 1..n, i = e
          PROVE  Counts(x, i)' <=> x = r
        <3>1. r # Master
            BY <1>n, <1>0, <2>1 DEF EventAnnounced
        <3>2. tenantTopic[i] = Event(s) /\ i \notin rolledBack
            BY <1>n, <1>0, <2>1, <3>1 DEF EventAnnounced
        <3>3. tenantTopic[i][2] = r
            BY <1>n, <3>2 DEF Event
        <3> QED
            BY <1>n, <1>0, <1>1, <2>1, <3>2, <3>3 DEF Counts
    <2>2. ASSUME NEW x \in Realms \ {Master}, NEW i \in 1..n, i # e
          PROVE  Counts(x, i)' <=> Counts(x, i)
        BY <1>n, <1>0, <1>1, <2>2 DEF Counts
    <2>3. \A x : ~Counts(x, e)
        BY <1>n, <1>0 DEF Counts, Uncommitted
    <2> QED
        BY <1>n, <2>1, <2>2, <2>3
<1>7. ASSUME NEW x \in Realms \ {Master}
      PROVE  TopicTells(x)'
    <2>1. CASE x = r
        <3>1. /\ e \in 1..n /\ tenantTopic[e] = Event(s) /\ \A j \in 1..n : Counts(r, j) => j < e
            BY <1>n, <1>0, <1>7, <2>1 DEF EventAnnounced
        <3>2. Counts(r, e)' /\ \A j \in 1..n : Counts(r, j)' => j <= e
            BY <1>n, <1>0, <1>6, <1>7, <2>1, <3>1
        <3>3. tenantTopic[e][1] = IF content # NoRealm THEN "CREATE" ELSE "DELETE"
            BY <1>n, <1>2, <1>3, <3>1 DEF Event, OperationKinds
        <3>4. IF content # NoRealm THEN Last(r, "CREATE")' ELSE Last(r, "DELETE")'
            <4> SUFFICES ASSUME NEW what, tenantTopic[e][1] = what
                         PROVE  \E i \in 1..n : /\ Counts(r, i)' /\ tenantTopic[i][1] = what
                                                /\ \A j \in 1..n : Counts(r, j)' => j <= i
                BY <1>n, <1>0, <3>3 DEF Last
            <4>1. e \in 1..n
                BY <3>1
            <4> QED
                BY <3>2, <4>1
        <3> QED
            BY <1>n, <1>4, <2>1, <3>4 DEF TopicTells
    <2>2. CASE x # r
        BY <1>n, <1>0, <1>4, <1>6, <1>7, <2>2 DEF KeycloakInv, TopicTells, Last
    <2> QED
        BY <1>n, <2>1, <2>2
<1>8. ASSUME NEW t \in Sessions \ {s}
      PROVE  Exclusive(t, op[t])' /\ (MayCommit(t)' /\ op[t].phase # "idle" => op[t].name # r /\ MayCommit(t))
    <2>0. op'[t] = op[t] /\ op[t] \in Operation /\ Exclusive(t, op[t]) /\ op[t].name \in Realms /\ op[t].kind \in OperationKinds
        BY <1>n, <1>0, <1>1 DEF KeycloakInv, KeycloakTyped, Operation
    <2>1. CASE op[t].phase = "idle"
        BY <1>n, <2>0, <2>1 DEF Exclusive, Creating
    <2>2. CASE op[t].phase # "idle" /\ op[t].kind = "create"
        <3>1. realms[op[t].name] = NoRealm
            BY <1>n, <2>0, <2>2 DEF Exclusive, Creating
        <3>2. op[t].name # r
            <4>1. CASE op[s].kind = "create"
                BY <1>n, <1>0, <2>2, <4>1 DEF Exclusive, Creating
            <4>2. CASE op[s].kind = "remove"
                BY <1>n, <1>0, <3>1, <4>2 DEF MayCommit
            <4> QED
                BY <1>n, <1>2, <4>1, <4>2 DEF OperationKinds
        <3>3. \A z \in Sessions : Creating(op'[z]) => Creating(op[z]) /\ op'[z] = op[z]
            BY <1>n, <1>1 DEF Creating
        <3> QED
            BY <1>n, <1>4, <2>0, <2>2, <3>1, <3>2, <3>3 DEF Exclusive, Creating, MayCommit
    <2>3. CASE op[t].phase # "idle" /\ op[t].kind = "remove"
        <3>1. op[t].of <= born[op[t].name] /\ op[t].of \in Nat /\ op[t].name # Master
            BY <1>n, <2>0, <2>3 DEF Exclusive, Operation
        <3>2. Exclusive(t, op[t])'
            BY <1>n, <1>5, <2>0, <2>3, <3>1 DEF Exclusive, Creating
        <3>3. op[t].name = r => ~MayCommit(t)'
            <4>1. CASE op[s].kind = "create"
                <5>1. op[t].name = r => op[t].of # born'[op[t].name]
                    BY <1>n, <1>2, <1>5, <3>1, <4>1
                <5> QED
                    BY <1>n, <2>0, <2>3, <5>1 DEF MayCommit
            <4>2. CASE op[s].kind = "remove"
                BY <1>n, <1>3, <1>4, <2>0, <2>3, <4>2 DEF MayCommit
            <4> QED
                BY <1>n, <1>2, <4>1, <4>2 DEF OperationKinds
        <3>4. op[t].name # r /\ MayCommit(t)' => MayCommit(t)
            <4>1. op[t].name # r => born'[op[t].name] = born[op[t].name] /\ realms'[op[t].name] = realms[op[t].name]
                BY <1>n, <1>0, <1>2, <1>3, <1>4, <2>0 DEF KeycloakTyped, OperationKinds
            <4> QED
                BY <1>n, <2>0, <4>1 DEF MayCommit
        <3> QED
            BY <3>2, <3>3, <3>4
    <2> QED
        BY <1>n, <2>0, <2>1, <2>2, <2>3 DEF OperationKinds
<1>9. ASSUME NEW t \in Sessions
      PROVE  Listening(op[t])' /\ Exclusive(t, op[t])' /\ EventAnnounced(t)'
    <2>1. CASE t = s
        BY <1>n, <1>1, <2>1 DEF Listening, Exclusive, Creating, EventAnnounced
    <2>2. CASE t # s
        <3>1. op'[t] = op[t] /\ Event(t)' = Event(t) /\ Listening(op[t]) /\ EventAnnounced(t) /\ op[t].name \in Realms
            BY <1>n, <1>0, <1>1, <2>2 DEF KeycloakInv, KeycloakTyped, Operation
        <3>2. Exclusive(t, op[t])' /\ (MayCommit(t)' /\ op[t].phase # "idle" => op[t].name # r /\ MayCommit(t))
            BY <1>n, <1>8, <2>2
        <3>3. op[t].name # Master /\ op[t].name # r => \A j \in 1..n : Counts(op[t].name, j)' => Counts(op[t].name, j)
            BY <1>n, <1>6, <3>1
        <3>4. EventAnnounced(t)'
            BY <1>n, <1>0, <1>1, <2>2, <3>1, <3>2, <3>3 DEF EventAnnounced
        <3> QED
            BY <3>1, <3>2, <3>4
    <2> QED
        BY <1>n, <2>1, <2>2
<1>10. RealmsAreCustomised'
    <2>1. r # Master /\ content # NoRealm => Customised(content)
        BY <1>n, <1>0, <1>3 DEF Listening
    <2> QED
        BY <1>n, <1>4, <2>1 DEF KeycloakInv, RealmsAreCustomised, Customised
<1>11. KeycloakTyped'
    BY <1>n, <1>0, <1>1, <1>4, <1>5 DEF KeycloakTyped
<1> QED
    BY <1>n, <1>7, <1>9, <1>10, <1>11 DEF KeycloakInv

\* The sessions, the topic and the realms, in any step.
LEMMA KeycloakInvNext == KeycloakInv /\ [KeycloakNext]_keycloakVars => KeycloakInv'
<1> SUFFICES ASSUME KeycloakInv, [KeycloakNext]_keycloakVars PROVE KeycloakInv'
    OBVIOUS
<1>1. CASE LoadsRepresentation \/ UNCHANGED keycloakVars
    <2>1. /\ UNCHANGED <<realms, born, op, tenantTopic, rolledBack>>
          /\ factoryRep' \in {factoryRep, CustomRep, OrphanRep}
        BY <1>1 DEF LoadsRepresentation, keycloakVars
    <2>2. KeycloakTyped' /\ RealmsAreCustomised'
        BY <2>1 DEF KeycloakInv, KeycloakTyped, RealmsAreCustomised
    <2>3. \A x, i : Counts(x, i)' <=> Counts(x, i)
        BY <2>1 DEF Counts, Uncommitted
    <2>4. \A s \in Sessions : Listening(op[s])' /\ Exclusive(s, op[s])' /\ EventAnnounced(s)'
        BY <2>1, <2>3 DEF KeycloakInv, Exclusive, EventAnnounced, MayCommit, Event
    <2>5. \A r \in Realms \ {Master} : TopicTells(r)'
        BY <2>1, <2>3 DEF KeycloakInv, TopicTells, Last
    <2> QED
        BY <2>2, <2>4, <2>5 DEF KeycloakInv
<1> QED
    BY <1>1, TransactionBeginsInv, ListenerInv, PublishesInv, PublishFailsInv, CommitsInv, CommitFailsInv DEF KeycloakNext

\* Whatever the services hear of tenants is true and the tenants are whole, for any realms, sessions,
\* transactions and failures.
THEOREM RealmsStayAsAnnounced == KeycloakSpec => []RealmsAreAsAnnounced
<1>1. KeycloakInv => RealmsAreAsAnnounced
    <2> SUFFICES ASSUME KeycloakInv, NEW r \in Realms \ {Master}, Settled(r)
                 PROVE  realms[r] # NoRealm <=> LastEvent(r) = "CREATE"
        BY DEF KeycloakInv, RealmsAreAsAnnounced, AnnouncementsFollowRealms
    <2> DEFINE told == {i \in DOMAIN tenantTopic : tenantTopic[i][2] = r /\ i \notin rolledBack}
    <2>1. DOMAIN tenantTopic = 1..Len(tenantTopic) /\ Len(tenantTopic) \in Nat
        BY DEF KeycloakInv, KeycloakTyped
    <2>2. \A i \in 1..Len(tenantTopic) : i \in told <=> Counts(r, i)
        <3>1. ASSUME NEW i \in 1..Len(tenantTopic), Uncommitted(i), tenantTopic[i][2] = r
              PROVE  FALSE
            <4>1. PICK s \in Sessions : op[s].phase = "commit" /\ op[s].event = i
                BY <3>1 DEF Uncommitted
            <4>2. tenantTopic[i] = Event(s)
                BY <4>1 DEF KeycloakInv, EventAnnounced
            <4>3. op[s].name = r
                BY <3>1, <4>2 DEF Event
            <4> QED
                BY <4>1, <4>3 DEF Settled
        <3> QED
            BY <2>1, <3>1 DEF Counts
    <2>3. ASSUME NEW what, Last(r, what)
          PROVE  LastEvent(r) = what
        <3>1. PICK i \in told : tenantTopic[i][1] = what /\ \A j \in told : j <= i
            BY <2>1, <2>2, <2>3 DEF Last
        <3>2. \A k \in told : (\A j \in told : j <= k) => k = i
            BY <2>1, <3>1
        <3>3. (CHOOSE k \in told : \A j \in told : j <= k) = i
            BY <3>1, <3>2
        <3> QED
            BY <3>1, <3>3 DEF LastEvent
    <2>4. (\A i \in 1..Len(tenantTopic) : ~Counts(r, i)) => LastEvent(r) = "DELETE"
        BY <2>1, <2>2 DEF LastEvent
    <2>5. TopicTells(r)
        BY DEF KeycloakInv
    <2> QED
        BY <2>3, <2>4, <2>5 DEF TopicTells
<1> QED
    BY <1>1, KeycloakInvInit, KeycloakInvNext, PTL DEF KeycloakSpec

-----------------------------------------------------------------------------
(* keycloak provider: types *)

\* The bounds, and what they rest on: a creation under way is a transaction that made no realm yet.
KeycloakRest ==
    /\ transactions \in 0..MaxTransactions /\ realmFaults \in 0..MaxRealmFaults
    /\ \A s \in Sessions : op[s].phase = "idle" => op[s].event = 0
    /\ \A r \in Realms : born[r] <= transactions
    /\ \A s \in Sessions : Creating(op[s]) => born[op[s].name] < transactions

LEMMA KeycloakRestInit == KeycloakInit => KeycloakRest
BY KeycloakAssumption DEF KeycloakInit, KeycloakRest, NoOp, Creating

\* No realm is born, and no creation begins.
LEMMA NoneIsBorn ==
    ASSUME KeycloakInv, KeycloakRest, UNCHANGED <<born, transactions>>,
           NEW s \in Sessions, NEW q \in Operation, op' = [op EXCEPT ![s] = q], realmFaults' \in 0..MaxRealmFaults,
           q.phase = "idle" => q.event = 0,
           Creating(q) => Creating(op[s]) /\ q.name = op[s].name
    PROVE  KeycloakRest'
<1>1. op' \in [Sessions -> Operation] /\ op'[s] = q /\ \A t \in Sessions \ {s} : op'[t] = op[t]
    BY SessionSteps DEF KeycloakInv
<1>2. ASSUME NEW t \in Sessions
      PROVE  (op'[t].phase = "idle" => op'[t].event = 0) /\ (Creating(op'[t]) => born[op'[t].name] < transactions)
    <2>1. CASE t = s
        BY <1>1, <2>1 DEF KeycloakRest
    <2>2. CASE t # s
        BY <1>1, <2>2 DEF KeycloakRest
    <2> QED
        BY <2>1, <2>2
<1>3. \A t \in Sessions : Creating(op[t])' <=> Creating(op'[t])
    BY DEF Creating
<1> QED
    BY <1>2, <1>3 DEF KeycloakRest

LEMMA KeycloakRestStep == KeycloakInv /\ KeycloakRest /\ [KeycloakNext]_keycloakVars => KeycloakRest'
<1> SUFFICES ASSUME KeycloakInv, KeycloakRest, [KeycloakNext]_keycloakVars
             PROVE  KeycloakRest'
    OBVIOUS
<1>0. /\ MaxTransactions \in Nat /\ MaxRealmFaults \in Nat
      /\ transactions \in 0..MaxTransactions /\ realmFaults \in 0..MaxRealmFaults /\ born \in [Realms -> Nat]
      /\ KeycloakTyped
    BY KeycloakAssumption DEF KeycloakRest, KeycloakInv, KeycloakTyped
<1>1. PICK idle \in Operation : idle = NoOp /\ idle.phase = "idle" /\ idle.event = 0
    BY AtRest DEF NoOp
<1>2. RealmFails => realmFaults' \in 0..MaxRealmFaults
    BY <1>0 DEF RealmFails
<1>3. CASE LoadsRepresentation \/ UNCHANGED keycloakVars
    BY <1>3 DEF LoadsRepresentation, keycloakVars, KeycloakRest, Creating
<1>4. ASSUME NEW s \in Sessions, NEW r \in Realms, NEW c \in {Defaults, Scoped, Imported}, CreatesRealm(s, r, c)
      PROVE  KeycloakRest'
    <2>1. PICK q : q = [NoOp EXCEPT !.phase = IF r = Master THEN "commit" ELSE "validate",
                                    !.name = r, !.content = c, !.rep = factoryRep, !.of = born[r]]
        OBVIOUS
    <2>2. q.name = r /\ q.phase # "idle"
        BY <2>1 DEF NoOp
    <2>3. /\ op' = [op EXCEPT ![s] = q] /\ transactions' = transactions + 1 /\ transactions < MaxTransactions
          /\ UNCHANGED <<born, realmFaults>>
        BY <1>4, <2>1 DEF CreatesRealm, BeginsTransaction
    <2>4. op \in [Sessions -> Operation]
        BY <1>0 DEF KeycloakTyped
    <2>5. op'[s] = q /\ \A t \in Sessions \ {s} : op'[t] = op[t]
        BY <2>3, <2>4
    <2>6. \A x \in Realms : born[x] < transactions + 1
        BY <1>0 DEF KeycloakRest
    <2>7. ASSUME NEW t \in Sessions
          PROVE  (op'[t].phase = "idle" => op'[t].event = 0) /\ op'[t].name \in Realms
        <3>1. CASE t = s
            BY <2>2, <2>5, <3>1
        <3>2. CASE t # s
            BY <2>4, <2>5, <3>2 DEF KeycloakRest, Operation
        <3> QED
            BY <3>1, <3>2
    <2>8. transactions' \in 0..MaxTransactions /\ \A x \in Realms : born'[x] <= transactions'
        BY <1>0, <2>3, <2>6
    <2>9. \A t \in Sessions : born'[op'[t].name] < transactions'
        BY <2>3, <2>6, <2>7
    <2> QED
        BY <1>0, <2>3, <2>7, <2>8, <2>9 DEF KeycloakRest
<1>5. ASSUME NEW s \in Sessions, NEW r \in Realms, RemovesRealm(s, r)
      PROVE  KeycloakRest'
    <2>1. PICK q : q = [NoOp EXCEPT !.phase = "publish", !.kind = "remove", !.name = r, !.of = born[r]]
        OBVIOUS
    <2>2. q.kind = "remove" /\ q.phase # "idle"
        BY <2>1 DEF NoOp
    <2>3. /\ op' = [op EXCEPT ![s] = q] /\ transactions' = transactions + 1 /\ transactions < MaxTransactions
          /\ UNCHANGED <<born, realmFaults>>
        BY <1>5, <2>1 DEF RemovesRealm, BeginsTransaction
    <2>4. op \in [Sessions -> Operation]
        BY <1>0 DEF KeycloakTyped
    <2>5. op'[s] = q /\ \A t \in Sessions \ {s} : op'[t] = op[t]
        BY <2>3, <2>4
    <2>6. \A x \in Realms : born[x] <= transactions /\ born[x] \in Nat
        BY <1>0 DEF KeycloakRest
    <2>7. transactions' \in 0..MaxTransactions /\ \A x \in Realms : born'[x] <= transactions'
        BY <1>0, <2>3, <2>6
    <2>8. ASSUME NEW t \in Sessions
          PROVE  /\ op'[t].phase = "idle" => op'[t].event = 0
                 /\ op'[t].phase # "idle" /\ op'[t].kind = "create" => born'[op'[t].name] < transactions'
        <3>1. CASE t = s
            BY <2>2, <2>5, <3>1
        <3>2. CASE t # s
            <4>1. op'[t] = op[t] /\ op[t].name \in Realms
                BY <2>4, <2>5, <3>2 DEF Operation
            <4>2. op[t].phase = "idle" => op[t].event = 0
                BY DEF KeycloakRest
            <4>3. op[t].phase # "idle" /\ op[t].kind = "create" => born[op[t].name] < transactions
                BY DEF KeycloakRest, Creating
            <4>4. born[op[t].name] < transactions => born[op[t].name] < transactions + 1
                BY <1>0, <2>6, <4>1
            <4> QED
                BY <2>3, <4>1, <4>2, <4>3, <4>4
        <3> QED
            BY <3>1, <3>2
    <2> QED
        BY <1>0, <2>3, <2>7, <2>8 DEF KeycloakRest, Creating
<1>6. ASSUME NEW s \in Sessions, op' = [op EXCEPT ![s] = NoOp], UNCHANGED <<born, transactions>>,
             realmFaults' \in 0..MaxRealmFaults
      PROVE  KeycloakRest'
    <2>1. ~Creating(idle)
        BY <1>1 DEF Creating
    <2> QED
        BY <1>1, <1>6, <2>1, NoneIsBorn
<1>7. ASSUME NEW s \in Sessions, NEW q \in Operation, op' = [op EXCEPT ![s] = q], op[s].phase # "idle",
             q.phase # "idle", q.kind = op[s].kind, q.name = op[s].name, UNCHANGED <<born, transactions, realmFaults>>
      PROVE  KeycloakRest'
    <2>1. Creating(q) => Creating(op[s])
        BY <1>7 DEF Creating
    <2> QED
        BY <1>0, <1>7, <2>1, NoneIsBorn
<1>8. ASSUME NEW s \in Sessions, ValidatesRealm(s)
      PROVE  KeycloakRest'
    <2>1. CASE op' = [op EXCEPT ![s] = NoOp]
        BY <1>0, <1>6, <1>8, <2>1 DEF ValidatesRealm, ListenerThrows
    <2>2. CASE op' = [op EXCEPT ![s].phase = "customize"]
        <3>1. op[s] \in Operation
            BY <1>0 DEF KeycloakTyped
        <3>2. PICK q : q = [op[s] EXCEPT !.phase = "customize"]
            OBVIOUS
        <3>3. q \in Operation /\ q.phase = "customize" /\ q.kind = op[s].kind /\ q.name = op[s].name
            BY <3>1, <3>2 DEF Operation
        <3>4. op' = [op EXCEPT ![s] = q]
            BY <1>0, <2>2, <3>2 DEF KeycloakTyped
        <3> QED
            BY <1>7, <1>8, <3>3, <3>4 DEF ValidatesRealm, ListenerThrows
    <2> QED
        BY <1>8, <2>1, <2>2 DEF ValidatesRealm, ListenerThrows
<1>9. ASSUME NEW s \in Sessions, CustomizesRealm(s)
      PROVE  KeycloakRest'
    <2>1. op[s] \in Operation /\ op[s].phase = "customize" /\ Plain(op[s].content) /\ Loaded(op[s].rep)
        BY <1>0, <1>9 DEF CustomizesRealm, KeycloakTyped, KeycloakInv, Listening
    <2>2. PICK p : p = Prepared(op[s].rep, op[s].content)
        OBVIOUS
    <2>3. PICK d \in Contents : d = DoImport(p, op[s].content) /\ p \in Contents
        BY <1>9, <2>1, <2>2, CustomizationIsWhole DEF CustomizesRealm
    <2>4. PICK q : q = [op[s] EXCEPT !.phase = "publish", !.rep = p, !.content = d]
        OBVIOUS
    <2>5. q \in Operation /\ q.phase = "publish" /\ q.name = op[s].name /\ q.kind = op[s].kind
        BY <2>1, <2>3, <2>4 DEF Operation
    <2>6. op' = [op EXCEPT ![s] = q]
        BY <1>0, <1>9, <2>2, <2>3, <2>4 DEF CustomizesRealm, KeycloakTyped
    <2> QED
        BY <1>7, <1>9, <2>1, <2>5, <2>6 DEF CustomizesRealm
<1>10. ASSUME NEW s \in Sessions, CustomizationFails(s)
       PROVE  KeycloakRest'
    BY <1>0, <1>2, <1>6, <1>10 DEF CustomizationFails, ListenerThrows
<1>11. ASSUME NEW s \in Sessions, Publishes(s)
       PROVE  KeycloakRest'
    <2>1. op[s] \in Operation /\ Len(tenantTopic) \in Nat
        BY <1>0 DEF KeycloakTyped
    <2>2. PICK n \in Nat : n = Len(tenantTopic) + 1
        BY <2>1
    <2>3. PICK q : q = [op[s] EXCEPT !.phase = "commit", !.event = n]
        OBVIOUS
    <2>4. q \in Operation /\ q.phase = "commit" /\ q.name = op[s].name /\ q.kind = op[s].kind
        BY <2>1, <2>3 DEF Operation
    <2>5. op' = [op EXCEPT ![s] = q]
        BY <1>0, <1>11, <2>2, <2>3 DEF Publishes, KeycloakTyped
    <2> QED
        BY <1>7, <1>11, <2>4, <2>5 DEF Publishes
<1>12. ASSUME NEW s \in Sessions, PublishFails(s)
       PROVE  KeycloakRest'
    BY <1>2, <1>6, <1>12 DEF PublishFails
<1>13. ASSUME NEW s \in Sessions, CommitFails(s)
       PROVE  KeycloakRest'
    <2>1. realmFaults' \in 0..MaxRealmFaults
        BY <1>0, <1>2, <1>13 DEF CommitFails
    <2> QED
        BY <1>6, <1>13, <2>1 DEF CommitFails
<1>14. ASSUME NEW s \in Sessions, CommitsRealm(s)
       PROVE  KeycloakRest'
    <2>0. op' = [op EXCEPT ![s] = NoOp] /\ UNCHANGED <<transactions, realmFaults>> /\ op[s].phase = "commit"
        BY <1>14 DEF CommitsRealm
    <2>1. CASE op[s].kind # "create"
        <3>1. UNCHANGED born
            BY <1>14, <2>1 DEF CommitsRealm
        <3> QED
            BY <1>0, <1>6, <2>0, <3>1
    <2>2. CASE op[s].kind = "create"
        <3>1. op \in [Sessions -> Operation] /\ op[s].name \in Realms
            BY <1>0 DEF KeycloakTyped, Operation
        <3>2. PICK r \in Realms : r = op[s].name
            BY <3>1
        <3>3. born' = [born EXCEPT ![r] = born[r] + 1]
            BY <1>14, <2>2, <3>2 DEF CommitsRealm
        <3>4. born[r] < transactions
            BY <2>0, <2>2, <3>2 DEF KeycloakRest, Creating
        <3>5. born'[r] = born[r] + 1 /\ \A x \in Realms \ {r} : born'[x] = born[x]
            BY <1>0, <3>3
        <3>6. \A x \in Realms : born'[x] <= transactions
            <4>1. \A x \in Realms : born[x] <= transactions /\ born[x] \in Nat
                BY <1>0 DEF KeycloakRest
            <4> QED
                BY <1>0, <3>4, <3>5, <4>1
        <3>7. op'[s] = idle /\ \A t \in Sessions \ {s} : op'[t] = op[t]
            BY <1>1, <2>0, <3>1
        <3>8. ASSUME NEW t \in Sessions
              PROVE  /\ op'[t].phase = "idle" => op'[t].event = 0
                     /\ op'[t].phase # "idle" /\ op'[t].kind = "create" => born'[op'[t].name] < transactions
            <4>1. CASE t = s
                BY <1>1, <3>7, <4>1
            <4>2. CASE t # s
                <5>1. op'[t] = op[t] /\ op[t].name \in Realms
                    BY <3>1, <3>7, <4>2 DEF Operation
                <5>2. op[t].phase # "idle" /\ op[t].kind = "create" => op[t].name # r
                    BY <2>0, <2>2, <3>2, <4>2 DEF KeycloakInv, Exclusive, Creating
                <5>3. op[t].phase # "idle" /\ op[t].kind = "create" => born[op[t].name] < transactions
                    BY DEF KeycloakRest, Creating
                <5>4. op[t].phase = "idle" => op[t].event = 0
                    BY DEF KeycloakRest
                <5> QED
                    BY <3>5, <5>1, <5>2, <5>3, <5>4
            <4> QED
                BY <4>1, <4>2
        <3> QED
            BY <1>0, <2>0, <3>6, <3>8 DEF KeycloakRest, Creating
    <2> QED
        BY <2>1, <2>2
<1> QED
    BY <1>3, <1>4, <1>5, <1>8, <1>9, <1>10, <1>11, <1>12, <1>13, <1>14 DEF KeycloakNext

LEMMA KeycloakTypeFromInv == KeycloakInv /\ KeycloakRest => KeycloakTypeOK
<1> SUFFICES ASSUME KeycloakInv, KeycloakRest
             PROVE  KeycloakTypeOK
    OBVIOUS
<1>0. KeycloakTyped /\ MaxTransactions \in Nat /\ transactions \in 0..MaxTransactions
    BY KeycloakAssumption DEF KeycloakInv, KeycloakRest
<1>1. factoryRep \in {NoRep} \cup Contents
    BY <1>0, RepresentationsLoaded DEF KeycloakTyped, Loaded
<1>2. born \in [Realms -> 0..MaxTransactions]
    <2>1. \A r \in Realms : born[r] \in 0..MaxTransactions
        BY <1>0 DEF KeycloakRest, KeycloakTyped
    <2> QED
        BY <1>0, <2>1 DEF KeycloakTyped
<1>3. Len(tenantTopic) \in Nat
    BY <1>0 DEF KeycloakTyped
<1>4. ASSUME NEW s \in Sessions
      PROVE  /\ op[s].phase \in {"idle", "validate", "customize", "publish", "commit"}
             /\ op[s].kind \in {"create", "remove"} /\ op[s].name \in Realms /\ op[s].content \in Contents
             /\ op[s].rep \in {NoRep} \cup Contents /\ op[s].event \in 0..Len(tenantTopic)
    <2>1. op[s] \in Operation
        BY <1>0 DEF KeycloakTyped
    <2>2. CASE op[s].phase = "commit"
        <3>1. op[s].event = 0 \/ op[s].event \in 1..Len(tenantTopic)
            BY <2>2 DEF KeycloakInv, EventAnnounced
        <3> QED
            BY <1>3, <2>1, <3>1 DEF Operation, OperationKinds
    <2>3. CASE op[s].phase # "commit"
        <3>1. op[s].event = 0
            BY <2>1, <2>3 DEF KeycloakInv, KeycloakRest, Listening, Operation
        <3> QED
            BY <1>3, <2>1, <3>1 DEF Operation, OperationKinds
    <2> QED
        BY <2>2, <2>3
<1> QED
    BY <1>0, <1>1, <1>2, <1>4 DEF KeycloakTypeOK, KeycloakTyped, KeycloakRest

\* What the provider's sessions, the realms and the topic may hold: a session names only an event that is on
\* the topic, and no name is born more often than there were transactions (RealmEventListener,
\* DojotProviderImpl).
THEOREM KeycloakTypeCorrect == KeycloakSpec => []KeycloakTypeOK
BY KeycloakInvInit, KeycloakInvNext, KeycloakRestInit, KeycloakRestStep, KeycloakTypeFromInv, PTL DEF KeycloakSpec

-----------------------------------------------------------------------------
(* cert-sidecar: what the files say while jobs renew them *)

\* The operations.
KeyOps == {"key", "write key"}
CertOps == {"csr", "sign", "write cert"}
CaOps == {"ca", "write ca"}
BundleOps == {"bundle", "write bundle"}
CrlOps == {"crl", "write crl"}
UnlinkOps == {"unlink key", "unlink cert", "unlink ca", "unlink bundle", "unlink crl"}
CheckOps == {"checkCa", "checkCert", "checkRevoked", "drop ca", "drop cert"}
Operations == KeyOps \cup CertOps \cup CaOps \cup BundleOps \cup CrlOps \cup UnlinkOps \cup CheckOps \cup {"exit", "failed"}

CertFiles == {"key", "cert", "ca", "bundle", "crl"}
CertShape ==
    /\ deletes \in BOOLEAN /\ running \in BOOLEAN /\ expired \in BOOLEAN /\ ragged \in BOOLEAN
    /\ memory \in [key : Nat, cert : Nat, ca : Nat, crl : Nat]
    /\ disk \in [key : Nat, cert : Nat, ca : Nat, bundle : Nat, crl : Nat]
    /\ authority \in [ca : Nat \ {0}, crl : Nat \ {0}]
    /\ keyOf \in Seq(Nat) /\ keys \in Nat
    /\ todo \in [Jobs -> Seq(Operations)] /\ value \in [Jobs -> Nat]
    /\ ticks \in Nat /\ certFaults \in Nat

\* What a job has yet to do.
Has(s, act) == \E i \in DOMAIN s : s[i] = act
Plans(j, act) == Has(todo[j], act)

\* What an operation fetched is used by the next one.
UsesValue == {"sign", "write key", "write cert", "write ca", "write bundle", "write crl"}
\* What is taken away is made again by the same job, and a key gets its certificate.
Later(x, y) ==
    \/ x \in {"unlink ca", "drop ca"} /\ y = "ca"
    \/ x \in {"unlink cert", "drop cert", "key", "write key"} /\ y = "csr"
\* A job renews the certificate, and the key before it, once.
Clash(x, y) ==
    \/ x \in {"csr", "sign", "write cert", "checkCert", "checkRevoked"} /\ y \in {"csr", "key"}
    \/ x \in {"key", "write key"} /\ y = "key"
Rules(s) ==
    /\ \A i \in DOMAIN s : s[i] \in UsesValue => i = 1
    /\ \A i \in DOMAIN s : \A y : Later(s[i], y) => \E k \in DOMAIN s : i < k /\ s[k] = y
    /\ \A i, k \in DOMAIN s : i < k => ~Clash(s[i], s[k])

\* Who does what.  A renewal that expiry begins is noted.
OpsOf(j) ==
    CASE j = "init" -> KeyOps \cup CertOps \cup CaOps \cup BundleOps \cup CrlOps \cup {"failed"}
      [] j = "crl" -> CrlOps
      [] j = "bundle" -> BundleOps
      [] j = "revocation" -> {"checkRevoked"} \cup KeyOps \cup CertOps \cup CaOps
      [] j = "expiry" -> {"checkCa", "checkCert", "unlink ca", "drop ca"} \cup CaOps
                         \cup (IF expired THEN {"unlink key", "unlink cert", "drop cert"} \cup CertOps ELSE {})
      [] j = "shutdown" -> UnlinkOps \cup {"exit"}
JobsInv ==
    /\ \A j \in Jobs : j # "shutdown" => Rules(todo[j])
    /\ \A j \in Jobs : \A act : Plans(j, act) => act \in OpsOf(j)
\* The start, also one that failed, is without cron jobs.
InitAlone == todo["init"] # <<>> => \A j \in Crons : todo[j] = <<>>

ValuesInv ==
    /\ memory.key <= keys /\ memory.cert <= Len(keyOf) /\ \A c \in DOMAIN keyOf : keyOf[c] \in 1..keys
    /\ \A j \in Jobs :
        /\ Plans(j, "sign") => value[j] \in 1..keys
        /\ Plans(j, "write cert") => value[j] \in 1..Len(keyOf)
        /\ Plans(j, "write ca") \/ Plans(j, "write bundle") \/ Plans(j, "write crl") => value[j] # 0

\* No step failed, no two jobs met, and the end has not begun.
Calm == ~ragged /\ todo["shutdown"] = <<>>

\* The CA's file is what is in memory or is being made so, by a job that writes what it has fetched
\* or by one that will fetch it.
WillFetchCa == \E k \in Jobs : Plans(k, "ca")
CaSettled ==
    /\ \A j, k \in Jobs : Plans(j, "write ca") /\ Plans(k, "write ca") => j = k
    /\ \/ WillFetchCa
       \/ /\ memory.ca # 0
          /\ \A j \in Jobs : Plans(j, "write ca") => value[j] = memory.ca
          /\ disk.ca = memory.ca \/ \E k \in Jobs : Plans(k, "write ca")

\* The same of the CRL, which a job writes only when it is new.
CrlSettled ==
    /\ memory.crl # 0 \/ Plans("init", "crl")
    /\ \A j \in Jobs : Plans(j, "write crl") => value[j] = memory.crl
    /\ disk.crl = memory.crl \/ \E k \in Jobs : Plans(k, "write crl")

\* The bundle and the certificate have a file, or will have.
BundleSettled == disk.bundle # 0 \/ Plans("init", "bundle") \/ Plans("init", "write bundle")
CertSettled == disk.cert # 0 \/ \E k \in Jobs, act \in CertOps : Plans(k, act)

\* Until a certificate expired, the start or the check of revocation makes the pair, the other being
\* at rest or about something else.
Matches(c) == c \in DOMAIN keyOf /\ keyOf[c] = disk.key
Makers == {"init", "revocation"}
PairSettled ==
    /\ \A j \in Makers :
        /\ Plans(j, "write key") => value[j] = memory.key /\ memory.key # 0
        /\ Plans(j, "csr") /\ ~Plans(j, "key") /\ ~Plans(j, "write key") => disk.key = memory.key /\ memory.key # 0
        /\ Plans(j, "sign") => value[j] = disk.key /\ disk.key = memory.key
        /\ Plans(j, "write cert") => Matches(value[j]) /\ disk.key = memory.key
    /\ (\A j \in Makers, act \in KeyOps \cup CertOps : ~Plans(j, act)) => Matches(disk.cert) /\ disk.key = memory.key

CalmInv == Calm => CaSettled /\ CrlSettled /\ BundleSettled /\ CertSettled /\ (~expired => PairSettled)

\* The end of a process that was at rest unlinks every file, the key last.
EndRules(s) ==
    \A i, k \in DOMAIN s : i < k => s[i] # s[k] /\ s[i] # "exit" /\ (s[i] = "unlink key" => s[k] = "exit")
EndInv ==
    /\ ~running /\ ~ragged => todo["shutdown"] # <<>>
    /\ EndRules(todo["shutdown"])
    /\ todo["shutdown"] # <<>> => Plans("shutdown", "exit")
    /\ ~ragged /\ todo["shutdown"] # <<>> =>
        /\ \A j \in Jobs : j # "shutdown" => todo[j] = <<>>
        /\ deletes => \A f \in CertFiles : disk[f] = 0 \/ (running /\ Plans("shutdown", Unlinked[f]))
        /\ running => \A f \in CertFiles \ {"key"} : Plans("shutdown", Unlinked[f]) => disk[f] # 0

CertInv == CertShape /\ JobsInv /\ InitAlone /\ ValuesInv /\ CalmInv /\ EndInv

\* The sequence that a job goes on with: operations, and what was left of its program.
LEMMA HasParts ==
    ASSUME NEW s \in Seq(Operations), s # <<>>, NEW a \in Seq(Operations)
    PROVE  /\ a \o Tail(s) \in Seq(Operations)
           /\ \A act : Has(s, act) <=> act = Head(s) \/ Has(Tail(s), act)
           /\ \A act : Has(a \o Tail(s), act) <=> Has(a, act) \/ Has(Tail(s), act)
<1> DEFINE t == Tail(s)
<1>1. /\ t \in Seq(Operations) /\ Len(s) \in Nat \ {0} /\ Len(t) = Len(s) - 1 /\ Head(s) = s[1]
      /\ \A i \in 1..Len(t) : t[i] = s[i + 1]
    OBVIOUS
<1>2. DOMAIN s = 1..Len(s) /\ DOMAIN t = 1..Len(t) /\ DOMAIN a = 1..Len(a) /\ Len(a) \in Nat
    BY <1>1
<1> HIDE DEF t
<1>3. ASSUME NEW act
      PROVE  Has(s, act) <=> act = Head(s) \/ Has(t, act)
    <2>1. ASSUME NEW i \in DOMAIN s, s[i] = act
          PROVE  act = Head(s) \/ Has(t, act)
        <3>1. CASE i = 1
            BY <1>1, <2>1, <3>1
        <3>2. CASE i # 1
            <4>1. i - 1 \in DOMAIN t /\ t[i - 1] = act
                BY <1>1, <1>2, <2>1, <3>2
            <4> QED
                BY <4>1 DEF Has
        <3> QED
            BY <3>1, <3>2
    <2>2. ASSUME act = Head(s)
          PROVE  Has(s, act)
        BY <1>1, <1>2, <2>2 DEF Has
    <2>3. ASSUME NEW i \in DOMAIN t, t[i] = act
          PROVE  Has(s, act)
        <3>1. i + 1 \in DOMAIN s /\ s[i + 1] = act
            BY <1>1, <1>2, <2>3
        <3> QED
            BY <3>1 DEF Has
    <2> QED
        BY <2>1, <2>2, <2>3 DEF Has
<1>4. /\ a \o t \in Seq(Operations) /\ Len(a \o t) = Len(a) + Len(t) /\ DOMAIN (a \o t) = 1..(Len(a) + Len(t))
      /\ \A i \in 1..Len(a) : (a \o t)[i] = a[i]
      /\ \A i \in 1..Len(t) : (a \o t)[Len(a) + i] = t[i]
    <2>1. a \o t \in Seq(Operations) /\ Len(a \o t) = Len(a) + Len(t)
        BY <1>1, ConcatProperties
    <2>2. DOMAIN (a \o t) = 1..(Len(a) + Len(t))
        BY <2>1
    <2>3. \A i \in 1..Len(a) : (a \o t)[i] = a[i]
        BY <1>1
    <2>4. \A i \in 1..Len(t) : (a \o t)[Len(a) + i] = t[i]
        BY <1>1
    <2> QED
        BY <2>1, <2>2, <2>3, <2>4
<1>5. ASSUME NEW act
      PROVE  Has(a \o t, act) <=> Has(a, act) \/ Has(t, act)
    <2>1. ASSUME NEW i \in DOMAIN (a \o t), (a \o t)[i] = act
          PROVE  Has(a, act) \/ Has(t, act)
        <3>1. CASE i <= Len(a)
            BY <1>2, <1>4, <2>1, <3>1 DEF Has
        <3>2. CASE i > Len(a)
            <4>1. i - Len(a) \in DOMAIN t /\ t[i - Len(a)] = act
                <5>1. i - Len(a) \in 1..Len(t) /\ Len(a) + (i - Len(a)) = i
                    BY <1>1, <1>2, <1>4, <2>1, <3>2
                <5> QED
                    BY <1>2, <1>4, <2>1, <5>1
            <4> QED
                BY <4>1 DEF Has
        <3> QED
            BY <1>2, <1>4, <2>1, <3>1, <3>2
    <2>2. ASSUME NEW i \in DOMAIN a, a[i] = act
          PROVE  Has(a \o t, act)
        <3>1. i \in DOMAIN (a \o t) /\ (a \o t)[i] = act
            BY <1>1, <1>2, <1>4, <2>2
        <3> QED
            BY <3>1 DEF Has
    <2>3. ASSUME NEW i \in DOMAIN t, t[i] = act
          PROVE  Has(a \o t, act)
        <3>1. Len(a) + i \in DOMAIN (a \o t) /\ (a \o t)[Len(a) + i] = act
            BY <1>1, <1>2, <1>4, <2>3
        <3> QED
            BY <3>1 DEF Has
    <2> QED
        BY <2>1, <2>2, <2>3 DEF Has
<1> QED
    BY <1>3, <1>4, <1>5 DEF t

\* Operations that may come before the rest t of a program.
Fits(a, t) ==
    /\ \A i \in DOMAIN a : a[i] \in UsesValue => i = 1
    /\ \A i \in DOMAIN a : \A y : Later(a[i], y) => (\E k \in DOMAIN a : i < k /\ a[k] = y) \/ Has(t, y)
    /\ \A i, k \in DOMAIN a : i < k => ~Clash(a[i], a[k])
    /\ \A i \in DOMAIN a : \A y : Has(t, y) => ~Clash(a[i], y)

\* Nothing after the first operation uses what was fetched.
LEMMA RestOfRules ==
    ASSUME NEW s \in Seq(Operations), s # <<>>, Rules(s)
    PROVE  /\ \A act : act \in UsesValue => ~Has(Tail(s), act)
           /\ \A y : Later(Head(s), y) => Has(Tail(s), y)
           /\ \A y : Has(Tail(s), y) => ~Clash(Head(s), y)
<1>1. /\ Tail(s) \in Seq(Operations) /\ Len(Tail(s)) \in Nat /\ Len(s) = Len(Tail(s)) + 1 /\ Head(s) = s[1]
      /\ \A i \in 1..Len(Tail(s)) : Tail(s)[i] = s[i + 1]
      /\ DOMAIN s = 1..Len(s) /\ DOMAIN Tail(s) = 1..Len(Tail(s))
    OBVIOUS
<1>2. \A i \in DOMAIN Tail(s) : i + 1 \in DOMAIN s /\ i + 1 # 1 /\ 1 < i + 1 /\ 1 \in DOMAIN s /\ Tail(s)[i] = s[i + 1]
    BY <1>1
<1>3. \A k \in DOMAIN s : 1 < k => k - 1 \in DOMAIN Tail(s) /\ Tail(s)[k - 1] = s[k]
    BY <1>1
<1>4. ASSUME NEW y, Later(Head(s), y)
      PROVE  Has(Tail(s), y)
    <2>1. 1 \in DOMAIN s
        BY <1>1
    <2>2. PICK k \in DOMAIN s : 1 < k /\ s[k] = y
        BY <1>1, <1>4, <2>1 DEF Rules
    <2> QED
        BY <1>3, <2>2 DEF Has
<1>5. \A act : act \in UsesValue => ~Has(Tail(s), act)
    BY <1>2 DEF Rules, Has
<1>6. \A y : Has(Tail(s), y) => ~Clash(Head(s), y)
    BY <1>1, <1>2 DEF Rules, Has
<1> QED
    BY <1>4, <1>5, <1>6

\* The rules hold of what a job goes on with.
LEMMA RulesJoin ==
    ASSUME NEW s \in Seq(Operations), s # <<>>, Rules(s), NEW a \in Seq(Operations), Fits(a, Tail(s))
    PROVE  Rules(a \o Tail(s))
<1> DEFINE t == Tail(s)
           z == a \o t
<1>1. /\ t \in Seq(Operations) /\ Len(t) \in Nat /\ Len(s) = Len(t) + 1 /\ Len(a) \in Nat
      /\ \A i \in 1..Len(t) : t[i] = s[i + 1]
      /\ DOMAIN s = 1..Len(s) /\ DOMAIN t = 1..Len(t) /\ DOMAIN a = 1..Len(a)
    OBVIOUS
<1>2. /\ DOMAIN z = 1..(Len(a) + Len(t))
      /\ \A i \in 1..Len(a) : z[i] = a[i]
      /\ \A i \in 1..Len(t) : z[Len(a) + i] = t[i]
    BY <1>1
<1> HIDE DEF t, z
<1>3. \A i \in DOMAIN z : \/ i \in DOMAIN a /\ z[i] = a[i]
                          \/ i - Len(a) \in DOMAIN t /\ z[i] = t[i - Len(a)]
    <2> SUFFICES ASSUME NEW i \in DOMAIN z, i \notin DOMAIN a
                 PROVE  i - Len(a) \in DOMAIN t /\ z[i] = t[i - Len(a)]
        BY <1>1, <1>2
    <2>1. i - Len(a) \in 1..Len(t) /\ Len(a) + (i - Len(a)) = i
        BY <1>1, <1>2
    <2> QED
        BY <1>1, <1>2, <2>1
<1>4. ASSUME NEW i \in DOMAIN t
      PROVE  /\ i \in Nat /\ i + 1 \in DOMAIN s /\ s[i + 1] = t[i]
             /\ Len(a) + i \in DOMAIN z /\ z[Len(a) + i] = t[i]
    BY <1>1, <1>2
<1>5. ASSUME NEW i \in DOMAIN z, z[i] \in UsesValue
      PROVE  i = 1
    <2>1. ASSUME i - Len(a) \in DOMAIN t, z[i] = t[i - Len(a)]
          PROVE  FALSE
        BY <1>5, <2>1, RestOfRules DEF t, Has
    <2> QED
        BY <1>3, <1>5, <2>1 DEF Fits, t
<1>6. ASSUME NEW i \in DOMAIN z, NEW y, Later(z[i], y)
      PROVE  \E k \in DOMAIN z : i < k /\ z[k] = y
    <2>1. CASE i \in DOMAIN a /\ z[i] = a[i]
        <3>1. CASE \E k \in DOMAIN a : i < k /\ a[k] = y
            BY <1>1, <1>2, <3>1
        <3>2. CASE Has(t, y)
            <4>1. PICK k \in DOMAIN t : t[k] = y
                BY <3>2 DEF Has
            <4>2. i < Len(a) + k /\ Len(a) + k \in DOMAIN z /\ z[Len(a) + k] = y
                BY <1>1, <1>4, <2>1, <4>1
            <4> QED
                BY <4>2
        <3> QED
            BY <1>6, <2>1, <3>1, <3>2 DEF Fits, t
    <2>2. CASE i - Len(a) \in DOMAIN t /\ z[i] = t[i - Len(a)]
        <3> DEFINE n == i - Len(a)
        <3>1. n \in DOMAIN t /\ n + 1 \in DOMAIN s /\ s[n + 1] = z[i] /\ n \in Nat
            BY <1>4, <2>2
        <3>2. PICK k \in DOMAIN s : n + 1 < k /\ s[k] = y
            BY <1>6, <3>1 DEF Rules
        <3>3. k - 1 \in DOMAIN t /\ t[k - 1] = y
            BY <1>1, <3>1, <3>2
        <3>4. Len(a) + (k - 1) \in DOMAIN z /\ z[Len(a) + (k - 1)] = y
            BY <1>4, <3>3
        <3>5. i < Len(a) + (k - 1)
            BY <1>1, <1>2, <3>1, <3>2
        <3> QED
            BY <3>4, <3>5
    <2> QED
        BY <1>3, <2>1, <2>2
<1>7. ASSUME NEW i \in DOMAIN z, NEW k \in DOMAIN z, i < k
      PROVE  ~Clash(z[i], z[k])
    <2>1. CASE i \in DOMAIN a /\ z[i] = a[i] /\ k \in DOMAIN a /\ z[k] = a[k]
        BY <1>7, <2>1 DEF Fits
    <2>2. CASE i \in DOMAIN a /\ z[i] = a[i] /\ k - Len(a) \in DOMAIN t /\ z[k] = t[k - Len(a)]
        BY <2>2 DEF Fits, Has, t
    <2>3. CASE i - Len(a) \in DOMAIN t /\ z[i] = t[i - Len(a)] /\ k - Len(a) \in DOMAIN t /\ z[k] = t[k - Len(a)]
        <3>1. (i - Len(a)) + 1 \in DOMAIN s /\ s[(i - Len(a)) + 1] = z[i]
            BY <1>4, <2>3
        <3>2. (k - Len(a)) + 1 \in DOMAIN s /\ s[(k - Len(a)) + 1] = z[k]
            BY <1>4, <2>3
        <3>3. (i - Len(a)) + 1 < (k - Len(a)) + 1
            BY <1>1, <1>2, <1>7
        <3> QED
            BY <3>1, <3>2, <3>3 DEF Rules
    <2>4. ~(i - Len(a) \in DOMAIN t /\ k \in DOMAIN a)
        BY <1>1, <1>2, <1>7
    <2> QED
        BY <1>3, <2>1, <2>2, <2>3, <2>4
<1> QED
    BY <1>5, <1>6, <1>7 DEF Rules, t, z

\* A job is told by what it plans.
LEMMA PlansNext ==
    ASSUME CertShape, JobsInv, NEW j \in Jobs, NEW h, Doing(j, h)
    PROVE  /\ running /\ todo[j] \in Seq(Operations) /\ todo[j] # <<>> /\ Head(todo[j]) = h
           /\ Plans(j, h) /\ h \in OpsOf(j)
<1>1. todo[j] \in Seq(Operations) /\ todo[j] # <<>> /\ Head(todo[j]) = h /\ running
    BY DEF Doing, CertShape
<1>2. << >> \in Seq(Operations)
    OBVIOUS
<1>3. Plans(j, h)
    BY <1>1, <1>2, HasParts DEF Plans
<1> QED
    BY <1>1, <1>3 DEF JobsInv

\* A job other than the end goes on.
LEMMA JobGoes ==
    ASSUME CertShape, JobsInv, InitAlone, EndInv, NEW j \in Jobs, j # "shutdown", NEW h, Doing(j, h),
           NEW a \in Seq(Operations), Continues(j, a), Fits(a, Tail(todo[j])),
           \A act : Has(a, act) => act \in OpsOf(j)',
           expired => expired', ragged => ragged', running' = running
    PROVE  /\ todo' \in [Jobs -> Seq(Operations)] /\ JobsInv' /\ InitAlone' /\ EndInv'
           /\ \A k \in Jobs : k # j => todo'[k] = todo[k]
           /\ \A act : Plans(j, act) <=> act = h \/ Has(Tail(todo[j]), act)
           /\ \A act : Plans(j, act)' <=> Has(a, act) \/ Has(Tail(todo[j]), act)
           /\ \A act : act \in UsesValue => ~Has(Tail(todo[j]), act)
           /\ \A k \in Jobs : k # j => \A act : Plans(k, act)' <=> Plans(k, act)
           /\ Calm' => Calm
<1>1. running /\ todo[j] \in Seq(Operations) /\ todo[j] # <<>> /\ Head(todo[j]) = h /\ h \in OpsOf(j)
    BY PlansNext
<1>2. /\ todo \in [Jobs -> Seq(Operations)] /\ todo' = [todo EXCEPT ![j] = a \o Tail(todo[j])]
      /\ a \o Tail(todo[j]) \in Seq(Operations)
    BY <1>1, HasParts DEF CertShape, Continues
<1>3. /\ todo' \in [Jobs -> Seq(Operations)] /\ todo'[j] = a \o Tail(todo[j])
      /\ \A k \in Jobs : k # j => todo'[k] = todo[k]
    BY <1>2
<1>4. /\ \A act : Plans(j, act) <=> act = h \/ Has(Tail(todo[j]), act)
      /\ \A act : Plans(j, act)' <=> Has(a, act) \/ Has(Tail(todo[j]), act)
    BY <1>1, <1>3, HasParts DEF Plans
<1>5. \A k \in Jobs : k # j => \A act : Plans(k, act)' <=> Plans(k, act)
    BY <1>3 DEF Plans
<1>6. Rules(todo[j])
    BY DEF JobsInv
<1>7. \A act : act \in UsesValue => ~Has(Tail(todo[j]), act)
    BY <1>1, <1>6, RestOfRules
<1>8. \A k \in Jobs : OpsOf(k) \subseteq OpsOf(k)'
    BY DEF OpsOf, Jobs, Crons
<1>9. JobsInv'
    <2>1. Rules(todo'[j])
        BY <1>1, <1>3, <1>6, RulesJoin
    <2>2. \A k \in Jobs : k # "shutdown" => Rules(todo'[k])
        BY <1>3, <2>1 DEF JobsInv
    <2>3. \A k \in Jobs : \A act : Plans(k, act)' => act \in OpsOf(k)'
        BY <1>4, <1>5, <1>8 DEF JobsInv
    <2> QED
        BY <2>2, <2>3 DEF JobsInv
<1>10. InitAlone'
    BY <1>1, <1>3 DEF InitAlone, Jobs
<1>11. "shutdown" \in Jobs /\ todo'["shutdown"] = todo["shutdown"]
    BY <1>3 DEF Jobs
<1>12. ~ragged => todo["shutdown"] = <<>>
    BY <1>1 DEF EndInv
<1>13. EndInv'
    BY <1>5, <1>11, <1>12 DEF EndInv
<1> QED
    BY <1>3, <1>4, <1>5, <1>7, <1>9, <1>10, <1>11, <1>13 DEF Calm

\* The programs that operations are put in front of.
LEMMA Singles ==
    ASSUME NEW x \in Operations
    PROVE  /\ <<x>> \in Seq(Operations) /\ << >> \in Seq(Operations)
           /\ \A act : ~Has(<< >>, act) /\ (Has(<<x>>, act) <=> act = x)
           /\ \A t : Fits(<< >>, t)
           /\ \A t : (\A y : Later(x, y) => Has(t, y)) /\ (\A y : Has(t, y) => ~Clash(x, y)) => Fits(<<x>>, t)
<1>1. <<x>> \in Seq(Operations) /\ << >> \in Seq(Operations)
    OBVIOUS
<1>2. DOMAIN <<x>> = {1} /\ <<x>>[1] = x /\ DOMAIN << >> = {}
    OBVIOUS
<1> QED
    BY <1>1, <1>2 DEF Has, Fits

\* An operation that needs no other, and one whose result the next one uses.
LEMMA GoesOn ==
    ASSUME CertShape, JobsInv, NEW j \in Jobs, j # "shutdown", NEW h, Doing(j, h), expired => expired',
           NEW a, \/ a = <<>>
                  \/ a = <<"write key">> /\ h = "key"
                  \/ a = <<"sign">> /\ h = "csr"
                  \/ a = <<"write cert">> /\ h = "sign"
                  \/ a = <<"write ca">> /\ h = "ca"
                  \/ a = <<"write bundle">> /\ h = "bundle"
                  \/ a = <<"write crl">> /\ h = "crl"
    PROVE  a \in Seq(Operations) /\ Fits(a, Tail(todo[j])) /\ \A act : Has(a, act) => act \in OpsOf(j)'
<1>1. todo[j] \in Seq(Operations) /\ todo[j] # <<>> /\ Head(todo[j]) = h /\ h \in OpsOf(j) /\ Rules(todo[j])
    BY PlansNext DEF JobsInv
<1>2. /\ \A y : Later(h, y) => Has(Tail(todo[j]), y)
      /\ \A y : Has(Tail(todo[j]), y) => ~Clash(h, y)
    BY <1>1, RestOfRules
<1>3. /\ "write key" \in Operations /\ "sign" \in Operations /\ "write cert" \in Operations
      /\ "write ca" \in Operations /\ "write bundle" \in Operations /\ "write crl" \in Operations
    BY DEF Operations, KeyOps, CertOps, CaOps, BundleOps, CrlOps
<1>4. CASE a = <<>>
    BY <1>3, <1>4, Singles
<1>5. ASSUME NEW x \in Operations, a = <<x>>,
             \/ h = "key" /\ x = "write key"
             \/ h = "csr" /\ x = "sign"
             \/ h = "sign" /\ x = "write cert"
             \/ h = "ca" /\ x = "write ca"
             \/ h = "bundle" /\ x = "write bundle"
             \/ h = "crl" /\ x = "write crl"
      PROVE  /\ a \in Seq(Operations) /\ Fits(a, Tail(todo[j])) /\ \A act : Has(a, act) => act \in OpsOf(j)'
    <2>1. /\ \A y : Later(x, y) => Later(h, y)
          /\ \A y : Clash(x, y) => Clash(h, y)
        BY <1>5 DEF Later, Clash
    <2>2. x \in OpsOf(j)'
        BY <1>1, <1>5 DEF OpsOf, Jobs, Crons, KeyOps, CertOps, CaOps, BundleOps, CrlOps, UnlinkOps
    <2> QED
        BY <1>2, <1>5, <2>1, <2>2, Singles
<1> QED
    BY <1>3, <1>4, <1>5

\* What a step of a job leaves and brings about in the programs, a being what it puts in front.
Went(j, h, a) ==
    /\ running /\ h \in OpsOf(j) /\ Plans(j, h)
    /\ \A act : act # h => (Plans(j, act)' <=> Plans(j, act) \/ Has(a, act))
    /\ \A y : Later(h, y) => Plans(j, y)'
    /\ \A y : Clash(h, y) /\ Plans(j, y)' => Has(a, y)
    /\ \A act \in UsesValue : Plans(j, act)' => Has(a, act)
    /\ \A k \in Jobs : k # j => \A act : Plans(k, act)' <=> Plans(k, act)
    /\ j \in Makers => \A k \in Makers : k # j => \A act : ~Plans(k, act)
    /\ todo' \in [Jobs -> Seq(Operations)]
    /\ Calm' => Calm

\* An idle job plans nothing.
LEMMA IdlePlansNothing ==
    ASSUME NEW k \in Jobs, todo[k] = <<>>
    PROVE  \A act : ~Plans(k, act)
BY DEF Plans, Has

LEMMA JobStepsOn ==
    ASSUME CertInv, NEW j \in Jobs, j # "shutdown", NEW h, Doing(j, h),
           NEW a \in Seq(Operations), Continues(j, a), Fits(a, Tail(todo[j])),
           \A act : Has(a, act) => act \in OpsOf(j)',
           expired => expired', ragged => ragged', running' = running
    PROVE  Went(j, h, a) /\ JobsInv' /\ InitAlone' /\ EndInv'
<1>1. CertShape /\ JobsInv /\ InitAlone /\ EndInv
    BY DEF CertInv
<1>2. running /\ todo[j] \in Seq(Operations) /\ todo[j] # <<>> /\ Head(todo[j]) = h /\ h \in OpsOf(j) /\ Plans(j, h)
    BY <1>1, PlansNext
<1>3. /\ todo' \in [Jobs -> Seq(Operations)] /\ JobsInv' /\ InitAlone' /\ EndInv'
      /\ \A act : Plans(j, act) <=> act = h \/ Has(Tail(todo[j]), act)
      /\ \A act : Plans(j, act)' <=> Has(a, act) \/ Has(Tail(todo[j]), act)
      /\ \A act : act \in UsesValue => ~Has(Tail(todo[j]), act)
      /\ \A k \in Jobs : k # j => \A act : Plans(k, act)' <=> Plans(k, act)
      /\ Calm' => Calm
    BY <1>1, JobGoes
<1>4. /\ \A y : Later(h, y) => Has(Tail(todo[j]), y)
      /\ \A y : Has(Tail(todo[j]), y) => ~Clash(h, y)
    BY <1>1, <1>2, RestOfRules DEF JobsInv
<1>5. ASSUME j \in Makers, NEW k \in Makers, k # j
      PROVE  k \in Jobs /\ todo[k] = <<>>
    BY <1>1, <1>2, <1>5 DEF InitAlone, Makers, Jobs, Crons
<1>6. j \in Makers => \A k \in Makers : k # j => \A act : ~Plans(k, act)
    BY <1>5, IdlePlansNothing
<1> QED
    BY <1>2, <1>3, <1>4, <1>6 DEF Went

LEMMA JobGoesOn ==
    ASSUME CertInv, NEW j \in Jobs, j # "shutdown", NEW h, Doing(j, h), expired => expired',
           NEW a, Continues(j, a), ragged => ragged', running' = running,
           \/ a = <<>>
           \/ a = <<"write key">> /\ h = "key"
           \/ a = <<"sign">> /\ h = "csr"
           \/ a = <<"write cert">> /\ h = "sign"
           \/ a = <<"write ca">> /\ h = "ca"
           \/ a = <<"write bundle">> /\ h = "bundle"
           \/ a = <<"write crl">> /\ h = "crl"
    PROVE  Went(j, h, a) /\ JobsInv' /\ InitAlone' /\ EndInv'
<1>1. CertShape /\ JobsInv
    BY DEF CertInv
<1>2. a \in Seq(Operations) /\ Fits(a, Tail(todo[j])) /\ \A act : Has(a, act) => act \in OpsOf(j)'
    BY <1>1, GoesOn
<1> QED
    BY <1>2, JobStepsOn

\* Some operations are planned as before, and what they use is as it was.
Same(S) ==
    \A k \in Jobs : \A act \in S :
        /\ Plans(k, act)' <=> Plans(k, act)
        /\ Plans(k, act)' /\ act \in UsesValue => value'[k] = value[k]
FetchesOnly(j) == \A k \in Jobs : k # j => value'[k] = value[k]

LEMMA OthersSame ==
    ASSUME NEW j \in Jobs, NEW h, NEW a, Went(j, h, a), FetchesOnly(j),
           NEW S, \A act \in S : act # h /\ ~Has(a, act)
    PROVE  Same(S)
BY DEF Same, Went, FetchesOnly

LEMMA CaKept ==
    ASSUME CaSettled, memory'.ca = memory.ca, disk'.ca = disk.ca, Same(CaOps)
    PROVE  CaSettled'
<1>1. \A k \in Jobs : /\ Plans(k, "ca")' <=> Plans(k, "ca")
                      /\ Plans(k, "write ca")' <=> Plans(k, "write ca")
                      /\ Plans(k, "write ca")' => value'[k] = value[k]
    BY DEF Same, CaOps, UsesValue
<1> QED
    BY <1>1 DEF CaSettled, WillFetchCa

LEMMA CrlKept ==
    ASSUME CrlSettled, memory'.crl = memory.crl, disk'.crl = disk.crl, Same({"write crl"}),
           Plans("init", "crl")' <=> Plans("init", "crl")
    PROVE  CrlSettled'
<1>1. \A k \in Jobs : /\ Plans(k, "write crl")' <=> Plans(k, "write crl")
                      /\ Plans(k, "write crl")' => value'[k] = value[k]
    BY DEF Same, UsesValue
<1> QED
    BY <1>1 DEF CrlSettled

LEMMA BundleKept ==
    ASSUME BundleSettled, disk'.bundle = disk.bundle, Same(BundleOps)
    PROVE  BundleSettled'
BY DEF BundleSettled, Same, BundleOps, Jobs

LEMMA CertKept ==
    ASSUME CertSettled, disk'.cert = disk.cert, Same(CertOps)
    PROVE  CertSettled'
BY DEF CertSettled, Same

LEMMA PairKept ==
    ASSUME PairSettled, Same(KeyOps \cup CertOps), memory'.key = memory.key, disk'.key = disk.key,
           disk'.cert = disk.cert, keyOf' = keyOf
    PROVE  PairSettled'
<1>1. \A k \in Makers : \A act \in KeyOps \cup CertOps :
          /\ Plans(k, act)' <=> Plans(k, act)
          /\ Plans(k, act)' /\ act \in UsesValue => value'[k] = value[k]
    <2>1. \A k \in Makers : k \in Jobs
        BY DEF Makers, Jobs, Crons
    <2> QED
        BY <2>1 DEF Same
<1>2. \A c : Matches(c)' <=> c \in DOMAIN keyOf /\ keyOf[c] = disk.key
    BY DEF Matches
<1>3. ASSUME NEW k \in Makers
      PROVE  /\ Plans(k, "write key")' => value'[k] = memory'.key /\ memory'.key # 0
             /\ Plans(k, "csr")' /\ ~Plans(k, "key")' /\ ~Plans(k, "write key")' =>
                    disk'.key = memory'.key /\ memory'.key # 0
             /\ Plans(k, "sign")' => value'[k] = disk'.key /\ disk'.key = memory'.key
             /\ Plans(k, "write cert")' => value'[k] \in DOMAIN keyOf /\ keyOf[value'[k]] = disk.key /\ disk'.key = memory'.key
    BY <1>1, <1>3 DEF PairSettled, Matches, KeyOps, CertOps, UsesValue
<1>4. (\A k \in Makers, act \in KeyOps \cup CertOps : ~Plans(k, act)') =>
          disk.cert \in DOMAIN keyOf /\ keyOf[disk.cert] = disk.key /\ disk'.key = memory'.key
    BY <1>1 DEF PairSettled, Matches
<1> QED
    BY <1>3, <1>4 DEF PairSettled, Matches

\* What a job fetched may still be used, and one value more, x by job j.
Fetched(k) ==
    /\ Plans(k, "sign") => value[k] \in 1..keys
    /\ Plans(k, "write cert") => value[k] \in 1..Len(keyOf)
    /\ Plans(k, "write ca") \/ Plans(k, "write bundle") \/ Plans(k, "write crl") => value[k] # 0
UsedNext(j, x) ==
    \A k \in Jobs : \A act \in UsesValue :
        Plans(k, act)' => (Plans(k, act) /\ value'[k] = value[k]) \/ (k = j /\ act = x)
FitsUse(x, v) ==
    /\ x = "sign" => v \in 1..keys
    /\ x = "write cert" => v \in 1..Len(keyOf)
    /\ x \in {"write ca", "write bundle", "write crl"} => v # 0
PairBounds ==
    memory.key <= keys /\ memory.cert <= Len(keyOf) /\ \A c \in DOMAIN keyOf : keyOf[c] \in 1..keys

LEMMA ShapeNumbers ==
    ASSUME CertShape
    PROVE  /\ Len(keyOf) \in Nat /\ keys \in Nat /\ memory.key \in Nat /\ memory.cert \in Nat
           /\ DOMAIN keyOf = 1..Len(keyOf) /\ keyOf \in Seq(Nat) /\ value \in [Jobs -> Nat]
BY DEF CertShape

LEMMA ValuesParts == ValuesInv <=> PairBounds /\ \A k \in Jobs : Fetched(k)
BY DEF ValuesInv, PairBounds, Fetched

LEMMA ValuesNext ==
    ASSUME CertShape, CertShape', ValuesInv, NEW j \in Jobs, NEW x, UsedNext(j, x), FitsUse(x, value[j])',
           keys <= keys', Len(keyOf) <= Len(keyOf'), PairBounds'
    PROVE  ValuesInv'
<1>1. Len(keyOf) \in Nat /\ keys \in Nat /\ Len(keyOf') \in Nat /\ keys' \in Nat
    <2>1. Len(keyOf) \in Nat /\ keys \in Nat
        BY ShapeNumbers
    <2>2. keyOf' \in Seq(Nat) /\ keys' \in Nat
        BY DEF CertShape
    <2> QED
        BY <2>1, <2>2
<1>2. ASSUME NEW n, n \in 1..keys
      PROVE  n \in 1..keys'
    BY <1>1, <1>2
<1>3. ASSUME NEW n, n \in 1..Len(keyOf)
      PROVE  n \in 1..Len(keyOf')
    BY <1>1, <1>3
<1>4. ASSUME NEW k \in Jobs
      PROVE  Fetched(k)'
    <2>1. Fetched(k)
        BY <1>4, ValuesParts
    <2>2. Plans(k, "sign")' => value'[k] \in 1..keys'
        <3>1. Plans(k, "sign")' => (Plans(k, "sign") /\ value'[k] = value[k]) \/ (k = j /\ x = "sign")
            BY <1>4 DEF UsedNext, UsesValue
        <3> QED
            BY <1>2, <2>1, <3>1 DEF Fetched, FitsUse
    <2>3. Plans(k, "write cert")' => value'[k] \in 1..Len(keyOf')
        <3>1. Plans(k, "write cert")' =>
                  (Plans(k, "write cert") /\ value'[k] = value[k]) \/ (k = j /\ x = "write cert")
            BY <1>4 DEF UsedNext, UsesValue
        <3> QED
            BY <1>3, <2>1, <3>1 DEF Fetched, FitsUse
    <2>4. Plans(k, "write ca")' \/ Plans(k, "write bundle")' \/ Plans(k, "write crl")' => value'[k] # 0
        <3>1. \A act \in {"write ca", "write bundle", "write crl"} :
                  Plans(k, act)' => (Plans(k, act) /\ value'[k] = value[k]) \/ (k = j /\ act = x)
            BY <1>4 DEF UsedNext, UsesValue
        <3> QED
            BY <2>1, <3>1 DEF Fetched, FitsUse
    <2> QED
        BY <2>2, <2>3, <2>4 DEF Fetched
<1>5. PairBounds' /\ \A k \in Jobs : Fetched(k)'
    BY <1>4
<1> QED
    BY <1>5 DEF ValuesInv, PairBounds, Fetched

LEMMA UsesNext ==
    ASSUME NEW j \in Jobs, NEW h, NEW a, Went(j, h, a), FetchesOnly(j), NEW x, \A act : Has(a, act) => act = x
    PROVE  UsedNext(j, x)
<1> SUFFICES ASSUME NEW k \in Jobs, NEW act \in UsesValue, Plans(k, act)'
             PROVE  (Plans(k, act) /\ value'[k] = value[k]) \/ (k = j /\ act = x)
    BY DEF UsedNext
<1>1. CASE k = j
    BY <1>1 DEF Went
<1>2. CASE k # j
    BY <1>2 DEF Went, FetchesOnly
<1> QED
    BY <1>1, <1>2

LEMMA NotTheEnd ==
    ASSUME CertInv, NEW j \in Jobs, NEW h, Doing(j, h), h \notin UnlinkOps \cup {"exit"}
    PROVE  j # "shutdown"
<1>1. h \in OpsOf(j)
    BY PlansNext DEF CertInv
<1> QED
    BY <1>1 DEF OpsOf

\* The parts that a step leaves as they are.
FilesSettled == CaSettled /\ CrlSettled /\ BundleSettled /\ CertSettled /\ (~expired => PairSettled)

LEMMA WasSettled ==
    ASSUME CertInv, NEW j, NEW h, NEW a, Went(j, h, a), Calm'
    PROVE  FilesSettled
BY DEF CertInv, CalmInv, Went, FilesSettled

LEMMA OneOperation ==
    ASSUME NEW x \in {"write key", "sign", "write cert", "write ca", "write bundle", "write crl"}
    PROVE  \A act : Has(<<x>>, act) <=> act = x
<1>1. x \in Operations
    BY DEF Operations, KeyOps, CertOps, CaOps, BundleOps, CrlOps
<1> QED
    BY <1>1, Singles

LEMMA NoOperation == \A act : ~Has(<< >>, act)
BY DEF Has

\* Who does what.
LEMMA WhoDoes ==
    ASSUME NEW j \in Jobs, j # "shutdown", NEW h \in OpsOf(j)
    PROVE  /\ h \in KeyOps => j \in Makers
           /\ h \in CertOps /\ ~expired => j \in Makers
           /\ h \in {"checkCa", "checkCert", "drop ca", "drop cert"} \cup UnlinkOps => j = "expiry"
           /\ h \in {"drop cert", "unlink cert", "unlink key"} => expired
           /\ h \notin {"unlink bundle", "unlink crl"}
           /\ h = "checkRevoked" => j = "revocation"
           /\ h \in CrlOps => j \in {"init", "crl"}
BY DEF OpsOf, Makers, Jobs, Crons, KeyOps, CertOps, CaOps, BundleOps, CrlOps, UnlinkOps

LEMMA ShapeParts ==
    ASSUME CertShape
    PROVE  /\ memory \in [key : Nat, cert : Nat, ca : Nat, crl : Nat]
           /\ disk \in [key : Nat, cert : Nat, ca : Nat, bundle : Nat, crl : Nat]
           /\ authority \in [ca : Nat \ {0}, crl : Nat \ {0}] /\ value \in [Jobs -> Nat]
           /\ ticks \in Nat /\ certFaults \in Nat /\ keys \in Nat /\ keyOf \in Seq(Nat)
BY DEF CertShape

\* A step of a job leaves the shapes if what it assigns has its shape.
LEMMA ShapeNext ==
    ASSUME CertShape, NEW j, NEW h, NEW a, Went(j, h, a),
           memory' \in [key : Nat, cert : Nat, ca : Nat, crl : Nat],
           disk' \in [key : Nat, cert : Nat, ca : Nat, bundle : Nat, crl : Nat],
           keyOf' \in Seq(Nat), keys' \in Nat, value' \in [Jobs -> Nat],
           UNCHANGED <<deletes, authority, running, ticks, certFaults>>,
           expired' \in BOOLEAN, ragged' \in BOOLEAN
    PROVE  CertShape'
BY DEF CertShape, Went

\* A key is made.
LEMMA MakesKeyInv ==
    ASSUME CertInv, NEW j \in Jobs, MakesKey(j)
    PROVE  CertInv'
<1> DEFINE a == <<"write key">>
<1>1. CertShape /\ ValuesInv
    BY DEF CertInv
<1>2. /\ Doing(j, "key") /\ Continues(j, a)
      /\ keys' = keys + 1 /\ memory' = [memory EXCEPT !.key = keys'] /\ value' = [value EXCEPT ![j] = keys']
      /\ UNCHANGED <<deletes, authority, running, disk, keyOf, ticks, certFaults, expired, ragged>>
    BY DEF MakesKey, Fetches, certWorld, boundVars
<1>3. j # "shutdown"
    BY <1>2, NotTheEnd DEF UnlinkOps
<1>4. Went(j, "key", a) /\ JobsInv' /\ InitAlone' /\ EndInv'
    BY <1>2, <1>3, JobGoesOn
<1>5. \A act : Has(a, act) <=> act = "write key"
    BY OneOperation
<1> HIDE DEF a
<1>6. CertShape'
    <2>1. keys' \in Nat /\ keyOf' \in Seq(Nat)
        BY <1>1, <1>2, ShapeParts
    <2>2. memory' \in [key : Nat, cert : Nat, ca : Nat, crl : Nat] /\ value' \in [Jobs -> Nat]
        BY <1>1, <1>2, <2>1, ShapeParts
    <2>3. disk' \in [key : Nat, cert : Nat, ca : Nat, bundle : Nat, crl : Nat]
        BY <1>1, <1>2, ShapeParts
    <2>4. expired' \in BOOLEAN /\ ragged' \in BOOLEAN
        BY <1>1, <1>2 DEF CertShape
    <2> QED
        BY <1>1, <1>2, <1>4, <2>1, <2>2, <2>3, <2>4, ShapeNext
<1>7. FetchesOnly(j) /\ value'[j] = keys' /\ memory'.key = keys' /\ memory'.cert = memory.cert /\ memory'.ca = memory.ca /\ memory'.crl = memory.crl
    BY <1>1, <1>2 DEF FetchesOnly, CertShape
<1>8. ValuesInv'
    <2>1. UsedNext(j, "write key")
        BY <1>4, <1>5, <1>7, UsesNext
    <2>2. keys <= keys' /\ Len(keyOf) <= Len(keyOf') /\ PairBounds'
        <3>1. PairBounds /\ keys \in Nat /\ Len(keyOf) \in Nat
            BY <1>1, ShapeNumbers, ValuesParts
        <3>2. keys <= keys' /\ Len(keyOf) <= Len(keyOf') /\ memory'.key <= keys' /\ memory'.cert <= Len(keyOf')
            BY <1>2, <1>7, <3>1 DEF PairBounds
        <3>3. \A c \in DOMAIN keyOf' : keyOf'[c] \in 1..keys'
            BY <1>2, <3>1 DEF PairBounds
        <3> QED
            BY <3>2, <3>3 DEF PairBounds
    <2>3. FitsUse("write key", value[j])'
        BY DEF FitsUse
    <2> QED
        BY <1>1, <1>6, <2>1, <2>2, <2>3, ValuesNext
<1>9. CalmInv'
    <2> SUFFICES ASSUME Calm'
                 PROVE  FilesSettled'
        BY DEF CalmInv, FilesSettled
    <2>1. FilesSettled
        BY <1>4, WasSettled
    <2>2. Same(CaOps) /\ Same({"write crl"}) /\ Same(BundleOps) /\ Same({"crl"})
        BY <1>4, <1>5, <1>7, OthersSame DEF CaOps, BundleOps
    <2>3. CaSettled' /\ CrlSettled' /\ BundleSettled'
        <3>1. Plans("init", "crl")' <=> Plans("init", "crl")
            BY <2>2 DEF Same, Jobs
        <3> QED
            BY <1>2, <1>7, <2>1, <2>2, <3>1, CaKept, CrlKept, BundleKept DEF FilesSettled
    <2>4. Plans(j, "csr")'
        BY <1>4 DEF Went, Later
    <2>5. CertSettled'
        BY <2>4 DEF CertSettled, CertOps
    <2>6. ASSUME ~expired'
          PROVE  PairSettled'
        <3>1. j \in Makers
            BY <1>3, <1>4, WhoDoes DEF Went, KeyOps
        <3>2. \A k \in Makers : k # j => \A act : ~Plans(k, act)'
            BY <1>4, <3>1 DEF Went, Makers, Jobs, Crons
        <3>3. Plans(j, "write key")' /\ ~Plans(j, "sign")' /\ ~Plans(j, "write cert")'
            <4>1. \A act \in UsesValue : Plans(j, act)' => act = "write key"
                BY <1>4, <1>5 DEF Went
            <4>2. Plans(j, "write key")'
                BY <1>4, <1>5 DEF Went
            <4> QED
                BY <4>1, <4>2 DEF UsesValue
        <3>4. memory'.key # 0
            BY <1>1, <1>2, <1>7, ShapeNumbers
        <3>5. ~(\A k \in Makers, act \in KeyOps \cup CertOps : ~Plans(k, act)')
            BY <2>4, <3>1 DEF CertOps
        <3> QED
            BY <1>7, <3>2, <3>3, <3>4, <3>5 DEF PairSettled
    <2> QED
        BY <2>3, <2>5, <2>6 DEF FilesSettled
<1> QED
    BY <1>4, <1>6, <1>8, <1>9 DEF CertInv

\* No key or certificate is made, and what is in memory stays or is forgotten.
LEMMA ValuesSame ==
    ASSUME CertShape, CertShape', ValuesInv, NEW j \in Jobs, NEW x, UsedNext(j, x), FitsUse(x, value[j])',
           UNCHANGED <<keys, keyOf>>, memory'.key \in {memory.key, 0}, memory'.cert \in {memory.cert, 0}
    PROVE  ValuesInv'
<1>1. PairBounds /\ keys \in Nat /\ Len(keyOf) \in Nat
    BY ShapeNumbers, ValuesParts
<1>2. memory'.key <= keys' /\ memory'.cert <= Len(keyOf')
    BY <1>1 DEF PairBounds
<1>3. \A c \in DOMAIN keyOf' : keyOf'[c] \in 1..keys'
    BY <1>1 DEF PairBounds
<1>4. PairBounds'
    BY <1>2, <1>3 DEF PairBounds
<1>5. keys <= keys' /\ Len(keyOf) <= Len(keyOf')
    BY <1>1
<1> QED
    BY <1>4, <1>5, ValuesNext

\* The CSR is made, for the key in memory or for one that nobody keeps.
LEMMA MakesCsrInv ==
    ASSUME CertInv, NEW j \in Jobs, MakesCsr(j)
    PROVE  CertInv'
<1> DEFINE a == <<"sign">>
<1>1. CertShape /\ ValuesInv
    BY DEF CertInv
<1>2. /\ Doing(j, "csr") /\ Continues(j, a)
      /\ \/ memory.key # 0 /\ value' = [value EXCEPT ![j] = memory.key] /\ keys' = keys
         \/ memory.key = 0 /\ value' = [value EXCEPT ![j] = keys'] /\ keys' = keys + 1
      /\ UNCHANGED <<deletes, authority, running, memory, disk, keyOf, ticks, certFaults, expired, ragged>>
    BY DEF MakesCsr, Fetches, certWorld, boundVars
<1>3. j # "shutdown"
    BY <1>2, NotTheEnd DEF UnlinkOps
<1>4. Went(j, "csr", a) /\ JobsInv' /\ InitAlone' /\ EndInv'
    BY <1>2, <1>3, JobGoesOn
<1>5. \A act : Has(a, act) <=> act = "sign"
    BY OneOperation
<1> HIDE DEF a
<1>6. PairBounds /\ keys \in Nat /\ Len(keyOf) \in Nat /\ memory.key \in Nat /\ memory.key <= keys
    BY <1>1, ShapeNumbers, ValuesParts DEF PairBounds
<1>7. /\ keys' \in Nat /\ keys <= keys' /\ FetchesOnly(j) /\ value' \in [Jobs -> Nat] /\ value'[j] \in 1..keys'
      /\ memory.key # 0 => value'[j] = memory.key
    <2>1. keys' \in Nat /\ keys <= keys'
        BY <1>2, <1>6
    <2>2. PICK v : value' = [value EXCEPT ![j] = v] /\ v \in 1..keys' /\ (memory.key # 0 => v = memory.key)
        <3>1. CASE memory.key # 0
            <4>1. memory.key \in 1..keys'
                BY <1>2, <1>6, <3>1
            <4> QED
                BY <1>2, <3>1, <4>1
        <3>2. CASE memory.key = 0
            <4>1. keys' \in 1..keys'
                BY <1>2, <1>6, <3>2
            <4> QED
                BY <1>2, <3>2, <4>1
        <3> QED
            BY <3>1, <3>2
    <2>3. value \in [Jobs -> Nat] /\ v \in Nat
        BY <1>1, <2>1, <2>2, ShapeParts
    <2>4. FetchesOnly(j) /\ value' \in [Jobs -> Nat] /\ value'[j] = v
        BY <2>2, <2>3 DEF FetchesOnly
    <2> QED
        BY <2>1, <2>2, <2>4
<1>8. CertShape'
    <2>1. expired' \in BOOLEAN /\ ragged' \in BOOLEAN
        BY <1>1, <1>2 DEF CertShape
    <2> QED
        BY <1>1, <1>2, <1>4, <1>7, <2>1, ShapeNext, ShapeParts
<1>9. ValuesInv'
    <2>1. UsedNext(j, "sign")
        BY <1>4, <1>5, <1>7, UsesNext
    <2>2. \A c \in DOMAIN keyOf' : keyOf'[c] \in 1..keys'
        BY <1>2, <1>6, <1>7 DEF PairBounds
    <2>3. Len(keyOf) <= Len(keyOf') /\ memory'.key <= keys' /\ memory'.cert <= Len(keyOf')
        BY <1>2, <1>6, <1>7 DEF PairBounds
    <2>4. FitsUse("sign", value[j])'
        BY <1>7 DEF FitsUse
    <2> QED
        BY <1>1, <1>7, <1>8, <2>1, <2>2, <2>3, <2>4, ValuesNext DEF PairBounds
<1>10. CalmInv'
    <2> SUFFICES ASSUME Calm'
                 PROVE  FilesSettled'
        BY DEF CalmInv, FilesSettled
    <2>1. FilesSettled
        BY <1>4, WasSettled
    <2>2. Same(CaOps) /\ Same({"write crl"}) /\ Same(BundleOps) /\ Same({"crl"})
        BY <1>4, <1>5, <1>7, OthersSame DEF CaOps, BundleOps
    <2>3. CaSettled' /\ CrlSettled' /\ BundleSettled'
        <3>1. Plans("init", "crl")' <=> Plans("init", "crl")
            BY <2>2 DEF Same, Jobs
        <3> QED
            BY <1>2, <2>1, <2>2, <3>1, CaKept, CrlKept, BundleKept DEF FilesSettled
    <2>4. Plans(j, "sign")'
        BY <1>4, <1>5 DEF Went
    <2>5. CertSettled'
        BY <2>4 DEF CertSettled, CertOps
    <2>6. ASSUME ~expired'
          PROVE  PairSettled'
        <3>1. j \in Makers
            BY <1>2, <1>3, <1>4, <2>6, WhoDoes DEF Went, CertOps
        <3>2. \A k \in Makers : k # j => \A act : ~Plans(k, act)'
            BY <1>4, <3>1 DEF Went, Makers, Jobs, Crons
        <3>3. ~Plans(j, "csr")' /\ ~Plans(j, "key")' /\ ~Plans(j, "write key")' /\ ~Plans(j, "write cert")'
            <4>1. \A act \in UsesValue : Plans(j, act)' => act = "sign"
                BY <1>4, <1>5 DEF Went
            <4>2. ~Plans(j, "csr")' /\ ~Plans(j, "key")'
                BY <1>4, <1>5 DEF Went, Clash
            <4> QED
                BY <4>1, <4>2 DEF UsesValue
        <3>4. Plans(j, "csr") /\ ~Plans(j, "key") /\ ~Plans(j, "write key")
            BY <1>4, <3>3 DEF Went
        <3>5. disk.key = memory.key /\ memory.key # 0
            BY <1>2, <2>1, <2>6, <3>1, <3>4 DEF FilesSettled, PairSettled
        <3>6. ~(\A k \in Makers, act \in KeyOps \cup CertOps : ~Plans(k, act)')
            BY <2>4, <3>1 DEF CertOps
        <3> QED
            BY <1>2, <1>7, <3>2, <3>3, <3>5, <3>6 DEF PairSettled
    <2> QED
        BY <2>3, <2>5, <2>6 DEF FilesSettled
<1> QED
    BY <1>4, <1>8, <1>9, <1>10 DEF CertInv

\* The CSR is signed.
LEMMA SignsInv ==
    ASSUME CertInv, NEW j \in Jobs, Signs(j)
    PROVE  CertInv'
<1> DEFINE a == <<"write cert">>
<1>1. CertShape /\ ValuesInv
    BY DEF CertInv
<1>2. /\ Doing(j, "sign") /\ Continues(j, a) /\ keyOf' = Append(keyOf, value[j])
      /\ memory' = [memory EXCEPT !.cert = Len(keyOf')] /\ value' = [value EXCEPT ![j] = Len(keyOf')]
      /\ UNCHANGED <<deletes, authority, running, disk, keys, ticks, certFaults, expired, ragged>>
    BY DEF Signs, Fetches, certWorld, boundVars
<1>3. j # "shutdown"
    BY <1>2, NotTheEnd DEF UnlinkOps
<1>4. Went(j, "sign", a) /\ JobsInv' /\ InitAlone' /\ EndInv'
    BY <1>2, <1>3, JobGoesOn
<1>5. \A act : Has(a, act) <=> act = "write cert"
    BY OneOperation
<1> HIDE DEF a
<1>6. PairBounds /\ keys \in Nat /\ memory.key \in Nat /\ memory.key <= keys /\ value[j] \in 1..keys
    BY <1>1, <1>4, ShapeNumbers, ValuesParts DEF PairBounds, Fetched, Went
<1>7. /\ keyOf' \in Seq(Nat) /\ Len(keyOf) \in Nat /\ Len(keyOf') = Len(keyOf) + 1
      /\ DOMAIN keyOf = 1..Len(keyOf) /\ DOMAIN keyOf' = 1..Len(keyOf')
      /\ keyOf'[Len(keyOf')] = value[j] /\ \A c \in DOMAIN keyOf : c \in DOMAIN keyOf' /\ keyOf'[c] = keyOf[c]
    <2>1. keyOf \in Seq(Nat) /\ value[j] \in Nat
        BY <1>1, ShapeParts
    <2> QED
        BY <1>2, <2>1
<1>8. \A c \in DOMAIN keyOf' : c \in DOMAIN keyOf \/ c = Len(keyOf')
    BY <1>7
<1>9. /\ FetchesOnly(j) /\ value' \in [Jobs -> Nat] /\ value'[j] = Len(keyOf')
      /\ memory' \in [key : Nat, cert : Nat, ca : Nat, crl : Nat]
      /\ memory'.key = memory.key /\ memory'.cert = Len(keyOf') /\ memory'.ca = memory.ca /\ memory'.crl = memory.crl
    <2>1. Len(keyOf') \in Nat
        BY <1>7
    <2>2. memory \in [key : Nat, cert : Nat, ca : Nat, crl : Nat] /\ value \in [Jobs -> Nat]
        BY <1>1, ShapeParts
    <2>3. FetchesOnly(j) /\ value' \in [Jobs -> Nat] /\ value'[j] = Len(keyOf')
        BY <1>2, <2>1, <2>2 DEF FetchesOnly
    <2>4. /\ memory' \in [key : Nat, cert : Nat, ca : Nat, crl : Nat]
          /\ memory'.key = memory.key /\ memory'.cert = Len(keyOf') /\ memory'.ca = memory.ca /\ memory'.crl = memory.crl
        BY <1>2, <2>1, <2>2
    <2> QED
        BY <2>3, <2>4
<1>10. CertShape'
    <2>1. expired' \in BOOLEAN /\ ragged' \in BOOLEAN
        BY <1>1, <1>2 DEF CertShape
    <2> QED
        BY <1>1, <1>2, <1>4, <1>7, <1>9, <2>1, ShapeNext, ShapeParts
<1>11. ValuesInv'
    <2>1. UsedNext(j, "write cert")
        BY <1>4, <1>5, <1>9, UsesNext
    <2>2. \A c \in DOMAIN keyOf' : keyOf'[c] \in 1..keys'
        BY <1>2, <1>6, <1>7, <1>8 DEF PairBounds
    <2>3. Len(keyOf) <= Len(keyOf') /\ keys <= keys' /\ memory'.key <= keys' /\ memory'.cert <= Len(keyOf')
        BY <1>2, <1>6, <1>7, <1>9
    <2>4. FitsUse("write cert", value[j])'
        BY <1>7, <1>9 DEF FitsUse
    <2> QED
        BY <1>1, <1>10, <2>1, <2>2, <2>3, <2>4, ValuesNext DEF PairBounds
<1>12. CalmInv'
    <2> SUFFICES ASSUME Calm'
                 PROVE  FilesSettled'
        BY DEF CalmInv, FilesSettled
    <2>1. FilesSettled
        BY <1>4, WasSettled
    <2>2. Same(CaOps) /\ Same({"write crl"}) /\ Same(BundleOps) /\ Same({"crl"})
        BY <1>4, <1>5, <1>9, OthersSame DEF CaOps, BundleOps
    <2>3. CaSettled' /\ CrlSettled' /\ BundleSettled'
        <3>1. Plans("init", "crl")' <=> Plans("init", "crl")
            BY <2>2 DEF Same, Jobs
        <3> QED
            BY <1>2, <1>9, <2>1, <2>2, <3>1, CaKept, CrlKept, BundleKept DEF FilesSettled
    <2>4. Plans(j, "write cert")'
        BY <1>4, <1>5 DEF Went
    <2>5. CertSettled'
        BY <2>4 DEF CertSettled, CertOps
    <2>6. ASSUME ~expired'
          PROVE  PairSettled'
        <3>1. j \in Makers /\ Plans(j, "sign")
            BY <1>2, <1>3, <1>4, <2>6, WhoDoes DEF Went, CertOps
        <3>2. \A k \in Makers : k # j => \A act : ~Plans(k, act)'
            BY <1>4, <3>1 DEF Went, Makers, Jobs, Crons
        <3>3. ~Plans(j, "csr")' /\ ~Plans(j, "key")' /\ ~Plans(j, "write key")' /\ ~Plans(j, "sign")'
            <4>1. \A act \in UsesValue : Plans(j, act)' => act = "write cert"
                BY <1>4, <1>5 DEF Went
            <4>2. ~Plans(j, "csr")' /\ ~Plans(j, "key")'
                BY <1>4, <1>5 DEF Went, Clash
            <4> QED
                BY <4>1, <4>2 DEF UsesValue
        <3>4. value[j] = disk.key /\ disk.key = memory.key
            BY <1>2, <2>1, <2>6, <3>1 DEF FilesSettled, PairSettled
        <3>5. Matches(value[j])'
            BY <1>2, <1>7, <1>9, <3>4 DEF Matches
        <3>6. ~(\A k \in Makers, act \in KeyOps \cup CertOps : ~Plans(k, act)')
            BY <2>4, <3>1 DEF CertOps
        <3> QED
            BY <1>2, <1>9, <3>2, <3>3, <3>4, <3>5, <3>6 DEF PairSettled
    <2> QED
        BY <2>3, <2>5, <2>6 DEF FilesSettled
<1> QED
    BY <1>4, <1>10, <1>11, <1>12 DEF CertInv

LEMMA HeadIsFirst ==
    ASSUME NEW s \in Seq(Operations), s # <<>>
    PROVE  Head(s) = s[1]
OBVIOUS

\* The CA is fetched.  Another job about to write its file would have made this step ragged.
LEMMA RetrievesCaInv ==
    ASSUME CertInv, NEW j \in Jobs, RetrievesCa(j)
    PROVE  CertInv'
<1> DEFINE a == <<"write ca">>
<1>1. CertShape /\ ValuesInv /\ JobsInv
    BY DEF CertInv
<1>2. /\ Doing(j, "ca") /\ Continues(j, a)
      /\ memory' = [memory EXCEPT !.ca = authority.ca] /\ value' = [value EXCEPT ![j] = authority.ca]
      /\ ragged' = (ragged \/ \E other \in Jobs \ {j} : Doing(other, "write ca"))
      /\ UNCHANGED <<deletes, authority, running, disk, keyOf, keys, ticks, certFaults, expired>>
    BY DEF RetrievesCa, Fetches, certWorld, boundVars, pairVars
<1>3. j # "shutdown"
    BY <1>2, NotTheEnd DEF UnlinkOps
<1>4. Went(j, "ca", a) /\ JobsInv' /\ InitAlone' /\ EndInv'
    <2>1. (expired => expired') /\ (ragged => ragged') /\ running' = running
        BY <1>2
    <2> QED
        BY <1>2, <1>3, <2>1, JobGoesOn
<1>5. \A act : Has(a, act) <=> act = "write ca"
    BY OneOperation
<1> HIDE DEF a
<1>6. /\ FetchesOnly(j) /\ value' \in [Jobs -> Nat] /\ value'[j] = memory'.ca /\ memory'.ca # 0
      /\ memory' \in [key : Nat, cert : Nat, ca : Nat, crl : Nat]
      /\ memory'.key = memory.key /\ memory'.cert = memory.cert /\ memory'.crl = memory.crl
    BY <1>1, <1>2, ShapeParts DEF FetchesOnly
<1>7. CertShape'
    <2>1. expired' \in BOOLEAN /\ ragged' \in BOOLEAN
        BY <1>1, <1>2 DEF CertShape
    <2> QED
        BY <1>1, <1>2, <1>4, <1>6, <2>1, ShapeNext, ShapeParts
<1>8. ValuesInv'
    <2>1. UsedNext(j, "write ca")
        BY <1>4, <1>5, <1>6, UsesNext
    <2>2. FitsUse("write ca", value[j])'
        BY <1>6 DEF FitsUse
    <2> QED
        BY <1>1, <1>2, <1>6, <1>7, <2>1, <2>2, ValuesSame
<1>9. CalmInv'
    <2> SUFFICES ASSUME Calm'
                 PROVE  FilesSettled'
        BY DEF CalmInv, FilesSettled
    <2>1. FilesSettled
        BY <1>4, WasSettled
    <2>2. Same({"write crl"}) /\ Same(BundleOps) /\ Same({"crl"}) /\ Same(CertOps) /\ Same(KeyOps \cup CertOps)
        BY <1>4, <1>5, <1>6, OthersSame DEF CaOps, BundleOps, CertOps, KeyOps
    <2>3. CrlSettled' /\ BundleSettled' /\ CertSettled' /\ (~expired' => PairSettled')
        <3>1. Plans("init", "crl")' <=> Plans("init", "crl")
            BY <2>2 DEF Same, Jobs
        <3>2. CrlSettled' /\ BundleSettled' /\ CertSettled'
            BY <1>2, <1>6, <2>1, <2>2, <3>1, CrlKept, BundleKept, CertKept DEF FilesSettled
        <3>3. ~expired' => PairSettled'
            BY <1>2, <1>6, <2>1, <2>2, PairKept DEF FilesSettled
        <3> QED
            BY <3>2, <3>3
    <2>4. ASSUME NEW k \in Jobs, k # j
          PROVE  ~Plans(k, "write ca")'
        <3>1. SUFFICES ~Plans(k, "write ca")
            BY <1>4, <2>4 DEF Went
        <3>2. ~Doing(k, "write ca")
            BY <1>2, <2>4 DEF Calm
        <3>3. k = "shutdown" => ~Plans(k, "write ca")
            <4>1. Plans(k, "write ca") => "write ca" \in OpsOf(k)
                BY <1>1 DEF JobsInv
            <4>2. k = "shutdown" => "write ca" \notin OpsOf(k)
                BY DEF OpsOf, UnlinkOps
            <4> QED
                BY <4>1, <4>2
        <3>4. ASSUME k # "shutdown", Plans(k, "write ca")
              PROVE  FALSE
            <4>1. PICK i \in DOMAIN todo[k] : todo[k][i] = "write ca"
                BY <3>4 DEF Plans, Has
            <4>2. i = 1
                BY <1>1, <3>4, <4>1 DEF JobsInv, Rules, UsesValue
            <4>3. todo[k] \in Seq(Operations)
                BY <1>1 DEF CertShape
            <4>4. todo[k] # <<>> /\ Head(todo[k]) = todo[k][1]
                BY <3>4, <4>3, IdlePlansNothing, HeadIsFirst
            <4>5. todo[k] # <<>> /\ Head(todo[k]) = "write ca"
                BY <4>1, <4>2, <4>4
            <4> QED
                BY <1>4, <3>2, <4>5 DEF Doing, Went
        <3> QED
            BY <3>3, <3>4
    <2>5. CaSettled'
        <3>1. Plans(j, "write ca")'
            BY <1>4, <1>5 DEF Went
        <3> QED
            BY <1>6, <2>4, <3>1 DEF CaSettled
    <2> QED
        BY <2>3, <2>5 DEF FilesSettled
<1> QED
    BY <1>4, <1>7, <1>8, <1>9 DEF CertInv

\* The bundle is fetched.
LEMMA RetrievesBundleInv ==
    ASSUME CertInv, NEW j \in Jobs, RetrievesBundle(j)
    PROVE  CertInv'
<1> DEFINE a == <<"write bundle">>
<1>1. CertShape /\ ValuesInv /\ JobsInv
    BY DEF CertInv
<1>2. /\ Doing(j, "bundle") /\ Continues(j, a) /\ value' = [value EXCEPT ![j] = authority.ca]
      /\ UNCHANGED <<deletes, authority, running, memory, disk, keyOf, keys, ticks, certFaults, expired, ragged>>
    BY DEF RetrievesBundle, Fetches, certWorld, boundVars, pairVars
<1>3. j # "shutdown"
    BY <1>2, NotTheEnd DEF UnlinkOps
<1>4. Went(j, "bundle", a) /\ JobsInv' /\ InitAlone' /\ EndInv'
    BY <1>2, <1>3, JobGoesOn
<1>5. \A act : Has(a, act) <=> act = "write bundle"
    BY OneOperation
<1> HIDE DEF a
<1>6. FetchesOnly(j) /\ value' \in [Jobs -> Nat] /\ value'[j] # 0
    BY <1>1, <1>2, ShapeParts DEF FetchesOnly
<1>7. CertShape'
    <2>1. expired' \in BOOLEAN /\ ragged' \in BOOLEAN
        BY <1>1, <1>2 DEF CertShape
    <2> QED
        BY <1>1, <1>2, <1>4, <1>6, <2>1, ShapeNext, ShapeParts
<1>8. ValuesInv'
    <2>1. UsedNext(j, "write bundle")
        BY <1>4, <1>5, <1>6, UsesNext
    <2>2. FitsUse("write bundle", value[j])'
        BY <1>6 DEF FitsUse
    <2> QED
        BY <1>1, <1>2, <1>7, <2>1, <2>2, ValuesSame
<1>9. CalmInv'
    <2> SUFFICES ASSUME Calm'
                 PROVE  FilesSettled'
        BY DEF CalmInv, FilesSettled
    <2>1. FilesSettled
        BY <1>4, WasSettled
    <2>2. Same({"write crl"}) /\ Same(CaOps) /\ Same({"crl"}) /\ Same(CertOps) /\ Same(KeyOps \cup CertOps)
        <3>1. Same({"write crl"}) /\ Same({"crl"}) /\ Same(CaOps)
            BY <1>4, <1>5, <1>6, OthersSame DEF CaOps
        <3>2. Same(CertOps) /\ Same(KeyOps \cup CertOps)
            <4> DEFINE S == KeyOps \cup CertOps
            <4>1. \A act \in S : act # "bundle" /\ ~Has(a, act)
                BY <1>5 DEF CertOps, KeyOps
            <4> HIDE DEF S
            <4>2. Same(S)
                BY <1>4, <1>6, <4>1, OthersSame
            <4> QED
                BY <4>2 DEF Same, S
        <3> QED
            BY <3>1, <3>2
    <2>3. CaSettled' /\ CrlSettled' /\ CertSettled' /\ (~expired' => PairSettled')
        <3>1. Plans("init", "crl")' <=> Plans("init", "crl")
            BY <2>2 DEF Same, Jobs
        <3>2. CaSettled' /\ CrlSettled' /\ CertSettled'
            BY <1>2, <2>1, <2>2, <3>1, CrlKept, CaKept, CertKept DEF FilesSettled
        <3>3. ~expired' => PairSettled'
            BY <1>2, <2>1, <2>2, PairKept DEF FilesSettled
        <3> QED
            BY <3>2, <3>3
    <2>4. BundleSettled'
        <3>1. CASE j = "init"
            BY <1>4, <1>5, <3>1 DEF BundleSettled, Went
        <3>2. CASE j # "init"
            <4>1. \A act : Plans("init", act)' <=> Plans("init", act)
                BY <1>4, <3>2 DEF Went, Jobs
            <4> QED
                BY <1>2, <2>1, <4>1 DEF BundleSettled, FilesSettled
        <3> QED
            BY <3>1, <3>2
    <2> QED
        BY <2>3, <2>4 DEF FilesSettled
<1> QED
    BY <1>4, <1>7, <1>8, <1>9 DEF CertInv

\* The CRL is fetched, and written when it is another one.
LEMMA RetrievesCrlInv ==
    ASSUME CertInv, NEW j \in Jobs, RetrievesCrl(j)
    PROVE  CertInv'
<1> DEFINE a == IF memory.crl # authority.crl THEN <<"write crl">> ELSE <<>>
<1>1. CertShape /\ ValuesInv /\ JobsInv /\ InitAlone
    BY DEF CertInv
<1>2. /\ Doing(j, "crl") /\ Continues(j, a)
      /\ memory' = [memory EXCEPT !.crl = authority.crl] /\ value' = [value EXCEPT ![j] = authority.crl]
      /\ UNCHANGED <<deletes, authority, running, disk, keyOf, keys, ticks, certFaults, expired, ragged>>
    BY DEF RetrievesCrl, Fetches, certWorld, boundVars, pairVars
<1>3. j # "shutdown"
    BY <1>2, NotTheEnd DEF UnlinkOps
<1>4. Went(j, "crl", a) /\ JobsInv' /\ InitAlone' /\ EndInv'
    BY <1>2, <1>3, JobGoesOn
<1>5. \A act : Has(a, act) <=> act = "write crl" /\ memory.crl # authority.crl
    BY OneOperation, NoOperation
<1> HIDE DEF a
<1>6. /\ FetchesOnly(j) /\ value' \in [Jobs -> Nat] /\ value'[j] = memory'.crl /\ memory'.crl # 0
      /\ memory' \in [key : Nat, cert : Nat, ca : Nat, crl : Nat] /\ memory'.crl = authority.crl
      /\ memory'.key = memory.key /\ memory'.cert = memory.cert /\ memory'.ca = memory.ca
    BY <1>1, <1>2, ShapeParts DEF FetchesOnly
<1>7. CertShape'
    <2>1. expired' \in BOOLEAN /\ ragged' \in BOOLEAN
        BY <1>1, <1>2 DEF CertShape
    <2> QED
        BY <1>1, <1>2, <1>4, <1>6, <2>1, ShapeNext, ShapeParts
<1>8. ValuesInv'
    <2>1. UsedNext(j, "write crl")
        BY <1>4, <1>5, <1>6, UsesNext
    <2>2. FitsUse("write crl", value[j])'
        BY <1>6 DEF FitsUse
    <2> QED
        BY <1>1, <1>2, <1>6, <1>7, <2>1, <2>2, ValuesSame
<1>9. CalmInv'
    <2> SUFFICES ASSUME Calm'
                 PROVE  FilesSettled'
        BY DEF CalmInv, FilesSettled
    <2>1. FilesSettled
        BY <1>4, WasSettled
    <2>2. Same(CaOps) /\ Same(BundleOps) /\ Same(CertOps) /\ Same(KeyOps \cup CertOps)
        BY <1>4, <1>5, <1>6, OthersSame DEF CaOps, BundleOps, CertOps, KeyOps
    <2>3. CaSettled' /\ BundleSettled' /\ CertSettled' /\ (~expired' => PairSettled')
        <3>1. CaSettled' /\ BundleSettled' /\ CertSettled'
            BY <1>2, <1>6, <2>1, <2>2, CaKept, BundleKept, CertKept DEF FilesSettled
        <3>2. ~expired' => PairSettled'
            BY <1>2, <1>6, <2>1, <2>2, PairKept DEF FilesSettled
        <3> QED
            BY <3>1, <3>2
    <2>4. ASSUME NEW k \in Jobs, k # j
          PROVE  ~Plans(k, "write crl") /\ ~Plans(k, "write crl")'
        <3>1. j \in {"init", "crl"}
            BY <1>3, <1>4, WhoDoes DEF Went, CrlOps
        <3>2. SUFFICES ~Plans(k, "write crl")
            BY <1>4, <2>4 DEF Went
        <3>3. Plans(k, "write crl") => k \in {"init", "crl"}
            BY <1>1 DEF JobsInv, OpsOf, Jobs, Crons, KeyOps, CertOps, CaOps, BundleOps, CrlOps, UnlinkOps
        <3>4. todo[j] # <<>>
            BY <1>2 DEF Doing
        <3>5. k \in {"init", "crl"} => todo[k] = <<>>
            BY <1>1, <2>4, <3>1, <3>4 DEF InitAlone, Crons
        <3> QED
            BY <2>4, <3>3, <3>5, IdlePlansNothing
    <2>5. CrlSettled'
        <3>1. Plans(j, "write crl")' <=> memory.crl # authority.crl
            BY <1>4, <1>5 DEF Went, UsesValue
        <3>2. ~Plans(j, "write crl")' => ~Plans(j, "write crl")
            BY <1>4, <1>5 DEF Went
        <3>3. disk'.crl = memory'.crl \/ \E k \in Jobs : Plans(k, "write crl")'
            BY <1>2, <1>6, <2>1, <2>4, <3>1, <3>2 DEF CrlSettled, FilesSettled
        <3> QED
            BY <1>6, <2>4, <3>1, <3>3 DEF CrlSettled
    <2> QED
        BY <2>3, <2>5 DEF FilesSettled
<1> QED
    BY <1>4, <1>7, <1>8, <1>9 DEF CertInv

LEMMA Positive ==
    ASSUME NEW m \in Nat, NEW n \in 1..m
    PROVE  n # 0
OBVIOUS

\* The names of the operations.
LEMMA OperationNames ==
    /\ Written["key"] = "write key" /\ Written["cert"] = "write cert" /\ Written["ca"] = "write ca"
    /\ Written["bundle"] = "write bundle" /\ Written["crl"] = "write crl"
    /\ Unlinked["key"] = "unlink key" /\ Unlinked["cert"] = "unlink cert" /\ Unlinked["ca"] = "unlink ca"
    /\ Unlinked["bundle"] = "unlink bundle" /\ Unlinked["crl"] = "unlink crl"
BY DEF Written, Unlinked

\* What a job does to a file, with nothing put in front of the rest of its program.
Rests(j, h, file, v) ==
    /\ Went(j, h, <<>>) /\ FetchesOnly(j)
    /\ disk' = [disk EXCEPT ![file] = v]
    /\ UNCHANGED <<memory, keyOf, value, expired>>

LEMMA RestsInv ==
    ASSUME CertInv, NEW j \in Jobs, NEW h, Doing(j, h), h \notin {"exit"}, j # "shutdown",
           Continues(j, <<>>), NEW file \in CertFiles, NEW v \in Nat, disk' = [disk EXCEPT ![file] = v],
           UNCHANGED <<certWorld, running, memory, pairVars, value, boundVars, expired, ragged>>
    PROVE  Rests(j, h, file, v) /\ CertShape' /\ JobsInv' /\ InitAlone' /\ EndInv' /\ ValuesInv'
<1>1. CertShape /\ ValuesInv
    BY DEF CertInv
<1>2. UNCHANGED <<deletes, authority, running, memory, keyOf, keys, value, ticks, certFaults, expired, ragged>>
    BY DEF certWorld, pairVars, boundVars
<1>3. Went(j, h, <<>>) /\ JobsInv' /\ InitAlone' /\ EndInv'
    <2>1. (expired => expired') /\ (ragged => ragged') /\ running' = running
        BY <1>2
    <2> QED
        BY <2>1, JobGoesOn
<1>4. FetchesOnly(j)
    BY <1>2 DEF FetchesOnly
<1>5. CertShape'
    <2>1. expired' \in BOOLEAN /\ ragged' \in BOOLEAN
        BY <1>1, <1>2 DEF CertShape
    <2>2. disk' \in [key : Nat, cert : Nat, ca : Nat, bundle : Nat, crl : Nat]
        BY <1>1, ShapeParts DEF CertFiles
    <2> QED
        BY <1>1, <1>2, <1>3, <2>1, <2>2, ShapeNext, ShapeParts
<1>6. ValuesInv'
    <2>1. UsedNext(j, "none")
        BY <1>3, <1>4, NoOperation, UsesNext
    <2>2. FitsUse("none", value[j])'
        BY DEF FitsUse
    <2> QED
        BY <1>1, <1>2, <1>5, <2>1, <2>2, ValuesSame
<1> QED
    BY <1>2, <1>3, <1>4, <1>5, <1>6 DEF Rests

\* Of the parts that are about other files and other operations, nothing changes.
LEMMA RestsKeep ==
    ASSUME CertInv, NEW j \in Jobs, NEW h, NEW file \in CertFiles, NEW v, Rests(j, h, file, v), FilesSettled
    PROVE  /\ file # "ca" /\ h \notin CaOps => CaSettled'
           /\ file # "crl" /\ h \notin CrlOps => CrlSettled'
           /\ file # "bundle" /\ h \notin BundleOps => BundleSettled'
           /\ file # "cert" /\ h \notin CertOps => CertSettled'
           /\ ~expired /\ file \notin {"key", "cert"} /\ h \notin KeyOps \cup CertOps => PairSettled'
<1>1. /\ Went(j, h, <<>>) /\ FetchesOnly(j) /\ memory' = memory /\ keyOf' = keyOf
      /\ \A f \in CertFiles : f # file => disk'[f] = disk[f]
    BY DEF Rests, CertInv, CertShape, CertFiles
<1>2. ASSUME NEW S, h \notin S
      PROVE  Same(S)
    BY <1>1, <1>2, NoOperation, OthersSame
<1>3. /\ file # "ca" => disk'.ca = disk.ca
      /\ file # "crl" => disk'.crl = disk.crl
      /\ file # "bundle" => disk'.bundle = disk.bundle
      /\ file # "cert" => disk'.cert = disk.cert
      /\ file # "key" => disk'.key = disk.key
    BY <1>1 DEF CertFiles
<1>4. file # "ca" /\ h \notin CaOps => CaSettled'
    BY <1>1, <1>2, <1>3, CaKept DEF FilesSettled
<1>5. ASSUME file # "crl" /\ h \notin CrlOps
      PROVE  CrlSettled'
    <2>1. Same({"write crl"}) /\ Same({"crl"})
        BY <1>2, <1>5 DEF CrlOps
    <2>2. Plans("init", "crl")' <=> Plans("init", "crl")
        BY <2>1 DEF Same, Jobs
    <2> QED
        BY <1>1, <1>3, <1>5, <2>1, <2>2, CrlKept DEF FilesSettled
<1>6. file # "bundle" /\ h \notin BundleOps => BundleSettled'
    BY <1>1, <1>2, <1>3, BundleKept DEF FilesSettled
<1>7. file # "cert" /\ h \notin CertOps => CertSettled'
    BY <1>1, <1>2, <1>3, CertKept DEF FilesSettled
<1>8. ~expired /\ file \notin {"key", "cert"} /\ h \notin KeyOps \cup CertOps => PairSettled'
    BY <1>1, <1>2, <1>3, PairKept DEF FilesSettled
<1> QED
    BY <1>4, <1>5, <1>6, <1>7, <1>8

\* A maker that is not the one at work has nothing to do.
LEMMA OtherMakers ==
    ASSUME NEW j \in Makers, NEW h, NEW a, Went(j, h, a)
    PROVE  \A k \in Makers : k # j => \A act : ~Plans(k, act)'
BY DEF Went, Makers, Jobs, Crons

\* The key's file is written, the certificate is to follow.
LEMMA WritesKeySettles ==
    ASSUME CertInv, NEW j \in Jobs, j # "shutdown", Rests(j, "write key", "key", value[j]), FilesSettled
    PROVE  FilesSettled'
<1>1. Went(j, "write key", <<>>)
    BY DEF Rests
<1>2. CaSettled' /\ CrlSettled' /\ BundleSettled'
    <2>1. "key" \in CertFiles /\ "write key" \notin CaOps /\ "write key" \notin CrlOps /\ "write key" \notin BundleOps
        BY DEF CertFiles, CaOps, CrlOps, BundleOps
    <2> QED
        BY <2>1, RestsKeep
<1>3. Plans(j, "csr")'
    BY <1>1 DEF Went, Later
<1>4. CertSettled'
    BY <1>3 DEF CertSettled, CertOps
<1>5. ASSUME ~expired'
      PROVE  PairSettled'
    <2>1. ~expired /\ memory' = memory
        BY <1>5 DEF Rests
    <2>2. j \in Makers /\ Plans(j, "write key")
        BY <1>1, WhoDoes DEF Went, KeyOps
    <2>3. value[j] = memory.key /\ memory.key # 0
        BY <2>1, <2>2 DEF FilesSettled, PairSettled
    <2>4. disk'.key = value[j]
        BY DEF Rests, CertInv, CertShape
    <2>5. ~Plans(j, "write key")' /\ ~Plans(j, "sign")' /\ ~Plans(j, "write cert")'
        BY <1>1, NoOperation DEF Went, UsesValue
    <2>6. \A k \in Makers : k # j => \A act : ~Plans(k, act)'
        BY <1>1, <2>2, OtherMakers
    <2>7. ~(\A k \in Makers, act \in KeyOps \cup CertOps : ~Plans(k, act)')
        BY <1>3, <2>2 DEF CertOps
    <2> QED
        BY <2>1, <2>3, <2>4, <2>5, <2>6, <2>7 DEF PairSettled
<1> QED
    BY <1>2, <1>4, <1>5 DEF FilesSettled

\* The certificate's file is written, for the key of the key's file.
LEMMA WritesCertSettles ==
    ASSUME CertInv, NEW j \in Jobs, j # "shutdown", Rests(j, "write cert", "cert", value[j]), FilesSettled
    PROVE  FilesSettled'
<1>1. Went(j, "write cert", <<>>)
    BY DEF Rests
<1>2. CaSettled' /\ CrlSettled' /\ BundleSettled'
    <2>1. "cert" \in CertFiles /\ "write cert" \notin CaOps /\ "write cert" \notin CrlOps /\ "write cert" \notin BundleOps
        BY DEF CertFiles, CaOps, CrlOps, BundleOps
    <2> QED
        BY <2>1, RestsKeep
<1>3. disk'.cert = value[j] /\ disk'.key = disk.key /\ memory' = memory /\ keyOf' = keyOf
    BY DEF Rests, CertInv, CertShape
<1>4. CertSettled'
    <2>1. value[j] \in 1..Len(keyOf)
        BY <1>1, ValuesParts DEF CertInv, Fetched, Went
    <2>2. disk'.cert # 0
        <3>1. Len(keyOf) \in Nat
            BY ShapeNumbers DEF CertInv
        <3>3. value[j] # 0
            BY <2>1, <3>1, Positive
        <3> QED
            BY <1>3, <3>3
    <2> QED
        BY <2>2 DEF CertSettled
<1>5. ASSUME ~expired'
      PROVE  PairSettled'
    <2>1. ~expired
        BY <1>5 DEF Rests
    <2>2. j \in Makers /\ Plans(j, "write cert")
        BY <1>1, <2>1, WhoDoes DEF Went, CertOps
    <2>3. Matches(value[j]) /\ disk.key = memory.key
        BY <2>1, <2>2 DEF FilesSettled, PairSettled
    <2>4. Matches(disk.cert)' /\ disk'.key = memory'.key
        BY <1>3, <2>3 DEF Matches
    <2>5. /\ ~Plans(j, "write key")' /\ ~Plans(j, "sign")' /\ ~Plans(j, "write cert")'
          /\ ~Plans(j, "key")' /\ ~Plans(j, "csr")'
        BY <1>1, NoOperation DEF Went, UsesValue, Clash
    <2>6. \A k \in Makers : k # j => \A act : ~Plans(k, act)'
        BY <1>1, <2>2, OtherMakers
    <2> QED
        BY <2>4, <2>5, <2>6 DEF PairSettled
<1> QED
    BY <1>2, <1>4, <1>5 DEF FilesSettled

\* The files of the CA, of the bundle and of the CRL.
LEMMA WritesRestSettles ==
    ASSUME CertInv, NEW j \in Jobs, j # "shutdown", FilesSettled, NEW file \in {"ca", "bundle", "crl"},
           Rests(j, Written[file], file, value[j])
    PROVE  FilesSettled'
<1> DEFINE h == Written[file]
<1>1. Went(j, h, <<>>) /\ memory' = memory /\ value' = value /\ expired' = expired
    BY DEF Rests
<1>2. file \in CertFiles /\ h \notin KeyOps \cup CertOps /\ h = Written[file]
    BY OperationNames DEF CertFiles, KeyOps, CertOps
<1>3. disk'[file] = value[j]
    BY <1>2 DEF Rests, CertInv, CertShape, CertFiles
<1>4. /\ \A act : act # h => (Plans(j, act)' <=> Plans(j, act))
      /\ \A k \in Jobs : k # j => \A act : Plans(k, act)' <=> Plans(k, act)
      /\ Plans(j, h)
    BY <1>1, NoOperation DEF Went
<1>5. /\ file # "ca" => h \notin CaOps
      /\ file # "crl" => h \notin CrlOps
      /\ file # "bundle" => h \notin BundleOps
    BY OperationNames DEF CaOps, CrlOps, BundleOps
<1> HIDE DEF h
<1>6. CertSettled' /\ (~expired' => PairSettled')
    BY <1>1, <1>2, RestsKeep
<1>7. (file # "ca" => CaSettled') /\ (file # "crl" => CrlSettled') /\ (file # "bundle" => BundleSettled')
    BY <1>2, <1>5, RestsKeep
<1>8. ASSUME file = "ca"
      PROVE  CaSettled'
    <2>1. h = "write ca" /\ disk'.ca = value[j]
        BY <1>2, <1>3, <1>8 DEF Written
    <2>2. \A k \in Jobs : /\ Plans(k, "ca")' <=> Plans(k, "ca")
                          /\ Plans(k, "write ca")' => Plans(k, "write ca")
        BY <1>1, <1>4, <2>1, NoOperation DEF Went, UsesValue
    <2> QED
        BY <1>1, <1>4, <2>1, <2>2 DEF FilesSettled, CaSettled, WillFetchCa
<1>9. ASSUME file = "crl"
      PROVE  CrlSettled'
    <2>1. h = "write crl" /\ disk'.crl = value[j]
        BY <1>2, <1>3, <1>9 DEF Written
    <2>2. \A k \in Jobs : /\ Plans(k, "crl")' <=> Plans(k, "crl")
                          /\ Plans(k, "write crl")' => Plans(k, "write crl")
        BY <1>1, <1>4, <2>1, NoOperation DEF Went, UsesValue
    <2>3. Plans("init", "crl")' <=> Plans("init", "crl")
        BY <2>2 DEF Jobs
    <2> QED
        BY <1>1, <1>4, <2>1, <2>2, <2>3 DEF FilesSettled, CrlSettled
<1>10. ASSUME file = "bundle"
       PROVE  BundleSettled'
    <2>1. h = "write bundle" /\ disk'.bundle = value[j]
        BY <1>2, <1>3, <1>10 DEF Written
    <2>2. value[j] # 0
        BY <1>4, <2>1, ValuesParts DEF CertInv, Fetched
    <2> QED
        BY <2>1, <2>2 DEF BundleSettled
<1> QED
    BY <1>6, <1>7, <1>8, <1>9, <1>10 DEF FilesSettled

\* A file is written.
LEMMA WritesFileInv ==
    ASSUME CertInv, NEW j \in Jobs, NEW file \in CertFiles, WritesFile(j, file)
    PROVE  CertInv'
<1> DEFINE h == Written[file]
<1>1. h \notin UnlinkOps \cup {"exit"}
    BY OperationNames DEF UnlinkOps, CertFiles
<1>2. j # "shutdown"
    BY <1>1, NotTheEnd DEF WritesFile
<1>3. value[j] \in Nat
    BY ShapeParts DEF CertInv
<1>4. Rests(j, h, file, value[j]) /\ CertShape' /\ JobsInv' /\ InitAlone' /\ EndInv' /\ ValuesInv'
    BY <1>1, <1>2, <1>3, RestsInv DEF WritesFile
<1>5. CalmInv'
    <2> SUFFICES ASSUME Calm'
                 PROVE  FilesSettled'
        BY DEF CalmInv, FilesSettled
    <2>1. FilesSettled
        BY <1>4, WasSettled DEF Rests
    <2>2. CASE file = "key"
        BY <1>2, <1>4, <2>1, <2>2, WritesKeySettles DEF Written
    <2>3. CASE file = "cert"
        BY <1>2, <1>4, <2>1, <2>3, WritesCertSettles DEF Written
    <2>4. CASE file \in {"ca", "bundle", "crl"}
        BY <1>2, <1>4, <2>1, <2>4, WritesRestSettles
    <2> QED
        BY <2>2, <2>3, <2>4 DEF CertFiles
<1> QED
    BY <1>4, <1>5 DEF CertInv

\* A file that expiry takes away is made again: the CA's by this job, the certificate's too.
LEMMA UnlinksForExpiry ==
    ASSUME CertInv, NEW j \in Jobs, NEW file \in CertFiles, Unlinks(j, file), j # "shutdown"
    PROVE  CertInv'
<1> DEFINE h == Unlinked[file]
<1>1. h \in UnlinkOps /\ h # "exit"
    BY OperationNames DEF UnlinkOps, CertFiles
<1>2. Rests(j, h, file, 0) /\ CertShape' /\ JobsInv' /\ InitAlone' /\ EndInv' /\ ValuesInv'
    BY <1>1, RestsInv DEF Unlinks
<1>3. /\ Went(j, h, <<>>)
      /\ h \in {"unlink key", "unlink cert"} => expired /\ expired'
      /\ h \notin {"unlink bundle", "unlink crl"}
    BY <1>2, WhoDoes DEF Went, Rests
<1>4. file \in {"key", "cert", "ca"}
    BY <1>3, OperationNames DEF CertFiles
<1>5. h \notin KeyOps /\ h \notin CertOps /\ h \notin CaOps /\ h \notin CrlOps /\ h \notin BundleOps
    BY <1>1 DEF UnlinkOps, KeyOps, CertOps, CaOps, CrlOps, BundleOps
<1>6. h = Unlinked[file]
    OBVIOUS
<1> HIDE DEF h
<1>7. CalmInv'
    <2> SUFFICES ASSUME Calm'
                 PROVE  FilesSettled'
        BY DEF CalmInv, FilesSettled
    <2>1. FilesSettled
        BY <1>2, WasSettled DEF Rests
    <2>2. /\ file # "ca" => CaSettled'
          /\ file # "crl" => CrlSettled'
          /\ file # "bundle" => BundleSettled'
          /\ file # "cert" => CertSettled'
          /\ ~expired /\ file \notin {"key", "cert"} => PairSettled'
        BY <1>2, <1>5, <2>1, RestsKeep
    <2>3. CASE file = "key"
        BY <1>3, <1>6, <2>2, <2>3, OperationNames DEF FilesSettled
    <2>4. CASE file = "cert"
        <3>1. h = "unlink cert"
            BY <1>6, <2>4, OperationNames
        <3>2. Plans(j, "csr")'
            BY <1>3, <3>1 DEF Went, Later
        <3>3. CertSettled'
            BY <3>2 DEF CertSettled, CertOps
        <3> QED
            BY <1>3, <2>2, <2>4, <3>1, <3>3 DEF FilesSettled
    <2>5. CASE file = "ca"
        <3>1. h = "unlink ca"
            BY <1>6, <2>5, OperationNames
        <3>2. Plans(j, "ca")'
            BY <1>3, <3>1 DEF Went, Later
        <3>3. \A k \in Jobs : Plans(k, "write ca")' => Plans(k, "write ca")
            BY <1>3, NoOperation DEF Went, UsesValue
        <3>4. CaSettled'
            BY <2>1, <3>2, <3>3 DEF CaSettled, FilesSettled, WillFetchCa
        <3>5. expired' = expired
            BY <1>2 DEF Rests
        <3> QED
            BY <2>2, <2>5, <3>4, <3>5 DEF FilesSettled
    <2> QED
        BY <1>4, <2>3, <2>4, <2>5
<1> QED
    BY <1>2, <1>7 DEF CertInv

\* The sequence that the end goes on with.
LEMMA TailOfEnd ==
    ASSUME NEW s \in Seq(Operations), s # <<>>, EndRules(s)
    PROVE  /\ Tail(s) \in Seq(Operations) /\ EndRules(Tail(s))
           /\ \A act : Has(s, act) <=> act = Head(s) \/ Has(Tail(s), act)
           /\ \A act : Has(Tail(s), act) =>
                  act # Head(s) /\ Head(s) # "exit" /\ (Head(s) = "unlink key" => act = "exit")
<1>1. /\ Tail(s) \in Seq(Operations) /\ Len(Tail(s)) \in Nat /\ Len(s) = Len(Tail(s)) + 1 /\ Head(s) = s[1]
      /\ \A i \in 1..Len(Tail(s)) : Tail(s)[i] = s[i + 1]
      /\ DOMAIN s = 1..Len(s) /\ DOMAIN Tail(s) = 1..Len(Tail(s))
    OBVIOUS
<1>2. \A i \in DOMAIN Tail(s) : i \in Nat /\ i + 1 \in DOMAIN s /\ 1 < i + 1 /\ 1 \in DOMAIN s /\ Tail(s)[i] = s[i + 1]
    BY <1>1
<1>3. ASSUME NEW i \in DOMAIN Tail(s), NEW k \in DOMAIN Tail(s), i < k
      PROVE  /\ Tail(s)[i] # Tail(s)[k] /\ Tail(s)[i] # "exit"
             /\ Tail(s)[i] = "unlink key" => Tail(s)[k] = "exit"
    <2>1. i + 1 < k + 1
        BY <1>2, <1>3
    <2> QED
        BY <1>2, <2>1 DEF EndRules
<1>4. EndRules(Tail(s))
    BY <1>3 DEF EndRules
<1>5. << >> \in Seq(Operations)
    OBVIOUS
<1>6. \A act : Has(s, act) <=> act = Head(s) \/ Has(Tail(s), act)
    BY <1>5, HasParts
<1>7. ASSUME NEW act, Has(Tail(s), act)
      PROVE  act # Head(s) /\ Head(s) # "exit" /\ (Head(s) = "unlink key" => act = "exit")
    <2>1. PICK i \in DOMAIN Tail(s) : Tail(s)[i] = act
        BY <1>7 DEF Has
    <2>2. 1 \in DOMAIN s /\ i + 1 \in DOMAIN s /\ 1 < i + 1 /\ s[i + 1] = act /\ s[1] = Head(s)
        BY <1>1, <1>2, <2>1
    <2>3. s[1] # s[i + 1] /\ s[1] # "exit" /\ (s[1] = "unlink key" => s[i + 1] = "exit")
        BY <2>2 DEF EndRules
    <2> QED
        BY <2>2, <2>3
<1> QED
    BY <1>1, <1>4, <1>6, <1>7

\* The end has begun, so that the calm is over.
EndsOn(s) ==
    /\ s \in Seq(Operations) /\ Has(s, "exit")
    /\ todo' = [todo EXCEPT !["shutdown"] = s]
    /\ \A act : Has(s, act) => act \in UnlinkOps \cup {"exit"}

LEMMA EndsOnInv ==
    ASSUME CertInv, NEW s, EndsOn(s), expired' = expired,
           UNCHANGED <<memory, keyOf, keys, value>>
    PROVE  /\ todo' \in [Jobs -> Seq(Operations)] /\ JobsInv' /\ InitAlone' /\ ValuesInv' /\ CalmInv'
           /\ todo'["shutdown"] = s /\ s # <<>>
           /\ \A k \in Jobs : k # "shutdown" => todo'[k] = todo[k]
<1>1. todo \in [Jobs -> Seq(Operations)] /\ JobsInv /\ InitAlone /\ ValuesInv /\ "shutdown" \in Jobs /\ "init" \in Jobs
    BY DEF CertInv, CertShape, Jobs
<1>2. /\ todo' \in [Jobs -> Seq(Operations)] /\ todo'["shutdown"] = s
      /\ \A k \in Jobs : k # "shutdown" => todo'[k] = todo[k]
    BY <1>1 DEF EndsOn
<1>3. \A k \in Jobs : k # "shutdown" => \A act : Plans(k, act)' <=> Plans(k, act)
    BY <1>2 DEF Plans
<1>4. \A k \in Jobs : k = "shutdown" => \A act : Plans(k, act)' => act \in UnlinkOps \cup {"exit"}
    BY <1>2 DEF Plans, EndsOn
<1>5. s # <<>>
    BY NoOperation DEF EndsOn
<1>6. JobsInv'
    <2>1. \A k \in Jobs : k # "shutdown" => Rules(todo'[k])
        BY <1>1, <1>2 DEF JobsInv
    <2>2. ASSUME NEW k \in Jobs, k # "shutdown", NEW act, Plans(k, act)'
          PROVE  act \in OpsOf(k)'
        <3>1. act \in OpsOf(k)
            BY <1>1, <1>3, <2>2 DEF JobsInv
        <3>2. OpsOf(k)' = OpsOf(k)
            BY DEF OpsOf
        <3> QED
            BY <3>1, <3>2
    <2>3. \A k \in Jobs : k = "shutdown" => \A act : Plans(k, act)' => act \in OpsOf(k)'
        BY <1>4 DEF OpsOf
    <2> QED
        BY <2>1, <2>2, <2>3 DEF JobsInv
<1>7. InitAlone'
    BY <1>1, <1>2 DEF InitAlone, Jobs, Crons
<1>8. ValuesInv'
    <2>1. PairBounds' /\ \A k \in Jobs : Fetched(k)
        BY <1>1, ValuesParts DEF PairBounds
    <2>2. ASSUME NEW k \in Jobs
          PROVE  Fetched(k)'
        <3>1. CASE k = "shutdown"
            <4>1. \A act \in UsesValue : act \notin UnlinkOps \cup {"exit"}
                BY DEF UnlinkOps, UsesValue
            <4>2. \A act \in UsesValue : ~Plans(k, act)'
                BY <1>4, <2>2, <3>1, <4>1
            <4> QED
                BY <4>2 DEF Fetched, UsesValue
        <3>2. CASE k # "shutdown"
            BY <1>3, <2>1, <3>2 DEF Fetched
        <3> QED
            BY <3>1, <3>2
    <2> QED
        BY <2>1, <2>2 DEF ValuesInv, PairBounds, Fetched
<1>9. CalmInv'
    BY <1>2, <1>5 DEF CalmInv, Calm
<1> QED
    BY <1>2, <1>5, <1>6, <1>7, <1>8, <1>9

\* A file is unlinked at the end.
LEMMA UnlinksAtEnd ==
    ASSUME CertInv, NEW file \in CertFiles, Unlinks("shutdown", file)
    PROVE  CertInv'
<1> DEFINE s == todo["shutdown"]
           h == Unlinked[file]
<1>1. CertShape /\ JobsInv /\ InitAlone /\ EndInv /\ "shutdown" \in Jobs /\ "init" \in Jobs
    BY DEF CertInv, Jobs
<1>2. /\ running /\ s # <<>> /\ Head(s) = h /\ todo' = [todo EXCEPT !["shutdown"] = <<>> \o Tail(s)]
      /\ disk' = [disk EXCEPT ![file] = 0]
      /\ UNCHANGED <<deletes, authority, running, memory, keyOf, keys, value, ticks, certFaults, expired, ragged>>
    BY DEF Unlinks, Doing, Continues, certWorld, pairVars, boundVars
<1>3. s \in Seq(Operations) /\ EndRules(s) /\ Has(s, "exit")
    BY <1>1, <1>2 DEF CertShape, EndInv, Plans
<1>4. h \in UnlinkOps /\ h # "exit"
    BY OperationNames DEF UnlinkOps, CertFiles
<1>5. \A act : Has(s, act) => act \in UnlinkOps \cup {"exit"}
    BY <1>1 DEF JobsInv, OpsOf, Plans
<1>6. /\ Tail(s) \in Seq(Operations) /\ EndRules(Tail(s))
      /\ \A act : Has(s, act) <=> act = h \/ Has(Tail(s), act)
      /\ \A act : Has(Tail(s), act) => act # h
    BY <1>2, <1>3, TailOfEnd
<1>7. <<>> \o Tail(s) = Tail(s)
    BY <1>6
<1>8. EndsOn(Tail(s))
    BY <1>2, <1>3, <1>4, <1>5, <1>6, <1>7 DEF EndsOn
<1>10. /\ todo' \in [Jobs -> Seq(Operations)] /\ JobsInv' /\ InitAlone' /\ ValuesInv' /\ CalmInv'
       /\ todo'["shutdown"] = Tail(s) /\ Tail(s) # <<>>
       /\ \A k \in Jobs : k # "shutdown" => todo'[k] = todo[k]
    BY <1>2, <1>8, EndsOnInv
<1>11. CertShape'
    <2>1. disk' \in [key : Nat, cert : Nat, ca : Nat, bundle : Nat, crl : Nat]
        BY <1>1, <1>2, ShapeParts DEF CertFiles
    <2> QED
        BY <1>1, <1>2, <1>10, <2>1 DEF CertShape
<1>12. \A f \in CertFiles : disk'[f] = IF f = file THEN 0 ELSE disk[f]
    BY <1>1, <1>2 DEF CertShape, CertFiles
<1>13. \A act : Plans("shutdown", act)' <=> Has(Tail(s), act)
    BY <1>10 DEF Plans
<1>14. \A act : Plans("shutdown", act) <=> act = h \/ Has(Tail(s), act)
    BY <1>6 DEF Plans
<1>15. \A f \in CertFiles : f # file => Unlinked[f] # h
    BY OperationNames DEF CertFiles
<1>16. EndInv'
    <2>1. Plans("shutdown", "exit")' /\ EndRules(todo'["shutdown"]) /\ running'
        BY <1>2, <1>3, <1>4, <1>6, <1>10, <1>13
    <2>2. ASSUME ~ragged'
          PROVE  /\ \A k \in Jobs : k # "shutdown" => todo'[k] = <<>>
                 /\ deletes' => \A f \in CertFiles : disk'[f] = 0 \/ Plans("shutdown", Unlinked[f])'
                 /\ \A f \in CertFiles \ {"key"} : Plans("shutdown", Unlinked[f])' => disk'[f] # 0
        <3>1. /\ \A k \in Jobs : k # "shutdown" => todo[k] = <<>>
              /\ deletes => \A f \in CertFiles : disk[f] = 0 \/ Plans("shutdown", Unlinked[f])
              /\ \A f \in CertFiles \ {"key"} : Plans("shutdown", Unlinked[f]) => disk[f] # 0
            BY <1>1, <1>2, <2>2 DEF EndInv
        <3>2. \A k \in Jobs : k # "shutdown" => todo'[k] = <<>>
            BY <1>10, <3>1
        <3>3. ASSUME deletes', NEW f \in CertFiles, f # file
              PROVE  disk'[f] = 0 \/ Plans("shutdown", Unlinked[f])'
            BY <1>2, <1>12, <1>13, <1>14, <1>15, <3>1, <3>3
        <3>4. ASSUME NEW f \in CertFiles \ {"key"}, Plans("shutdown", Unlinked[f])'
              PROVE  disk'[f] # 0
            <4>1. Has(Tail(s), Unlinked[f])
                BY <1>13, <3>4
            <4>2. f # file
                BY <1>6, <4>1
            <4> QED
                BY <1>12, <1>14, <3>1, <4>1, <4>2
        <3> QED
            BY <1>12, <3>2, <3>3, <3>4
    <2> QED
        BY <2>1, <2>2 DEF EndInv
<1> QED
    BY <1>10, <1>11, <1>16 DEF CertInv

\* Sequences of one, two and three operations.
LEMMA Exit ==
    /\ <<"exit">> \in Seq(Operations) /\ Has(<<"exit">>, "exit") /\ EndRules(<<"exit">>)
    /\ \A act : Has(<<"exit">>, act) => act = "exit"
<1>1. "exit" \in Operations
    BY DEF Operations
<1>2. DOMAIN <<"exit">> = {1} /\ <<"exit">>[1] = "exit"
    OBVIOUS
<1>3. <<"exit">> \in Seq(Operations)
    BY <1>1
<1>4. EndRules(<<"exit">>)
    <2>1. \A i, k \in {1} : ~(i < k)
        OBVIOUS
    <2> QED
        BY <1>2, <2>1 DEF EndRules
<1>5. Has(<<"exit">>, "exit") /\ \A act : Has(<<"exit">>, act) => act = "exit"
    BY <1>2 DEF Has
<1> QED
    BY <1>3, <1>4, <1>5

\* What the end does.
LEMMA EndProgram ==
    /\ Program("shutdown") \in Seq(Operations) /\ EndRules(Program("shutdown")) /\ Has(Program("shutdown"), "exit")
    /\ \A act : Has(Program("shutdown"), act) <=> act = "exit" \/ (deletes /\ act \in UnlinkOps)
<1>1. CASE ~deletes
    <2>1. Program("shutdown") = <<"exit">>
        BY <1>1 DEF Program
    <2> QED
        BY <1>1, <2>1, Exit
<1>2. CASE deletes
    <2> DEFINE s == <<"unlink crl", "unlink ca", "unlink bundle", "unlink cert", "unlink key", "exit">>
    <2>1. Program("shutdown") = s
        BY <1>2 DEF Program
    <2>2. /\ s[1] = "unlink crl" /\ s[2] = "unlink ca" /\ s[3] = "unlink bundle"
          /\ s[4] = "unlink cert" /\ s[5] = "unlink key" /\ s[6] = "exit"
        OBVIOUS
    <2>3. DOMAIN s = 1..6
        OBVIOUS
    <2>4. s \in Seq(Operations)
        <3>1. /\ "unlink crl" \in Operations /\ "unlink ca" \in Operations /\ "unlink bundle" \in Operations
              /\ "unlink cert" \in Operations /\ "unlink key" \in Operations /\ "exit" \in Operations
            BY DEF Operations, UnlinkOps
        <3>2. \A i \in 1..6 : s[i] \in Operations
            <4>1. \A i \in 1..6 : i = 1 \/ i = 2 \/ i = 3 \/ i = 4 \/ i = 5 \/ i = 6
                OBVIOUS
            <4> HIDE DEF s
            <4> QED
                BY <2>2, <3>1, <4>1
        <3>3. s = [i \in 1..6 |-> s[i]]
            OBVIOUS
        <3> HIDE DEF s
        <3>4. s \in [1..6 -> Operations]
            BY <2>3, <3>2, <3>3
        <3> QED
            BY <3>4, SeqDef
    <2> HIDE DEF s
    <2>5. EndRules(s)
        <3> SUFFICES ASSUME NEW i \in 1..6, NEW k \in 1..6, i < k
                     PROVE  s[i] # s[k] /\ s[i] # "exit" /\ (s[i] = "unlink key" => s[k] = "exit")
            BY <2>3 DEF EndRules
        <3>1. i = 1 \/ i = 2 \/ i = 3 \/ i = 4 \/ i = 5
            OBVIOUS
        <3>2. k = 2 \/ k = 3 \/ k = 4 \/ k = 5 \/ k = 6
            OBVIOUS
        <3>3. CASE i = 1
            BY <2>2, <3>2, <3>3
        <3>4. CASE i = 2
            <4>1. k # 2
                BY <3>4
            <4> QED
                BY <2>2, <3>2, <3>4, <4>1
        <3>5. CASE i = 3
            <4>1. k # 2 /\ k # 3
                BY <3>5
            <4> QED
                BY <2>2, <3>2, <3>5, <4>1
        <3>6. CASE i = 4
            <4>1. k = 5 \/ k = 6
                BY <3>6
            <4> QED
                BY <2>2, <3>6, <4>1
        <3>7. CASE i = 5
            <4>1. k = 6
                BY <3>7
            <4> QED
                BY <2>2, <3>7, <4>1
        <3> QED
            BY <3>1, <3>3, <3>4, <3>5, <3>6, <3>7
    <2>6. ASSUME NEW act
          PROVE  Has(s, act) <=> act \in UnlinkOps \/ act = "exit"
        <3>1. Has(s, act) <=> \E i \in 1..6 : s[i] = act
            BY <2>3 DEF Has
        <3>2. \A i \in 1..6 : i = 1 \/ i = 2 \/ i = 3 \/ i = 4 \/ i = 5 \/ i = 6
            OBVIOUS
        <3>3. ASSUME NEW i \in 1..6, s[i] = act
              PROVE  act \in UnlinkOps \/ act = "exit"
            BY <2>2, <3>2, <3>3 DEF UnlinkOps
        <3>4. 1 \in 1..6 /\ 2 \in 1..6 /\ 3 \in 1..6 /\ 4 \in 1..6 /\ 5 \in 1..6 /\ 6 \in 1..6
            OBVIOUS
        <3>5. ASSUME act \in UnlinkOps \/ act = "exit"
              PROVE  \E i \in 1..6 : s[i] = act
            BY <2>2, <3>4, <3>5 DEF UnlinkOps
        <3> QED
            BY <3>1, <3>3, <3>5
    <2> QED
        BY <1>2, <2>1, <2>4, <2>5, <2>6
<1>3. deletes \/ ~deletes
    OBVIOUS
<1> QED
    BY <1>1, <1>2, <1>3

\* A failure at the end leaves the exit alone.  Of an end that was at rest, only the key's file may be missing.
LEMMA FailsAtEnd ==
    ASSUME CertInv, CertFails("shutdown")
    PROVE  CertInv'
<1> DEFINE s == todo["shutdown"]
<1>1. CertShape /\ JobsInv /\ InitAlone /\ EndInv /\ "shutdown" \in Jobs /\ "init" \in Jobs
    BY DEF CertInv, Jobs
<1>2. /\ running /\ s # <<>> /\ todo' = [todo EXCEPT !["shutdown"] = <<"exit">>]
      /\ (certFaults' = certFaults \/ certFaults' = certFaults + 1)
      /\ ragged' = (ragged \/ ~Hopeless("shutdown"))
      /\ UNCHANGED <<deletes, authority, running, memory, disk, keyOf, keys, value, ticks, expired>>
    BY DEF CertFails, certWorld, pairVars
<1>3. s \in Seq(Operations) /\ EndRules(s)
    BY <1>1, <1>2 DEF CertShape, EndInv
<1>4. EndsOn(<<"exit">>)
    BY <1>2, Exit DEF EndsOn
<1>5. /\ todo' \in [Jobs -> Seq(Operations)] /\ JobsInv' /\ InitAlone' /\ ValuesInv' /\ CalmInv'
      /\ todo'["shutdown"] = <<"exit">> /\ <<"exit">> # <<>>
      /\ \A k \in Jobs : k # "shutdown" => todo'[k] = todo[k]
    BY <1>2, <1>4, EndsOnInv
<1>6. CertShape'
    <2>1. certFaults' \in Nat
        <3>1. certFaults \in Nat
            BY <1>1, ShapeParts
        <3> QED
            BY <1>2, <3>1
    <2>2. ragged' \in BOOLEAN
        BY <1>1, <1>2 DEF CertShape
    <2> QED
        BY <1>1, <1>2, <1>5, <2>1, <2>2 DEF CertShape
<1>7. Plans("shutdown", "exit")' /\ EndRules(todo'["shutdown"]) /\ \A act : Plans("shutdown", act)' => act = "exit"
    BY <1>5, Exit DEF Plans
<1>8. ASSUME ~ragged'
      PROVE  /\ \A k \in Jobs : k # "shutdown" => todo'[k] = <<>>
             /\ deletes' => \A f \in CertFiles : disk'[f] = 0
    <2>1. ~ragged /\ Hopeless("shutdown")
        BY <1>2, <1>8
    <2>2. /\ \A k \in Jobs : k # "shutdown" => todo[k] = <<>>
          /\ deletes => \A f \in CertFiles : disk[f] = 0 \/ Plans("shutdown", Unlinked[f])
          /\ \A f \in CertFiles \ {"key"} : Plans("shutdown", Unlinked[f]) => disk[f] # 0
        BY <1>1, <1>2, <2>1 DEF EndInv
    <2>3. \A act : Has(s, act) => act \in UnlinkOps \cup {"exit"}
        BY <1>1 DEF JobsInv, OpsOf, Plans
    <2>4. \A act : Has(s, act) <=> act = Head(s) \/ Has(Tail(s), act)
        BY <1>2, <1>3, TailOfEnd
    <2>5. Head(s) \in UnlinkOps \cup {"exit"}
        BY <2>3, <2>4
    <2>6. PICK file \in DOMAIN disk : Head(s) = Unlinked[file] /\ disk[file] = 0
        BY <2>1, <2>5 DEF Hopeless, Doing, UnlinkOps
    <2>7. file \in CertFiles
        BY <1>1, <2>6 DEF CertShape, CertFiles
    <2>8. file = "key"
        BY <2>2, <2>4, <2>6, <2>7 DEF Plans
    <2>9. Head(s) = "unlink key"
        BY <2>6, <2>8, OperationNames
    <2>10. \A act : Has(s, act) => act = "unlink key" \/ act = "exit"
        BY <1>2, <1>3, <2>4, <2>9, TailOfEnd
    <2>11. ASSUME deletes, NEW f \in CertFiles
           PROVE  disk[f] = 0
        <3>1. CASE f = "key"
            BY <2>6, <2>8, <3>1
        <3>2. CASE f # "key"
            <4>1. Unlinked[f] # "unlink key" /\ Unlinked[f] # "exit"
                BY <3>2, OperationNames DEF CertFiles
            <4>2. ~Plans("shutdown", Unlinked[f])
                BY <2>10, <4>1 DEF Plans
            <4> QED
                BY <2>2, <2>11, <4>2
        <3> QED
            BY <3>1, <3>2
    <2> QED
        BY <1>2, <1>5, <2>2, <2>11
<1>9. \A f \in CertFiles : Unlinked[f] # "exit"
    BY OperationNames DEF CertFiles
<1>10. EndInv'
    BY <1>2, <1>7, <1>8, <1>9 DEF EndInv
<1> QED
    BY <1>5, <1>6, <1>10 DEF CertInv

\* A job that failed is over.
LEMMA EmptyRules == Rules(<<>>) /\ <<>> \in Seq(Operations)
BY DEF Rules

LEMMA FailedRules ==
    /\ <<"failed">> \in Seq(Operations) /\ Rules(<<"failed">>)
    /\ \A act : Has(<<"failed">>, act) => act = "failed"
<1>1. "failed" \in Operations
    BY DEF Operations
<1>2. <<"failed">> \in Seq(Operations) /\ DOMAIN <<"failed">> = {1} /\ <<"failed">>[1] = "failed"
    BY <1>1
<1>3. "failed" \notin UsesValue /\ \A y : ~Later("failed", y)
    BY DEF UsesValue, Later
<1>4. \A i, k \in {1} : ~(i < k)
    OBVIOUS
<1>5. Rules(<<"failed">>)
    BY <1>2, <1>3, <1>4 DEF Rules
<1> QED
    BY <1>2, <1>5 DEF Has

\* The start failed: the end begins, of a process that is ragged.
LEMMA FailsAtStart ==
    ASSUME CertInv, CertFails("init")
    PROVE  CertInv'
<1>1. CertShape /\ JobsInv /\ InitAlone /\ EndInv /\ ValuesInv /\ "shutdown" \in Jobs /\ "init" \in Jobs
    BY DEF CertInv, Jobs
<1>2. /\ running /\ todo["init"] # <<>> /\ todo' = [todo EXCEPT !["init"] = <<"failed">>, !["shutdown"] = Program("shutdown")]
      /\ (certFaults' = certFaults \/ certFaults' = certFaults + 1) /\ ragged'
      /\ UNCHANGED <<deletes, authority, running, memory, disk, keyOf, keys, value, ticks, expired>>
    BY DEF CertFails, certWorld, pairVars
<1>3. /\ todo' \in [Jobs -> Seq(Operations)] /\ todo'["init"] = <<"failed">> /\ todo'["shutdown"] = Program("shutdown")
      /\ \A k \in Jobs : k # "init" /\ k # "shutdown" => todo'[k] = <<>>
    <2>1. \A k \in Jobs : k # "init" /\ k # "shutdown" => todo[k] = <<>>
        BY <1>1, <1>2 DEF InitAlone, Jobs
    <2>2. todo \in [Jobs -> Seq(Operations)] /\ Program("shutdown") \in Seq(Operations) /\ <<"failed">> \in Seq(Operations)
        BY <1>1, EndProgram, FailedRules DEF CertShape
    <2> QED
        BY <1>1, <1>2, <2>1, <2>2
<1>4. \A k \in Jobs : k # "shutdown" => Rules(todo'[k])
    BY <1>3, EmptyRules, FailedRules
<1>5. \A k \in Jobs : k # "shutdown" => \A act : Plans(k, act)' => act = "failed" /\ k = "init"
    BY <1>3, NoOperation, FailedRules DEF Plans
<1>6. \A k \in Jobs : k = "shutdown" => \A act : Plans(k, act)' => act \in UnlinkOps \cup {"exit"}
    BY <1>3, EndProgram DEF Plans
<1>7. CertShape'
    <2>1. certFaults' \in Nat
        <3>1. certFaults \in Nat
            BY <1>1, ShapeParts
        <3> QED
            BY <1>2, <3>1
    <2>2. ragged' \in BOOLEAN
        BY <1>2
    <2> QED
        BY <1>1, <1>2, <1>3, <2>1, <2>2 DEF CertShape
<1>8. JobsInv'
    <2>1. \A k \in Jobs : k = "shutdown" => \A act : Plans(k, act)' => act \in OpsOf(k)'
        BY <1>6 DEF OpsOf
    <2>2. "failed" \in OpsOf("init")'
        BY DEF OpsOf
    <2> QED
        BY <1>4, <1>5, <2>1, <2>2 DEF JobsInv
<1>9. InitAlone'
    BY <1>3 DEF InitAlone, Jobs, Crons
<1>10. ValuesInv'
    <2>1. PairBounds'
        BY <1>1, <1>2, ValuesParts DEF PairBounds
    <2>2. \A act \in UsesValue : act \notin UnlinkOps \cup {"exit", "failed"}
        BY DEF UnlinkOps, UsesValue
    <2>3. \A k \in Jobs : \A act \in UsesValue : ~Plans(k, act)'
        BY <1>5, <1>6, <2>2
    <2>4. \A k \in Jobs : Fetched(k)'
        BY <2>3 DEF Fetched, UsesValue
    <2> QED
        BY <2>1, <2>4 DEF ValuesInv, PairBounds, Fetched
<1>11. CalmInv'
    BY <1>2 DEF CalmInv, Calm
<1>12. EndInv'
    <2>1. EndRules(todo'["shutdown"]) /\ Plans("shutdown", "exit")'
        BY <1>3, EndProgram DEF Plans
    <2> QED
        BY <1>2, <2>1 DEF EndInv
<1> QED
    BY <1>7, <1>8, <1>9, <1>10, <1>11, <1>12 DEF CertInv

\* A cron job failed.
LEMMA FailsOften ==
    ASSUME CertInv, NEW j \in Crons, CertFails(j)
    PROVE  CertInv'
<1>1. CertShape /\ JobsInv /\ InitAlone /\ EndInv /\ ValuesInv /\ "shutdown" \in Jobs /\ "init" \in Jobs
      /\ j \in Jobs /\ j # "shutdown" /\ j # "init"
    BY DEF CertInv, Jobs, Crons
<1>2. /\ running /\ todo[j] # <<>> /\ todo' = [todo EXCEPT ![j] = <<>>]
      /\ (certFaults' = certFaults \/ certFaults' = certFaults + 1) /\ ragged'
      /\ UNCHANGED <<deletes, authority, running, memory, disk, keyOf, keys, value, ticks, expired>>
    BY <1>1 DEF CertFails, certWorld, pairVars
<1>3. /\ todo' \in [Jobs -> Seq(Operations)] /\ todo'[j] = <<>>
      /\ \A k \in Jobs : k # j => todo'[k] = todo[k]
    BY <1>1, <1>2, EmptyRules DEF CertShape
<1>4. \A k \in Jobs : \A act : Plans(k, act)' => Plans(k, act)
    BY <1>3, NoOperation DEF Plans
<1>5. CertShape'
    <2>1. certFaults' \in Nat
        <3>1. certFaults \in Nat
            BY <1>1, ShapeParts
        <3> QED
            BY <1>2, <3>1
    <2>2. ragged' \in BOOLEAN
        BY <1>2
    <2> QED
        BY <1>1, <1>2, <1>3, <2>1, <2>2 DEF CertShape
<1>6. JobsInv'
    <2>1. \A k \in Jobs : OpsOf(k)' = OpsOf(k)
        BY <1>2 DEF OpsOf
    <2>2. \A k \in Jobs : k # "shutdown" => Rules(todo'[k])
        BY <1>1, <1>3, EmptyRules DEF JobsInv
    <2>3. ASSUME NEW k \in Jobs, NEW act, Plans(k, act)'
          PROVE  act \in OpsOf(k)'
        BY <1>1, <1>4, <2>1, <2>3 DEF JobsInv
    <2> QED
        BY <2>2, <2>3 DEF JobsInv
<1>7. InitAlone'
    BY <1>1, <1>2, <1>3 DEF InitAlone, Jobs
<1>8. ValuesInv'
    <2>1. UsedNext(j, "none")
        BY <1>2, <1>4 DEF UsedNext
    <2>2. FitsUse("none", value[j])'
        BY DEF FitsUse
    <2> QED
        BY <1>1, <1>2, <1>5, <2>1, <2>2, ValuesSame
<1>9. CalmInv'
    BY <1>2 DEF CalmInv, Calm
<1>10. EndInv'
    <2>1. todo'["shutdown"] = todo["shutdown"]
        BY <1>1, <1>3
    <2>2. Plans("shutdown", "exit")' <=> Plans("shutdown", "exit")
        BY <2>1 DEF Plans
    <2> QED
        BY <1>1, <1>2, <2>1, <2>2 DEF EndInv
<1> QED
    BY <1>5, <1>6, <1>7, <1>8, <1>9, <1>10 DEF CertInv

\* A cron job begins.
LEMMA CronPrograms ==
    ASSUME NEW j \in Crons
    PROVE  /\ Program(j) \in Seq(Operations) /\ Rules(Program(j))
           /\ \A act : Has(Program(j), act) => act \in OpsOf(j) /\ act \in {"crl", "bundle", "checkCa", "checkCert", "checkRevoked"}
           /\ \A act : Has(Program(j), act) /\ act = "bundle" => j = "bundle"
<1>1. /\ "crl" \in Operations /\ "bundle" \in Operations /\ "checkRevoked" \in Operations
      /\ "checkCa" \in Operations /\ "checkCert" \in Operations
    BY DEF Operations, CrlOps, BundleOps, CheckOps
<1>2. ASSUME NEW x \in {"crl", "bundle", "checkRevoked"}
      PROVE  <<x>> \in Seq(Operations) /\ Rules(<<x>>) /\ \A act : Has(<<x>>, act) <=> act = x
    <2>1. x \in Operations
        BY <1>1
    <2>2. <<x>> \in Seq(Operations) /\ \A act : Has(<<x>>, act) <=> act = x
        BY <2>1, Singles
    <2>3. DOMAIN <<x>> = {1} /\ <<x>>[1] = x /\ \A i, k \in {1} : ~(i < k)
        OBVIOUS
    <2>4. x \notin UsesValue /\ \A y : ~Later(x, y)
        BY DEF UsesValue, Later
    <2>5. Rules(<<x>>)
        BY <2>3, <2>4 DEF Rules
    <2> QED
        BY <2>2, <2>5
<1>3. CASE j = "crl"
    <2>1. Program(j) = <<"crl">>
        BY <1>3 DEF Program
    <2> QED
        BY <1>2, <1>3, <2>1 DEF OpsOf, CrlOps
<1>4. CASE j = "bundle"
    <2>1. Program(j) = <<"bundle">>
        BY <1>4 DEF Program
    <2> QED
        BY <1>2, <1>4, <2>1 DEF OpsOf, BundleOps
<1>5. CASE j = "revocation"
    <2>1. Program(j) = <<"checkRevoked">>
        BY <1>5 DEF Program
    <2> QED
        BY <1>2, <1>5, <2>1 DEF OpsOf
<1>6. CASE j = "expiry"
    <2> DEFINE s == <<"checkCa", "checkCert">>
    <2>1. Program(j) = s
        BY <1>6 DEF Program
    <2>2. s \in Seq(Operations) /\ DOMAIN s = {1, 2} /\ s[1] = "checkCa" /\ s[2] = "checkCert"
        BY <1>1
    <2> HIDE DEF s
    <2>3. /\ "checkCa" \notin UsesValue /\ "checkCert" \notin UsesValue
          /\ \A y : ~Later("checkCa", y) /\ ~Later("checkCert", y) /\ ~Clash("checkCa", y)
        BY DEF UsesValue, Later, Clash
    <2>4. \A i, k \in {1, 2} : i < k => i = 1
        OBVIOUS
    <2>5. \A act : Has(s, act) => act = "checkCa" \/ act = "checkCert"
        BY <2>2 DEF Has
    <2>6. Rules(s)
        BY <2>2, <2>3, <2>4 DEF Rules
    <2> QED
        BY <1>6, <2>1, <2>2, <2>5, <2>6 DEF OpsOf
<1> QED
    BY <1>3, <1>4, <1>5, <1>6 DEF Crons

LEMMA TicksInv ==
    ASSUME CertInv, NEW j \in Crons, Ticks(j)
    PROVE  CertInv'
<1>1. CertShape /\ JobsInv /\ InitAlone /\ EndInv /\ ValuesInv /\ CalmInv
      /\ j \in Jobs /\ j # "shutdown" /\ j # "init" /\ "shutdown" \in Jobs /\ "init" \in Jobs
    BY DEF CertInv, Jobs, Crons
<1>2. /\ running /\ todo["init"] = <<>> /\ todo[j] = <<>> /\ todo' = [todo EXCEPT ![j] = Program(j)]
      /\ ticks' = ticks + 1 /\ ragged' = (ragged \/ todo["shutdown"] # <<>>)
      /\ UNCHANGED <<deletes, authority, running, memory, disk, keyOf, keys, value, certFaults, expired>>
    BY DEF Ticks, Started, certWorld, pairVars
<1>3. /\ todo' \in [Jobs -> Seq(Operations)] /\ todo'[j] = Program(j)
      /\ \A k \in Jobs : k # j => todo'[k] = todo[k]
    BY <1>1, <1>2, CronPrograms DEF CertShape
<1>4. /\ \A k \in Jobs : k # j => \A act : Plans(k, act)' <=> Plans(k, act)
      /\ \A act : Plans(j, act)' => act \in OpsOf(j) /\ act \in {"crl", "bundle", "checkCa", "checkCert", "checkRevoked"}
      /\ \A act : ~Plans(j, act)
    <2>1. \A k \in Jobs : k # j => \A act : Plans(k, act)' <=> Plans(k, act)
        BY <1>3 DEF Plans
    <2>2. \A act : Has(Program(j), act) => act \in OpsOf(j) /\ act \in {"crl", "bundle", "checkCa", "checkCert", "checkRevoked"}
        BY CronPrograms
    <2>3. \A act : Plans(j, act)' => act \in OpsOf(j) /\ act \in {"crl", "bundle", "checkCa", "checkCert", "checkRevoked"}
        BY <1>3, <2>2 DEF Plans
    <2>4. \A act : ~Plans(j, act)
        BY <1>1, <1>2, IdlePlansNothing
    <2> QED
        BY <2>1, <2>3, <2>4
<1>5. CertShape'
    <2>1. ticks' \in Nat
        <3>1. ticks \in Nat
            BY <1>1, ShapeParts
        <3> QED
            BY <1>2, <3>1
    <2>2. ragged' \in BOOLEAN
        BY <1>1, <1>2 DEF CertShape
    <2> QED
        BY <1>1, <1>2, <1>3, <2>1, <2>2 DEF CertShape
<1>6. JobsInv'
    <2>1. \A k \in Jobs : OpsOf(k)' = OpsOf(k)
        BY <1>2 DEF OpsOf
    <2>2. \A k \in Jobs : k # "shutdown" => Rules(todo'[k])
        BY <1>1, <1>3, CronPrograms DEF JobsInv
    <2>3. ASSUME NEW k \in Jobs, NEW act, Plans(k, act)'
          PROVE  act \in OpsOf(k)'
        BY <1>1, <1>4, <2>1, <2>3 DEF JobsInv
    <2> QED
        BY <2>2, <2>3 DEF JobsInv
<1>7. InitAlone'
    BY <1>1, <1>2, <1>3 DEF InitAlone, Jobs
<1>8. \A k \in Jobs : \A act \in UsesValue : ~Plans(j, act)' /\ (Plans(k, act)' => Plans(k, act))
    BY <1>4 DEF UsesValue
<1>9. ValuesInv'
    <2>1. UsedNext(j, "none")
        BY <1>2, <1>8 DEF UsedNext
    <2>2. FitsUse("none", value[j])'
        BY DEF FitsUse
    <2> QED
        BY <1>1, <1>2, <1>5, <2>1, <2>2, ValuesSame
<1>10. todo'["shutdown"] = todo["shutdown"]
    BY <1>1, <1>3
<1>11. CalmInv'
    <2> SUFFICES ASSUME Calm'
                 PROVE  FilesSettled'
        BY DEF CalmInv, FilesSettled
    <2>1. FilesSettled
        BY <1>1, <1>2, <1>10 DEF CalmInv, FilesSettled, Calm
    <2>2. ASSUME NEW S, "crl" \notin S, "bundle" \notin S, "checkCa" \notin S, "checkCert" \notin S, "checkRevoked" \notin S
          PROVE  Same(S)
        BY <1>2, <1>4, <2>2 DEF Same
    <2>3. Same(CaOps) /\ Same({"write crl"}) /\ Same(CertOps) /\ Same(KeyOps \cup CertOps)
        <3>1. Same(CaOps)
            BY <2>2 DEF CaOps
        <3>2. Same({"write crl"})
            BY <2>2
        <3>3. Same(CertOps)
            BY <2>2 DEF CertOps
        <3>4. Same(KeyOps \cup CertOps)
            BY <2>2 DEF KeyOps, CertOps
        <3> QED
            BY <3>1, <3>2, <3>3, <3>4
    <2>4. \A act : Plans("init", act)' <=> Plans("init", act)
        BY <1>1, <1>4
    <2>5. CaSettled' /\ CrlSettled' /\ CertSettled'
        BY <1>2, <2>1, <2>3, <2>4, CaKept, CrlKept, CertKept DEF FilesSettled
    <2>6. BundleSettled'
        BY <1>2, <2>1, <2>4 DEF BundleSettled, FilesSettled
    <2>7. ~expired' => PairSettled'
        BY <1>2, <2>1, <2>3, PairKept DEF FilesSettled
    <2> QED
        BY <2>5, <2>6, <2>7 DEF FilesSettled
<1>12. EndInv'
    <2>1. Plans("shutdown", "exit")' <=> Plans("shutdown", "exit")
        BY <1>10 DEF Plans
    <2>2. ragged' \/ todo'["shutdown"] = <<>>
        BY <1>2, <1>10 DEF Ticks
    <2> QED
        BY <1>1, <1>2, <1>10, <2>1, <2>2 DEF EndInv
<1> QED
    BY <1>5, <1>6, <1>7, <1>9, <1>11, <1>12 DEF CertInv

\* What only moves the world leaves the rest.
LEMMA AuthorityChangesInv ==
    ASSUME CertInv, NEW field \in {"ca", "crl"}, AuthorityChanges(field)
    PROVE  CertInv'
<1>1. UNCHANGED <<deletes, running, memory, disk, keyOf, keys, todo, value, ticks, certFaults, expired, ragged>>
    BY DEF AuthorityChanges, pairVars, boundVars
<1>2. \A k \in Jobs : \A act : Plans(k, act)' <=> Plans(k, act)
    BY <1>1 DEF Plans
<1>3. CertShape'
    <2>1. CertShape
        BY DEF CertInv
    <2>2. authority' \in [ca : Nat \ {0}, crl : Nat \ {0}]
        BY <2>1, ShapeParts DEF AuthorityChanges
    <2> QED
        BY <1>1, <2>1, <2>2 DEF CertShape
<1>4. JobsInv' /\ InitAlone' /\ EndInv'
    BY <1>1 DEF CertInv, JobsInv, InitAlone, EndInv, Plans, OpsOf
<1>5. ValuesInv'
    BY <1>1 DEF CertInv, ValuesInv, Plans
<1>6. CalmInv'
    <2>1. CaSettled <=> CaSettled'
        BY <1>1 DEF CaSettled, WillFetchCa, Plans
    <2>2. CrlSettled <=> CrlSettled'
        BY <1>1 DEF CrlSettled, Plans
    <2>3. BundleSettled <=> BundleSettled'
        BY <1>1 DEF BundleSettled, Plans
    <2>4. CertSettled <=> CertSettled'
        BY <1>1 DEF CertSettled, Plans
    <2>5. PairSettled <=> PairSettled'
        BY <1>1 DEF PairSettled, Plans, Matches
    <2>6. Calm <=> Calm'
        BY <1>1 DEF Calm
    <2>7. expired' = expired /\ CalmInv
        BY <1>1 DEF CertInv
    <2> QED
        BY <2>1, <2>2, <2>3, <2>4, <2>5, <2>6, <2>7 DEF CalmInv
<1> QED
    BY <1>3, <1>4, <1>5, <1>6 DEF CertInv

\* Nothing changes.
LEMMA CertStutter ==
    ASSUME CertInv, UNCHANGED certVars
    PROVE  CertInv'
<1>1. UNCHANGED <<deletes, authority, running, memory, disk, keyOf, keys, todo, value, ticks, certFaults, expired, ragged>>
    BY DEF certVars, certWorld, pairVars, boundVars
<1>2. CertShape'
    BY <1>1 DEF CertInv, CertShape
<1>3. JobsInv' /\ InitAlone' /\ EndInv'
    BY <1>1 DEF CertInv, JobsInv, InitAlone, EndInv, Plans, OpsOf
<1>4. ValuesInv'
    BY <1>1 DEF CertInv, ValuesInv, Plans
<1>5. CalmInv'
    <2>1. CaSettled <=> CaSettled'
        BY <1>1 DEF CaSettled, WillFetchCa, Plans
    <2>2. CrlSettled <=> CrlSettled'
        BY <1>1 DEF CrlSettled, Plans
    <2>3. BundleSettled <=> BundleSettled'
        BY <1>1 DEF BundleSettled, Plans
    <2>4. CertSettled <=> CertSettled'
        BY <1>1 DEF CertSettled, Plans
    <2>5. PairSettled <=> PairSettled'
        BY <1>1 DEF PairSettled, Plans, Matches
    <2>6. Calm <=> Calm'
        BY <1>1 DEF Calm
    <2>7. expired' = expired /\ CalmInv
        BY <1>1 DEF CertInv
    <2> QED
        BY <2>1, <2>2, <2>3, <2>4, <2>5, <2>6, <2>7 DEF CalmInv
<1> QED
    BY <1>2, <1>3, <1>4, <1>5 DEF CertInv

\* What is taken away or forgotten is made again at the end of the sequence.
LEMMA Remakes ==
    ASSUME NEW T, T \subseteq Operations, NEW d \in Seq(T), NEW p \in T, NEW x \in Operations,
           x \notin UsesValue, \A o \in T : o \notin UsesValue,
           \A y : ~Later(x, y), \A o \in T : \A y : (Later(o, y) => y = x) /\ ~Clash(o, y),
           NEW t, \A y : Has(t, y) => ~Clash(x, y)
    PROVE  /\ d \o <<p, x>> \in Seq(Operations) /\ Fits(d \o <<p, x>>, t)
           /\ \A act : Has(d \o <<p, x>>, act) => act \in T \cup {x}
           /\ Has(d \o <<p, x>>, x)
<1> DEFINE b == <<p, x>>
           a == d \o b
           n == Len(d) + 2
<1>1. b \in Seq(Operations) /\ Len(b) = 2 /\ b[1] = p /\ b[2] = x
    OBVIOUS
<1>2. d \in Seq(Operations) /\ Len(d) \in Nat /\ DOMAIN d = 1..Len(d) /\ \A i \in 1..Len(d) : d[i] \in T
    BY SeqMonotonic
<1> HIDE DEF b
<1>3. /\ a \in Seq(Operations) /\ Len(a) = n
      /\ \A i \in 1..n : a[i] = IF i <= Len(d) THEN d[i] ELSE b[i - Len(d)]
    <2>1. a \in Seq(Operations) /\ Len(a) = Len(d) + Len(b)
        BY <1>1, <1>2, ConcatProperties
    <2>2. \A i \in 1..(Len(d) + Len(b)) : a[i] = IF i <= Len(d) THEN d[i] ELSE b[i - Len(d)]
        BY <1>1, <1>2, ConcatProperties
    <2> QED
        BY <1>1, <2>1, <2>2
<1>4. n \in Nat /\ n \in 1..n /\ DOMAIN a = 1..n /\ n - Len(d) = 2 /\ ~(n <= Len(d))
    <2>1. n \in Nat /\ n \in 1..n /\ n - Len(d) = 2 /\ ~(n <= Len(d))
        BY <1>2
    <2>2. DOMAIN a = 1..Len(a)
        BY <1>3
    <2> QED
        BY <1>3, <2>1, <2>2
<1>5. a[n] = x
    BY <1>1, <1>3, <1>4
<1>6. ASSUME NEW i \in 1..n, i # n
      PROVE  a[i] \in T /\ i < n
    <2>1. CASE i <= Len(d)
        <3>1. i \in 1..Len(d) /\ i < n
            BY <1>2, <2>1
        <3> QED
            BY <1>2, <1>3, <2>1, <3>1
    <2>2. CASE ~(i <= Len(d))
        <3>1. i - Len(d) = 1 /\ i < n
            BY <1>2, <1>6, <2>2
        <3> QED
            BY <1>1, <1>3, <2>2, <3>1
    <2> QED
        BY <2>1, <2>2
<1> HIDE DEF a, n
<1>7. \A i \in DOMAIN a : a[i] \notin UsesValue
    BY <1>4, <1>5, <1>6
<1>8. ASSUME NEW i \in DOMAIN a, NEW y, Later(a[i], y)
      PROVE  \E k \in DOMAIN a : i < k /\ a[k] = y
    <2>1. i # n
        BY <1>5, <1>8
    <2>2. i < n /\ y = x
        BY <1>4, <1>6, <1>8, <2>1
    <2> QED
        BY <1>4, <1>5, <2>2
<1>9. ASSUME NEW i \in DOMAIN a, NEW k \in DOMAIN a, i < k
      PROVE  ~Clash(a[i], a[k])
    <2>1. i # n
        <3>1. k <= n /\ i \in Nat /\ k \in Nat /\ n \in Nat
            BY <1>4
        <3> QED
            BY <1>9, <3>1
    <2> QED
        BY <1>4, <1>6, <2>1
<1>10. ASSUME NEW i \in DOMAIN a, NEW y, Has(t, y)
       PROVE  ~Clash(a[i], y)
    BY <1>4, <1>5, <1>6, <1>10
<1>11. Fits(a, t)
    BY <1>7, <1>8, <1>9, <1>10 DEF Fits
<1>12. \A act : Has(a, act) => act \in T \cup {x}
    BY <1>4, <1>5, <1>6 DEF Has
<1>13. Has(a, x)
    BY <1>4, <1>5 DEF Has
<1> QED
    BY <1>3, <1>11, <1>12, <1>13 DEF a, b

\* What a check, and the step that forgets, leave as it is.
Thinks(j, h, a) ==
    /\ Went(j, h, a) /\ UNCHANGED <<disk, keyOf, value>>
    /\ JobsInv' /\ InitAlone' /\ EndInv'

LEMMA ThinksInv ==
    ASSUME CertInv, NEW j \in Jobs, NEW h, NEW a, Thinks(j, h, a), \A act \in UsesValue : ~Has(a, act),
           UNCHANGED <<deletes, authority, running, keys, ticks, certFaults, ragged>>,
           expired' \in BOOLEAN, memory' \in [key : Nat, cert : Nat, ca : Nat, crl : Nat],
           memory'.key \in {memory.key, 0}, memory'.cert \in {memory.cert, 0}
    PROVE  CertShape' /\ ValuesInv'
<1>1. CertShape /\ ValuesInv /\ FetchesOnly(j)
    BY DEF CertInv, FetchesOnly, Thinks
<1>2. CertShape'
    <2>1. ragged' \in BOOLEAN
        BY <1>1 DEF CertShape
    <2> QED
        BY <1>1, <2>1, ShapeParts, ShapeNext DEF Thinks
<1>3. UsedNext(j, "none")
    <2>1. ASSUME NEW k \in Jobs, NEW act \in UsesValue, Plans(k, act)'
          PROVE  Plans(k, act) /\ value'[k] = value[k]
        <3>1. CASE k = j
            BY <2>1, <3>1 DEF Thinks, Went
        <3>2. CASE k # j
            BY <2>1, <3>2 DEF Thinks, Went
        <3> QED
            BY <3>1, <3>2
    <2> QED
        BY <2>1 DEF UsedNext
<1>4. FitsUse("none", value[j])'
    BY DEF FitsUse
<1> QED
    BY <1>1, <1>2, <1>3, <1>4, ValuesSame DEF Thinks

\* The CA that expires is forgotten: the job fetches it again.
LEMMA DropsCaInv ==
    ASSUME CertInv, NEW j \in Jobs, DropsCa(j)
    PROVE  CertInv'
<1>1. /\ Doing(j, "drop ca") /\ memory' = [memory EXCEPT !.ca = 0] /\ Continues(j, <<>>)
      /\ UNCHANGED <<deletes, authority, running, disk, keyOf, keys, value, ticks, certFaults, expired, ragged>>
    BY DEF DropsCa, certWorld, pairVars, boundVars
<1>2. j # "shutdown"
    BY <1>1, NotTheEnd DEF UnlinkOps
<1>3. Thinks(j, "drop ca", <<>>) /\ Went(j, "drop ca", <<>>)
    <2>1. (expired => expired') /\ (ragged => ragged') /\ running' = running
        BY <1>1
    <2> QED
        BY <1>1, <1>2, <2>1, JobGoesOn DEF Thinks
<1>4. /\ memory' \in [key : Nat, cert : Nat, ca : Nat, crl : Nat]
      /\ memory'.key = memory.key /\ memory'.cert = memory.cert /\ memory'.crl = memory.crl
    BY <1>1, ShapeParts DEF CertInv
<1>5. CertShape' /\ ValuesInv'
    <2>1. expired' \in BOOLEAN
        BY <1>1 DEF CertInv, CertShape
    <2> QED
        BY <1>1, <1>3, <1>4, <2>1, NoOperation, ThinksInv
<1>6. FetchesOnly(j)
    BY <1>1 DEF FetchesOnly
<1>7. CalmInv'
    <2> SUFFICES ASSUME Calm'
                 PROVE  FilesSettled'
        BY DEF CalmInv, FilesSettled
    <2>1. FilesSettled
        BY <1>3, WasSettled
    <2>2. ASSUME NEW S, "drop ca" \notin S
          PROVE  Same(S)
        BY <1>3, <1>6, <2>2, NoOperation, OthersSame
    <2>3. Same({"write crl"}) /\ Same({"crl"}) /\ Same(BundleOps)
        BY <2>2 DEF BundleOps
    <2>4. Same(CertOps) /\ Same(KeyOps \cup CertOps)
        BY <2>2 DEF CertOps, KeyOps
    <2>5. Plans("init", "crl")' <=> Plans("init", "crl")
        BY <2>3 DEF Same, Jobs
    <2>6. CrlSettled' /\ BundleSettled' /\ CertSettled'
        BY <1>1, <1>4, <2>1, <2>3, <2>4, <2>5, CrlKept, BundleKept, CertKept DEF FilesSettled
    <2>7. ~expired' => PairSettled'
        BY <1>1, <1>4, <2>1, <2>4, PairKept DEF FilesSettled
    <2>8. CaSettled'
        <3>1. Plans(j, "ca")'
            BY <1>3 DEF Went, Later
        <3>2. \A k \in Jobs : Plans(k, "write ca")' => Plans(k, "write ca")
            BY <1>3, NoOperation DEF Went, UsesValue
        <3> QED
            BY <2>1, <3>1, <3>2 DEF CaSettled, FilesSettled, WillFetchCa
    <2> QED
        BY <2>6, <2>7, <2>8 DEF FilesSettled
<1> QED
    BY <1>3, <1>5, <1>7 DEF CertInv, Thinks

\* The certificate that expires is forgotten with its key: the job asks for another certificate.
LEMMA DropsCertInv ==
    ASSUME CertInv, NEW j \in Jobs, DropsCert(j)
    PROVE  CertInv'
<1>1. /\ Doing(j, "drop cert") /\ memory' = [memory EXCEPT !.key = 0, !.cert = 0] /\ Continues(j, <<>>)
      /\ UNCHANGED <<deletes, authority, running, disk, keyOf, keys, value, ticks, certFaults, expired, ragged>>
    BY DEF DropsCert, certWorld, pairVars, boundVars
<1>2. j # "shutdown"
    BY <1>1, NotTheEnd DEF UnlinkOps
<1>3. Thinks(j, "drop cert", <<>>) /\ Went(j, "drop cert", <<>>)
    <2>1. (expired => expired') /\ (ragged => ragged') /\ running' = running
        BY <1>1
    <2> QED
        BY <1>1, <1>2, <2>1, JobGoesOn DEF Thinks
<1>4. /\ memory' \in [key : Nat, cert : Nat, ca : Nat, crl : Nat]
      /\ memory'.key = 0 /\ memory'.cert = 0 /\ memory'.crl = memory.crl /\ memory'.ca = memory.ca
    BY <1>1, ShapeParts DEF CertInv
<1>5. CertShape' /\ ValuesInv'
    <2>1. expired' \in BOOLEAN
        BY <1>1 DEF CertInv, CertShape
    <2> QED
        BY <1>1, <1>3, <1>4, <2>1, NoOperation, ThinksInv
<1>6. FetchesOnly(j)
    BY <1>1 DEF FetchesOnly
<1>7. CalmInv'
    <2> SUFFICES ASSUME Calm'
                 PROVE  FilesSettled'
        BY DEF CalmInv, FilesSettled
    <2>1. FilesSettled
        BY <1>3, WasSettled
    <2>2. ASSUME NEW S, "drop cert" \notin S
          PROVE  Same(S)
        BY <1>3, <1>6, <2>2, NoOperation, OthersSame
    <2>3. Same({"write crl"}) /\ Same({"crl"}) /\ Same(BundleOps) /\ Same(CaOps)
        BY <2>2 DEF BundleOps, CaOps
    <2>4. Plans("init", "crl")' <=> Plans("init", "crl")
        BY <2>3 DEF Same, Jobs
    <2>5. CaSettled' /\ CrlSettled' /\ BundleSettled'
        BY <1>1, <1>4, <2>1, <2>3, <2>4, CaKept, CrlKept, BundleKept DEF FilesSettled
    <2>6. CertSettled'
        <3>1. Plans(j, "csr")'
            BY <1>3 DEF Went, Later
        <3> QED
            BY <3>1 DEF CertSettled, CertOps
    <2>7. expired'
        BY <1>1, <1>2, <1>3, WhoDoes DEF Went
    <2> QED
        BY <2>5, <2>6, <2>7 DEF FilesSettled
<1> QED
    BY <1>3, <1>5, <1>7 DEF CertInv, Thinks

\* The parts that no check touches.
LEMMA ChecksKeep ==
    ASSUME CertInv, NEW j \in Jobs, NEW h \in {"checkCa", "checkCert", "checkRevoked"}, NEW a, Thinks(j, h, a),
           memory' = memory, FilesSettled
    PROVE  /\ (\A act \in CaOps : ~Has(a, act)) => CaSettled'
           /\ (\A act \in CrlOps : ~Has(a, act)) => CrlSettled'
           /\ (\A act \in BundleOps : ~Has(a, act)) => BundleSettled'
           /\ CertSettled'
           /\ ~expired /\ (\A act \in KeyOps \cup CertOps : ~Has(a, act)) => PairSettled'
<1>1. Went(j, h, a) /\ FetchesOnly(j) /\ disk' = disk /\ keyOf' = keyOf
    BY DEF Thinks, FetchesOnly
<1>2. ASSUME NEW S, h \notin S, \A act \in S : ~Has(a, act)
      PROVE  Same(S)
    BY <1>1, <1>2, OthersSame
<1>3. h \notin CaOps /\ h \notin BundleOps /\ h \notin CrlOps /\ h \notin KeyOps /\ h \notin CertOps
    BY DEF CaOps, BundleOps, CrlOps, KeyOps, CertOps
<1>4. (\A act \in CaOps : ~Has(a, act)) => CaSettled'
    BY <1>1, <1>2, <1>3, CaKept DEF FilesSettled
<1>5. ASSUME \A act \in CrlOps : ~Has(a, act)
      PROVE  CrlSettled'
    <2>1. Same({"write crl"}) /\ Same({"crl"})
        BY <1>2, <1>3, <1>5 DEF CrlOps
    <2>2. Plans("init", "crl")' <=> Plans("init", "crl")
        BY <2>1 DEF Same, Jobs
    <2> QED
        BY <1>1, <2>1, <2>2, CrlKept DEF FilesSettled
<1>6. (\A act \in BundleOps : ~Has(a, act)) => BundleSettled'
    BY <1>1, <1>2, <1>3, BundleKept DEF FilesSettled
<1>7. CertSettled'
    <2>1. \A k \in Jobs : \A act \in CertOps : Plans(k, act) => Plans(k, act)'
        <3>1. \A act \in CertOps : Plans(j, act) => Plans(j, act)'
            BY <1>1, <1>3 DEF Went
        <3>2. \A k \in Jobs : k # j => \A act \in CertOps : Plans(k, act) => Plans(k, act)'
            BY <1>1 DEF Went
        <3> QED
            BY <3>1, <3>2
    <2>2. disk.cert # 0 \/ \E k \in Jobs, act \in CertOps : Plans(k, act)'
        BY <2>1 DEF FilesSettled, CertSettled
    <2>3. disk' = disk
        BY <1>1
    <2> QED
        BY <2>2, <2>3 DEF CertSettled
<1>8. ~expired /\ (\A act \in KeyOps \cup CertOps : ~Has(a, act)) => PairSettled'
    BY <1>1, <1>2, <1>3, PairKept DEF FilesSettled
<1> QED
    BY <1>4, <1>5, <1>6, <1>7, <1>8

\* A check that found nothing.
LEMMA ChecksFine ==
    ASSUME CertInv, NEW j \in Jobs, j # "shutdown", NEW h \in {"checkCa", "checkCert", "checkRevoked"}, Doing(j, h),
           Continues(j, <<>>),
           UNCHANGED <<deletes, authority, running, memory, disk, keyOf, keys, value, ticks, certFaults, expired, ragged>>
    PROVE  CertInv'
<1>1. Thinks(j, h, <<>>) /\ Went(j, h, <<>>)
    <2>1. (expired => expired') /\ (ragged => ragged') /\ running' = running
        OBVIOUS
    <2> QED
        BY <2>1, JobGoesOn DEF Thinks
<1>2. CertShape' /\ ValuesInv'
    <2>1. expired' \in BOOLEAN /\ memory' \in [key : Nat, cert : Nat, ca : Nat, crl : Nat]
        BY DEF CertInv, CertShape
    <2> QED
        BY <1>1, <2>1, NoOperation, ThinksInv
<1>3. CalmInv'
    <2> SUFFICES ASSUME Calm'
                 PROVE  FilesSettled'
        BY DEF CalmInv, FilesSettled
    <2>1. FilesSettled
        BY <1>1, WasSettled
    <2> QED
        BY <1>1, <2>1, NoOperation, ChecksKeep DEF FilesSettled
<1> QED
    BY <1>1, <1>2, <1>3 DEF CertInv, Thinks

\* The CA expires: its file and its copy in memory go, and it is fetched again.
LEMMA ChecksCaInv ==
    ASSUME CertInv, NEW j \in Jobs, ChecksCa(j)
    PROVE  CertInv'
<1>1. /\ Doing(j, "checkCa")
      /\ Continues(j, <<>>) \/ Continues(j, Deletion(<<"unlink ca">>) \o <<"drop ca", "ca">>)
      /\ UNCHANGED <<deletes, authority, running, memory, disk, keyOf, keys, value, ticks, certFaults, expired, ragged>>
    BY DEF ChecksCa, certWorld, pairVars, boundVars
<1>2. j # "shutdown"
    BY <1>1, NotTheEnd DEF UnlinkOps
<1>3. CASE Continues(j, <<>>)
    BY <1>1, <1>2, <1>3, ChecksFine
<1>4. CASE Continues(j, Deletion(<<"unlink ca">>) \o <<"drop ca", "ca">>)
    <2> DEFINE T == {"unlink ca", "drop ca"}
               d == Deletion(<<"unlink ca">>)
               a == d \o <<"drop ca", "ca">>
    <2>1. T \subseteq Operations /\ d \in Seq(T) /\ "drop ca" \in T /\ "ca" \in Operations
        <3>1. T \subseteq Operations /\ "ca" \in Operations
            BY DEF Operations, UnlinkOps, CheckOps, CaOps
        <3>2. <<"unlink ca">> \in Seq(T) /\ <<>> \in Seq(T)
            OBVIOUS
        <3> QED
            BY <3>1, <3>2 DEF Deletion
    <2>2. /\ "ca" \notin UsesValue /\ \A o \in T : o \notin UsesValue
          /\ \A y : ~Later("ca", y) /\ ~Clash("ca", y)
          /\ \A o \in T : \A y : (Later(o, y) => y = "ca") /\ ~Clash(o, y)
        BY DEF UsesValue, Later, Clash
    <2>3. /\ a \in Seq(Operations) /\ Fits(a, Tail(todo[j]))
          /\ \A act : Has(a, act) => act \in T \cup {"ca"}
          /\ Has(a, "ca")
        <3> HIDE DEF T, d
        <3>1. \A y : Has(Tail(todo[j]), y) => ~Clash("ca", y)
            BY <2>2
        <3>2. "ca" \notin UsesValue
            BY <2>2
        <3>3. \A o \in T : o \notin UsesValue
            BY <2>2
        <3>4. \A y : ~Later("ca", y)
            BY <2>2
        <3>5. \A o \in T : \A y : (Later(o, y) => y = "ca") /\ ~Clash(o, y)
            BY <2>2
        <3> QED
            BY <2>1, <3>1, <3>2, <3>3, <3>4, <3>5, Remakes
    <2>4. \A act : Has(a, act) => act \in OpsOf(j)'
        <3>1. j = "expiry"
            BY <1>1, <1>2, PlansNext, WhoDoes DEF CertInv
        <3>2. T \cup {"ca"} \subseteq OpsOf(j)'
            BY <3>1 DEF OpsOf, CaOps
        <3> QED
            BY <2>3, <3>2
    <2>5. Continues(j, a)
        BY <1>4
    <2>6. a = d \o <<"drop ca", "ca">>
        OBVIOUS
    <2> HIDE DEF a
    <2>7. Thinks(j, "checkCa", a) /\ Went(j, "checkCa", a)
        <3>1. (expired => expired') /\ (ragged => ragged') /\ running' = running
            BY <1>1
        <3> QED
            BY <1>1, <1>2, <2>3, <2>4, <2>5, <3>1, JobStepsOn DEF Thinks
    <2>8. \A act : Has(a, act) => act \in {"unlink ca", "drop ca", "ca"}
        BY <2>3
    <2>9. CertShape' /\ ValuesInv'
        <3>1. expired' \in BOOLEAN /\ memory' \in [key : Nat, cert : Nat, ca : Nat, crl : Nat]
            BY <1>1 DEF CertInv, CertShape
        <3>2. \A act \in UsesValue : ~Has(a, act)
            BY <2>8 DEF UsesValue
        <3> QED
            BY <1>1, <2>7, <3>1, <3>2, ThinksInv
    <2>10. CalmInv'
        <3> SUFFICES ASSUME Calm'
                     PROVE  FilesSettled'
            BY DEF CalmInv, FilesSettled
        <3>1. FilesSettled
            BY <2>7, WasSettled
        <3>2. /\ \A act \in CrlOps : ~Has(a, act)
              /\ \A act \in BundleOps : ~Has(a, act)
              /\ \A act \in KeyOps \cup CertOps : ~Has(a, act)
            BY <2>8 DEF CrlOps, BundleOps, KeyOps, CertOps
        <3>3. CrlSettled' /\ BundleSettled' /\ CertSettled' /\ (~expired => PairSettled')
            BY <1>1, <2>7, <3>1, <3>2, ChecksKeep
        <3>4. CaSettled'
            <4>1. Plans(j, "ca")'
                BY <2>3, <2>7 DEF Went
            <4>2. \A k \in Jobs : Plans(k, "write ca")' => Plans(k, "write ca")
                <5>1. "write ca" \in UsesValue /\ ~Has(a, "write ca")
                    <6>1. "write ca" \in UsesValue
                        BY DEF UsesValue
                    <6>2. "write ca" \notin {"unlink ca", "drop ca", "ca"}
                        OBVIOUS
                    <6> QED
                        BY <2>8, <6>1, <6>2
                <5> QED
                    BY <2>7, <5>1 DEF Went
            <4> QED
                BY <3>1, <4>1, <4>2 DEF CaSettled, FilesSettled, WillFetchCa
        <3> QED
            BY <1>1, <3>3, <3>4 DEF FilesSettled
    <2> QED
        BY <2>7, <2>9, <2>10 DEF CertInv, Thinks
<1> QED
    BY <1>1, <1>3, <1>4

\* The certificate expires: it and its key go, and a certificate is asked for.
LEMMA ChecksCertInv ==
    ASSUME CertInv, NEW j \in Jobs, ChecksCert(j)
    PROVE  CertInv'
<1>1. /\ Doing(j, "checkCert")
      /\ \/ Continues(j, <<>>) /\ expired' = expired
         \/ Continues(j, Deletion(<<"unlink key", "unlink cert">>) \o <<"drop cert", "csr">>) /\ expired' = TRUE
      /\ UNCHANGED <<deletes, authority, running, memory, disk, keyOf, keys, value, ticks, certFaults, ragged>>
    BY DEF ChecksCert, certWorld, pairVars, boundVars
<1>2. j # "shutdown"
    BY <1>1, NotTheEnd DEF UnlinkOps
<1>3. CASE Continues(j, <<>>) /\ expired' = expired
    BY <1>1, <1>2, <1>3, ChecksFine
<1>4. CASE Continues(j, Deletion(<<"unlink key", "unlink cert">>) \o <<"drop cert", "csr">>) /\ expired' = TRUE
    <2> DEFINE T == {"unlink key", "unlink cert", "drop cert"}
               d == Deletion(<<"unlink key", "unlink cert">>)
               a == d \o <<"drop cert", "csr">>
    <2>1. T \subseteq Operations /\ d \in Seq(T) /\ "drop cert" \in T /\ "csr" \in Operations
        <3>1. T \subseteq Operations /\ "csr" \in Operations
            BY DEF Operations, UnlinkOps, CheckOps, CertOps
        <3>2. <<"unlink key", "unlink cert">> \in Seq(T) /\ <<>> \in Seq(T)
            OBVIOUS
        <3> QED
            BY <3>1, <3>2 DEF Deletion
    <2>2. /\ "csr" \notin UsesValue /\ \A o \in T : o \notin UsesValue
          /\ \A y : ~Later("csr", y) /\ (Clash("csr", y) => Clash("checkCert", y))
          /\ \A o \in T : \A y : (Later(o, y) => y = "csr") /\ ~Clash(o, y)
        BY DEF UsesValue, Later, Clash
    <2>3. \A y : Has(Tail(todo[j]), y) => ~Clash("csr", y)
        <3>1. todo[j] \in Seq(Operations) /\ todo[j] # <<>> /\ Head(todo[j]) = "checkCert" /\ Rules(todo[j])
            BY <1>1, <1>2 DEF CertInv, CertShape, JobsInv, Doing
        <3> QED
            BY <2>2, <3>1, RestOfRules
    <2>4. /\ a \in Seq(Operations) /\ Fits(a, Tail(todo[j]))
          /\ \A act : Has(a, act) => act \in T \cup {"csr"}
          /\ Has(a, "csr")
        <3> HIDE DEF T, d
        <3>2. "csr" \notin UsesValue
            BY <2>2
        <3>3. \A o \in T : o \notin UsesValue
            BY <2>2
        <3>4. \A y : ~Later("csr", y)
            BY <2>2
        <3>5. \A o \in T : \A y : (Later(o, y) => y = "csr") /\ ~Clash(o, y)
            BY <2>2
        <3> QED
            BY <2>1, <2>3, <3>2, <3>3, <3>4, <3>5, Remakes
    <2>5. \A act : Has(a, act) => act \in OpsOf(j)'
        <3>1. j = "expiry"
            BY <1>1, <1>2, PlansNext, WhoDoes DEF CertInv
        <3>2. T \cup {"csr"} \subseteq OpsOf(j)'
            BY <1>4, <3>1 DEF OpsOf, CertOps
        <3> QED
            BY <2>4, <3>2
    <2>6. Continues(j, a)
        BY <1>4
    <2>7. a = d \o <<"drop cert", "csr">>
        OBVIOUS
    <2> HIDE DEF a
    <2>8. Thinks(j, "checkCert", a) /\ Went(j, "checkCert", a)
        <3>1. (expired => expired') /\ (ragged => ragged') /\ running' = running
            BY <1>1, <1>4
        <3> QED
            BY <1>1, <1>2, <2>4, <2>5, <2>6, <3>1, JobStepsOn DEF Thinks
    <2>9. \A act : Has(a, act) => act \in {"unlink key", "unlink cert", "drop cert", "csr"}
        BY <2>4
    <2>10. CertShape' /\ ValuesInv'
        <3>1. expired' \in BOOLEAN /\ memory' \in [key : Nat, cert : Nat, ca : Nat, crl : Nat]
            BY <1>1, <1>4 DEF CertInv, CertShape
        <3>2. \A act \in UsesValue : ~Has(a, act)
            BY <2>9 DEF UsesValue
        <3> QED
            BY <1>1, <2>8, <3>1, <3>2, ThinksInv
    <2>11. CalmInv'
        <3> SUFFICES ASSUME Calm'
                     PROVE  FilesSettled'
            BY DEF CalmInv, FilesSettled
        <3>1. FilesSettled
            BY <2>8, WasSettled
        <3>2. /\ \A act \in CrlOps : ~Has(a, act)
              /\ \A act \in BundleOps : ~Has(a, act)
              /\ \A act \in CaOps : ~Has(a, act)
            BY <2>9 DEF CrlOps, BundleOps, CaOps
        <3>3. CaSettled' /\ CrlSettled' /\ BundleSettled' /\ CertSettled'
            BY <1>1, <2>8, <3>1, <3>2, ChecksKeep
        <3> QED
            BY <1>4, <3>3 DEF FilesSettled
    <2> QED
        BY <2>8, <2>10, <2>11 DEF CertInv, Thinks
<1> QED
    BY <1>1, <1>3, <1>4

\* A revoked certificate: a key and a certificate are made, and the CA is fetched.
LEMMA Renewal ==
    ASSUME NEW t, \A y : Has(t, y) => ~Clash("checkRevoked", y)
    PROVE  /\ <<"key", "csr", "ca">> \in Seq(Operations) /\ Fits(<<"key", "csr", "ca">>, t)
           /\ \A act : Has(<<"key", "csr", "ca">>, act) <=> act \in {"key", "csr", "ca"}
<1> DEFINE a == <<"key", "csr", "ca">>
<1>1. "key" \in Operations /\ "csr" \in Operations /\ "ca" \in Operations
    BY DEF Operations, KeyOps, CertOps, CaOps
<1>2. a \in Seq(Operations) /\ DOMAIN a = {1, 2, 3} /\ a[1] = "key" /\ a[2] = "csr" /\ a[3] = "ca"
    BY <1>1
<1> HIDE DEF a
<1>3. /\ "key" \notin UsesValue /\ "csr" \notin UsesValue /\ "ca" \notin UsesValue
      /\ \A y : (Later("key", y) <=> y = "csr") /\ ~Later("csr", y) /\ ~Later("ca", y)
      /\ \A y : (Clash("key", y) <=> y = "key") /\ (Clash("csr", y) <=> y \in {"csr", "key"}) /\ ~Clash("ca", y)
      /\ \A y \in {"key", "csr"} : Clash("checkRevoked", y)
    BY DEF UsesValue, Later, Clash
<1>4. \A i \in DOMAIN a : a[i] \notin UsesValue
    BY <1>2, <1>3
<1>5. ASSUME NEW i \in DOMAIN a, NEW y, Later(a[i], y)
      PROVE  \E k \in DOMAIN a : i < k /\ a[k] = y
    <2>1. i = 1 /\ y = "csr"
        BY <1>2, <1>3, <1>5
    <2>2. 2 \in DOMAIN a /\ i < 2
        BY <1>2, <2>1
    <2> QED
        BY <1>2, <2>1, <2>2
<1>6. ASSUME NEW i \in DOMAIN a, NEW k \in DOMAIN a, i < k
      PROVE  ~Clash(a[i], a[k])
    <2>1. (i = 1 /\ k = 2) \/ (i = 1 /\ k = 3) \/ (i = 2 /\ k = 3)
        BY <1>2, <1>6
    <2>2. ~Clash("key", "csr") /\ ~Clash("key", "ca") /\ ~Clash("csr", "ca")
        BY <1>3
    <2> QED
        BY <1>2, <2>1, <2>2
<1>7. ASSUME NEW i \in DOMAIN a, NEW y, Has(t, y)
      PROVE  ~Clash(a[i], y)
    <2>1. y # "key" /\ y # "csr"
        BY <1>3, <1>7
    <2>2. ~Clash("key", y) /\ ~Clash("csr", y) /\ ~Clash("ca", y)
        BY <1>3, <2>1
    <2> QED
        BY <1>2, <2>2
<1>8. Fits(a, t)
    BY <1>4, <1>5, <1>6, <1>7 DEF Fits
<1>9. \A act : Has(a, act) <=> act \in {"key", "csr", "ca"}
    BY <1>2 DEF Has
<1> QED
    BY <1>2, <1>8, <1>9 DEF a

LEMMA ChecksRevokedInv ==
    ASSUME CertInv, NEW j \in Jobs, ChecksRevoked(j)
    PROVE  CertInv'
<1>1. /\ Doing(j, "checkRevoked")
      /\ Continues(j, <<>>) \/ Continues(j, <<"key", "csr", "ca">>)
      /\ UNCHANGED <<deletes, authority, running, memory, disk, keyOf, keys, value, ticks, certFaults, expired, ragged>>
    BY DEF ChecksRevoked, certWorld, pairVars, boundVars
<1>2. j # "shutdown"
    BY <1>1, NotTheEnd DEF UnlinkOps
<1>3. CASE Continues(j, <<>>)
    BY <1>1, <1>2, <1>3, ChecksFine
<1>4. CASE Continues(j, <<"key", "csr", "ca">>)
    <2> DEFINE a == <<"key", "csr", "ca">>
    <2>1. \A y : Has(Tail(todo[j]), y) => ~Clash("checkRevoked", y)
        <3>1. todo[j] \in Seq(Operations) /\ todo[j] # <<>> /\ Head(todo[j]) = "checkRevoked" /\ Rules(todo[j])
            BY <1>1, <1>2 DEF CertInv, CertShape, JobsInv, Doing
        <3> QED
            BY <3>1, RestOfRules
    <2>2. /\ a \in Seq(Operations) /\ Fits(a, Tail(todo[j]))
          /\ \A act : Has(a, act) <=> act \in {"key", "csr", "ca"}
        BY <2>1, Renewal
    <2>3. j = "revocation"
        BY <1>1, <1>2, PlansNext, WhoDoes DEF CertInv
    <2>4. \A act : Has(a, act) => act \in OpsOf(j)'
        <3>1. {"key", "csr", "ca"} \subseteq OpsOf(j)'
            BY <2>3 DEF OpsOf, KeyOps, CertOps, CaOps
        <3> QED
            BY <2>2, <3>1
    <2>5. Continues(j, a)
        BY <1>4
    <2> HIDE DEF a
    <2>6. Thinks(j, "checkRevoked", a) /\ Went(j, "checkRevoked", a)
        <3>1. (expired => expired') /\ (ragged => ragged') /\ running' = running
            BY <1>1
        <3> QED
            BY <1>1, <1>2, <2>2, <2>4, <2>5, <3>1, JobStepsOn DEF Thinks
    <2>7. \A act \in UsesValue : ~Has(a, act) /\ ~Plans(j, act)'
        <3>1. \A act \in UsesValue : act \notin {"key", "csr", "ca"}
            BY DEF UsesValue
        <3> QED
            BY <2>2, <2>6, <3>1 DEF Went
    <2>8. CertShape' /\ ValuesInv'
        <3>1. expired' \in BOOLEAN /\ memory' \in [key : Nat, cert : Nat, ca : Nat, crl : Nat]
            BY <1>1 DEF CertInv, CertShape
        <3> QED
            BY <1>1, <2>6, <2>7, <3>1, ThinksInv
    <2>9. CalmInv'
        <3> SUFFICES ASSUME Calm'
                     PROVE  FilesSettled'
            BY DEF CalmInv, FilesSettled
        <3>1. FilesSettled
            BY <2>6, WasSettled
        <3>2. (\A act \in CrlOps : ~Has(a, act)) /\ (\A act \in BundleOps : ~Has(a, act))
            BY <2>2 DEF CrlOps, BundleOps
        <3>3. CrlSettled' /\ BundleSettled' /\ CertSettled'
            BY <1>1, <2>6, <3>1, <3>2, ChecksKeep
        <3>4. Plans(j, "ca")' /\ Plans(j, "key")' /\ Plans(j, "csr")'
            BY <2>2, <2>6 DEF Went, Clash
        <3>5. CaSettled'
            <4>1. \A k \in Jobs : Plans(k, "write ca")' => Plans(k, "write ca")
                <5>1. "write ca" \in UsesValue
                    BY DEF UsesValue
                <5> QED
                    BY <2>6, <2>7, <5>1 DEF Went
            <4> QED
                BY <3>1, <3>4, <4>1 DEF CaSettled, FilesSettled, WillFetchCa
        <3>6. PairSettled'
            <4>1. j \in Makers
                BY <2>3 DEF Makers
            <4>2. \A k \in Makers : k # j => \A act : ~Plans(k, act)'
                BY <2>6, <4>1, OtherMakers
            <4>3. ~Plans(j, "write key")' /\ ~Plans(j, "sign")' /\ ~Plans(j, "write cert")'
                BY <2>7 DEF UsesValue
            <4>4. ~(\A k \in Makers, act \in KeyOps \cup CertOps : ~Plans(k, act)')
                BY <3>4, <4>1 DEF KeyOps
            <4> QED
                BY <3>4, <4>2, <4>3, <4>4 DEF PairSettled
        <3> QED
            BY <3>3, <3>5, <3>6 DEF FilesSettled
    <2> QED
        BY <2>6, <2>8, <2>9 DEF CertInv, Thinks
<1> QED
    BY <1>1, <1>3, <1>4

\* The end begins.  If all was at rest, every file is there.
LEMMA EndBeginsInv ==
    ASSUME CertInv, Terminates, Started
    PROVE  CertInv'
<1>1. CertShape /\ JobsInv /\ InitAlone /\ EndInv /\ ValuesInv /\ CalmInv /\ "shutdown" \in Jobs /\ "init" \in Jobs
    BY DEF CertInv, Jobs
<1>2. /\ running /\ todo["init"] = <<>> /\ todo["shutdown"] = <<>>
      /\ todo' = [todo EXCEPT !["shutdown"] = Program("shutdown")] /\ ragged' = (ragged \/ ~Idle)
      /\ UNCHANGED <<deletes, authority, running, memory, disk, keyOf, keys, value, ticks, certFaults, expired>>
    BY DEF Terminates, Started, certWorld, pairVars, boundVars
<1>3. EndsOn(Program("shutdown"))
    BY <1>2, EndProgram DEF EndsOn
<1>4. /\ todo' \in [Jobs -> Seq(Operations)] /\ JobsInv' /\ InitAlone' /\ ValuesInv' /\ CalmInv'
      /\ todo'["shutdown"] = Program("shutdown") /\ Program("shutdown") # <<>>
      /\ \A k \in Jobs : k # "shutdown" => todo'[k] = todo[k]
    BY <1>2, <1>3, EndsOnInv
<1>5. CertShape'
    <2>1. ragged' \in BOOLEAN
        BY <1>1, <1>2 DEF CertShape
    <2> QED
        BY <1>1, <1>2, <1>4, <2>1 DEF CertShape
<1>6. /\ EndRules(todo'["shutdown"])
      /\ \A act : Plans("shutdown", act)' <=> act = "exit" \/ (deletes /\ act \in UnlinkOps)
    BY <1>4, EndProgram DEF Plans
<1>7. ASSUME ~ragged'
      PROVE  /\ \A k \in Jobs : k # "shutdown" => todo'[k] = <<>>
             /\ deletes' => \A f \in CertFiles : Plans("shutdown", Unlinked[f])'
             /\ \A f \in CertFiles \ {"key"} : disk'[f] # 0
    <2>1. ~ragged /\ Idle
        BY <1>2, <1>7
    <2>2. \A k \in Jobs : todo[k] = <<>>
        BY <2>1 DEF Idle
    <2>3. \A k \in Jobs : \A act : ~Plans(k, act)
        BY <2>2, IdlePlansNothing
    <2>4. CaSettled /\ CrlSettled /\ BundleSettled /\ CertSettled
        BY <1>1, <1>2, <2>1 DEF CalmInv, Calm
    <2>5. disk.ca # 0
        BY <2>3, <2>4 DEF CaSettled, WillFetchCa
    <2>6. disk.crl # 0
        BY <1>1, <2>3, <2>4 DEF CrlSettled
    <2>7. disk.bundle # 0
        BY <1>1, <2>3, <2>4 DEF BundleSettled
    <2>8. disk.cert # 0
        BY <2>3, <2>4 DEF CertSettled
    <2>9. \A f \in CertFiles \ {"key"} : disk'[f] # 0
        BY <1>2, <2>5, <2>6, <2>7, <2>8 DEF CertFiles
    <2>10. \A f \in CertFiles : Unlinked[f] \in UnlinkOps
        BY OperationNames DEF CertFiles, UnlinkOps
    <2>11. deletes' => \A f \in CertFiles : Plans("shutdown", Unlinked[f])'
        BY <1>2, <1>6, <2>10
    <2> QED
        BY <1>4, <2>2, <2>9, <2>11
<1>8. EndInv'
    BY <1>2, <1>6, <1>7 DEF EndInv
<1> QED
    BY <1>4, <1>5, <1>8 DEF CertInv

\* Before the start is over, the process ends at once.
LEMMA TerminatesInv ==
    ASSUME CertInv, Terminates
    PROVE  CertInv'
<1>1. CASE Started
    BY <1>1, EndBeginsInv
<1>2. CASE ~Started
    <2>1. /\ running' = FALSE /\ ragged' = TRUE
          /\ UNCHANGED <<deletes, authority, memory, disk, keyOf, keys, todo, value, ticks, certFaults, expired>>
        BY <1>2 DEF Terminates, Started, Idle, Jobs, certWorld, pairVars, boundVars
    <2>2. CertShape'
        BY <2>1 DEF CertInv, CertShape
    <2>3. JobsInv' /\ InitAlone'
        BY <2>1 DEF CertInv, JobsInv, InitAlone, Plans, OpsOf
    <2>4. ValuesInv'
        BY <2>1 DEF CertInv, ValuesInv, Plans
    <2>5. CalmInv' /\ EndInv'
        BY <2>1 DEF CertInv, CalmInv, Calm, EndInv, Plans
    <2> QED
        BY <2>2, <2>3, <2>4, <2>5 DEF CertInv
<1> QED
    BY <1>1, <1>2

\* The process exits after its last deletion.
LEMMA ExitsInv ==
    ASSUME CertInv, Exits
    PROVE  CertInv'
<1>1. CertShape /\ JobsInv /\ InitAlone /\ EndInv /\ ValuesInv /\ CalmInv /\ "shutdown" \in Jobs
    BY DEF CertInv, Jobs
<1>2. /\ running /\ todo["shutdown"] # <<>> /\ Head(todo["shutdown"]) = "exit" /\ running' = FALSE
      /\ UNCHANGED <<deletes, authority, memory, disk, keyOf, keys, todo, value, ticks, certFaults, expired, ragged>>
    BY DEF Exits, Doing, certWorld, pairVars, boundVars
<1>3. CertShape'
    BY <1>1, <1>2 DEF CertShape
<1>4. JobsInv' /\ InitAlone'
    BY <1>1, <1>2 DEF JobsInv, InitAlone, Plans, OpsOf
<1>5. ValuesInv'
    BY <1>1, <1>2 DEF ValuesInv, Plans
<1>6. CalmInv'
    BY <1>2 DEF CalmInv, Calm
<1>7. \A act : Plans("shutdown", act) => act = "exit"
    <2>1. todo["shutdown"] \in Seq(Operations) /\ EndRules(todo["shutdown"])
        BY <1>1 DEF CertShape, EndInv
    <2> QED
        BY <1>2, <2>1, TailOfEnd DEF Plans
<1>8. EndInv'
    <2>1. Plans("shutdown", "exit")' <=> Plans("shutdown", "exit")
        BY <1>2 DEF Plans
    <2>2. \A f \in CertFiles : Unlinked[f] # "exit"
        BY OperationNames DEF CertFiles
    <2>3. \A f \in CertFiles : ~Plans("shutdown", Unlinked[f])
        BY <1>7, <2>2
    <2> QED
        BY <1>1, <1>2, <2>1, <2>3 DEF EndInv
<1> QED
    BY <1>3, <1>4, <1>5, <1>6, <1>8 DEF CertInv

\* What the start does.
LEMMA StartProgram ==
    /\ Program("init") \in Seq(Operations) /\ Rules(Program("init")) /\ Program("init") # <<>>
    /\ \A act : Has(Program("init"), act) <=> act \in {"key", "csr", "ca", "bundle", "crl"}
<1> DEFINE s == <<"key", "csr", "ca", "bundle", "crl">>
<1>1. Program("init") = s
    BY DEF Program
<1>2. /\ "key" \in Operations /\ "csr" \in Operations /\ "ca" \in Operations
      /\ "bundle" \in Operations /\ "crl" \in Operations
    BY DEF Operations, KeyOps, CertOps, CaOps, BundleOps, CrlOps
<1>3. /\ s \in Seq(Operations) /\ s # <<>> /\ DOMAIN s = {1, 2, 3, 4, 5}
      /\ s[1] = "key" /\ s[2] = "csr" /\ s[3] = "ca" /\ s[4] = "bundle" /\ s[5] = "crl"
    BY <1>2
<1> HIDE DEF s
<1>4. /\ \A act \in {"key", "csr", "ca", "bundle", "crl"} : act \notin UsesValue
      /\ \A y : (Later("key", y) <=> y = "csr") /\ ~Later("csr", y) /\ ~Later("ca", y) /\ ~Later("bundle", y) /\ ~Later("crl", y)
      /\ \A y : (Clash("key", y) <=> y = "key") /\ (Clash("csr", y) <=> y \in {"csr", "key"})
      /\ \A y : ~Clash("ca", y) /\ ~Clash("bundle", y) /\ ~Clash("crl", y)
    BY DEF UsesValue, Later, Clash
<1>5. \A act : Has(s, act) <=> act \in {"key", "csr", "ca", "bundle", "crl"}
    BY <1>3 DEF Has
<1>6. \A i \in DOMAIN s : s[i] \notin UsesValue
    BY <1>3, <1>4
<1>7. ASSUME NEW i \in DOMAIN s, NEW y, Later(s[i], y)
      PROVE  \E k \in DOMAIN s : i < k /\ s[k] = y
    <2>1. i = 1 /\ y = "csr"
        BY <1>3, <1>4, <1>7
    <2>2. 2 \in DOMAIN s /\ i < 2
        BY <1>3, <2>1
    <2> QED
        BY <1>3, <2>1, <2>2
<1>8. ASSUME NEW i \in DOMAIN s, NEW k \in DOMAIN s, i < k
      PROVE  ~Clash(s[i], s[k])
    <2>1. k \in {2, 3, 4, 5} /\ (i = 2 => k \in {3, 4, 5})
        BY <1>3, <1>8
    <2>2. s[k] # "key"
        BY <1>3, <2>1
    <2>3. i = 2 => s[k] # "csr"
        BY <1>3, <2>1
    <2> QED
        BY <1>3, <1>4, <2>2, <2>3
<1>9. Rules(s)
    BY <1>6, <1>7, <1>8 DEF Rules
<1> QED
    BY <1>1, <1>3, <1>5, <1>9

LEMMA CertInvInit ==
    ASSUME CertInit
    PROVE  CertInv
<1>1. /\ deletes \in BOOLEAN /\ running = TRUE
      /\ memory = [key |-> 0, cert |-> 0, ca |-> 0, crl |-> 0]
      /\ disk = [key |-> 0, cert |-> 0, ca |-> 0, bundle |-> 0, crl |-> 0]
      /\ authority = [ca |-> 1, crl |-> 1]
      /\ keyOf = <<>> /\ keys = 0 /\ value = [j \in Jobs |-> 0]
      /\ ticks = 0 /\ certFaults = 0 /\ expired = FALSE /\ ragged = FALSE
    BY DEF CertInit
<1>2. todo = [j \in Jobs |-> IF j = "init" THEN Program(j) ELSE <<>>]
    BY DEF CertInit
<1>3. "init" \in Jobs /\ "shutdown" \in Jobs
    BY DEF Jobs
<1>4. /\ todo \in [Jobs -> Seq(Operations)] /\ todo["init"] = Program("init")
      /\ \A k \in Jobs : k # "init" => todo[k] = <<>>
    <2>1. ASSUME NEW k \in Jobs
          PROVE  (IF k = "init" THEN Program(k) ELSE <<>>) \in Seq(Operations)
        <3>1. CASE k = "init"
            BY <3>1, StartProgram
        <3>2. CASE k # "init"
            BY <3>2, EmptyRules
        <3> QED
            BY <3>1, <3>2
    <2>2. todo \in [Jobs -> Seq(Operations)]
        BY <1>2, <2>1
    <2> QED
        BY <1>2, <1>3, <2>2
<1>5. \A k \in Jobs : k # "init" => \A act : ~Plans(k, act)
    BY <1>4, IdlePlansNothing
<1>6. \A act : Plans("init", act) <=> act \in {"key", "csr", "ca", "bundle", "crl"}
    BY <1>4, StartProgram DEF Plans
<1>7. \A k \in Jobs : \A act \in UsesValue : ~Plans(k, act)
    <2>1. \A act \in UsesValue : act \notin {"key", "csr", "ca", "bundle", "crl"}
        BY DEF UsesValue
    <2> QED
        BY <1>5, <1>6, <2>1
<1>8. CertShape
    <2>1. memory \in [key : Nat, cert : Nat, ca : Nat, crl : Nat]
        BY <1>1
    <2>2. disk \in [key : Nat, cert : Nat, ca : Nat, bundle : Nat, crl : Nat]
        BY <1>1
    <2>3. authority \in [ca : Nat \ {0}, crl : Nat \ {0}]
        BY <1>1
    <2>4. keyOf \in Seq(Nat) /\ value \in [Jobs -> Nat]
        BY <1>1
    <2> QED
        BY <1>1, <1>4, <2>1, <2>2, <2>3, <2>4 DEF CertShape
<1>9. JobsInv
    <2>1. \A k \in Jobs : Rules(todo[k])
        BY <1>4, StartProgram, EmptyRules
    <2>2. {"key", "csr", "ca", "bundle", "crl"} \subseteq OpsOf("init")
        BY DEF OpsOf, KeyOps, CertOps, CaOps, BundleOps, CrlOps
    <2>3. \A k \in Jobs : \A act : Plans(k, act) => act \in OpsOf(k)
        BY <1>5, <1>6, <2>2
    <2> QED
        BY <2>1, <2>3 DEF JobsInv
<1>10. InitAlone
    BY <1>4 DEF InitAlone, Jobs, Crons
<1>11. ValuesInv
    <2>1. PairBounds
        BY <1>1 DEF PairBounds
    <2>2. \A k \in Jobs : Fetched(k)
        BY <1>7 DEF Fetched, UsesValue
    <2> QED
        BY <2>1, <2>2, ValuesParts
<1>12. FilesSettled
    <2>1. \A k \in Jobs : /\ ~Plans(k, "write ca") /\ ~Plans(k, "write crl") /\ ~Plans(k, "write key")
                          /\ ~Plans(k, "sign") /\ ~Plans(k, "write cert")
        BY <1>7 DEF UsesValue
    <2>2. Plans("init", "key") /\ Plans("init", "csr") /\ Plans("init", "ca") /\ Plans("init", "bundle") /\ Plans("init", "crl")
        BY <1>6
    <2>3. CaSettled
        BY <1>3, <2>1, <2>2 DEF CaSettled, WillFetchCa
    <2>4. CrlSettled
        BY <1>1, <2>1, <2>2 DEF CrlSettled
    <2>5. BundleSettled
        BY <2>2 DEF BundleSettled
    <2>6. CertSettled
        BY <1>3, <2>2 DEF CertSettled, CertOps
    <2>7. PairSettled
        <3>1. \A k \in Makers : k \in Jobs /\ (k # "init" => ~Plans(k, "csr"))
            BY <1>5 DEF Makers, Jobs, Crons
        <3>2. "init" \in Makers /\ "key" \in KeyOps
            BY DEF Makers, KeyOps
        <3> QED
            BY <2>1, <2>2, <3>1, <3>2 DEF PairSettled
    <2> QED
        BY <2>3, <2>4, <2>5, <2>6, <2>7 DEF FilesSettled
<1>13. EndInv
    <2>1. todo["shutdown"] = <<>>
        BY <1>3, <1>4
    <2>2. EndRules(<<>>)
        <3>1. DOMAIN <<>> = {}
            OBVIOUS
        <3> QED
            BY <3>1 DEF EndRules
    <2> QED
        BY <1>1, <2>1, <2>2 DEF EndInv
<1> QED
    BY <1>8, <1>9, <1>10, <1>11, <1>12, <1>13 DEF CertInv, CalmInv, FilesSettled

\* Every step.
LEMMA CertInvNext ==
    ASSUME CertInv, [CertNext]_certVars
    PROVE  CertInv'
<1>1. DOMAIN disk = CertFiles
    BY DEF CertInv, CertShape, CertFiles
<1>2. ASSUME NEW j \in Jobs, CertFails(j)
      PROVE  CertInv'
    <2>1. j = "init" \/ j = "shutdown" \/ j \in Crons
        BY DEF Jobs
    <2> QED
        BY <1>2, <2>1, FailsAtEnd, FailsAtStart, FailsOften
<1>3. ASSUME NEW j \in Jobs, NEW file \in CertFiles, Unlinks(j, file)
      PROVE  CertInv'
    <2>1. CASE j = "shutdown"
        BY <1>3, <2>1, UnlinksAtEnd
    <2>2. CASE j # "shutdown"
        BY <1>3, <2>2, UnlinksForExpiry
    <2> QED
        BY <2>1, <2>2
<1>4. ASSUME NEW j \in Jobs,
             \/ MakesKey(j) \/ MakesCsr(j) \/ Signs(j)
             \/ RetrievesCa(j) \/ RetrievesBundle(j) \/ RetrievesCrl(j)
             \/ ChecksCa(j) \/ ChecksCert(j) \/ DropsCa(j) \/ DropsCert(j) \/ ChecksRevoked(j)
      PROVE  CertInv'
    BY <1>4, MakesKeyInv, MakesCsrInv, SignsInv, RetrievesCaInv, RetrievesBundleInv, RetrievesCrlInv,
       ChecksCaInv, ChecksCertInv, DropsCaInv, DropsCertInv, ChecksRevokedInv
<1>5. CASE UNCHANGED certVars
    BY <1>5, CertStutter
<1>6. CASE CertNext
    BY <1>1, <1>2, <1>3, <1>4, <1>6, TicksInv, AuthorityChangesInv, WritesFileInv, TerminatesInv, ExitsInv DEF CertNext
<1> QED
    BY <1>5, <1>6

\* The state of cert-sidecar is well typed: a certificate in memory was issued, for a key that was made.
THEOREM CertTypeCorrect == CertSpec => []CertTypeOK
<1>1. CertInv => CertTypeOK
    <2> SUFFICES ASSUME CertInv
                 PROVE  CertTypeOK
        OBVIOUS
    <2>1. CertShape /\ PairBounds
        BY ValuesParts DEF CertInv
    <2>2. \A file \in DOMAIN disk : disk[file] \in Nat
        BY <2>1 DEF CertShape
    <2>3. memory.cert \in 0..Len(keyOf)
        BY <2>1, ShapeNumbers DEF PairBounds
    <2> QED
        BY <2>1, <2>2, <2>3 DEF CertTypeOK, PairBounds
<1>2. CertInv /\ [CertNext]_certVars => CertInv'
    BY CertInvNext
<1> QED
    BY <1>1, <1>2, CertInvInit, PTL DEF CertSpec

\* What the pod reads is what the process goes by, until it leaves nothing: for any number of renewals,
\* versions of the CA and of the CRL, and failed operations (Certificates, CertificatesMgmt, deleteAllFiles).
THEOREM FilesStayInStep == CertSpec => []FilesFollowProcess
<1>1. CertInv => FilesFollowProcess
    <2> SUFFICES ASSUME CertInv
                 PROVE  FilesFollowProcess
        OBVIOUS
    <2>1. CertShape /\ CalmInv /\ EndInv /\ "shutdown" \in Jobs
        BY DEF CertInv, Jobs
    <2>2. ASSUME running, Idle, ~ragged
          PROVE  FilesSettled /\ \A k \in Jobs : \A act : ~Plans(k, act)
        <3>1. \A k \in Jobs : todo[k] = <<>>
            BY <2>2 DEF Idle
        <3> QED
            BY <2>1, <2>2, <3>1, IdlePlansNothing DEF CalmInv, Calm, FilesSettled
    <2>3. FilesFollowMemory
        BY <2>2 DEF FilesFollowMemory, FilesSettled, CaSettled, CrlSettled, WillFetchCa
    <2>4. PairRenewed
        <3> SUFFICES ASSUME running, Idle, ~ragged, ~expired
                     PROVE  Paired
            BY DEF PairRenewed
        <3>1. \A k \in Makers, act \in KeyOps \cup CertOps : ~Plans(k, act)
            BY <2>2 DEF Makers, Jobs, Crons
        <3>2. Matches(disk.cert)
            BY <2>2, <3>1 DEF FilesSettled, PairSettled
        <3>3. disk.cert # 0
            BY <2>1, <3>2, ShapeNumbers DEF Matches
        <3> QED
            BY <3>2, <3>3 DEF Paired, Matches
    <2>5. NothingLeftBehind
        <3> SUFFICES ASSUME ~running, deletes, ~ragged, NEW file \in DOMAIN disk
                     PROVE  disk[file] = 0
            BY DEF NothingLeftBehind
        <3>1. file \in CertFiles
            BY <2>1 DEF CertShape, CertFiles
        <3> QED
            BY <2>1, <3>1 DEF EndInv
    <2> QED
        BY <2>3, <2>4, <2>5 DEF FilesFollowProcess
<1>2. CertInv /\ [CertNext]_certVars => CertInv'
    BY CertInvNext
<1> QED
    BY <1>1, <1>2, CertInvInit, PTL DEF CertSpec
=============================================================================
