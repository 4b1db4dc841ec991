------------------------------ MODULE MCServices ------------------------------
(***************************************************************************)
(* The services at the edges of the platform: they exchange events and     *)
(* requests with the device manager, Keycloak and Kafka, which each module *)
(* has as its environment, and share no state.  Each behaviour is one of   *)
(* the service "subject" names, the others resting, so that the run        *)
(* explores the sum of their behaviours and not the product.               *)
(***************************************************************************)
EXTENDS HttpAgent, DeviceEvents, Storer, FileMgmt, CertSidecar, DeviceBatch,
        Reports, RetrieverSync, DeviceData, FtpUpload, TelegrafConsumer,
        TelegrafOutputs, EjbcaFacade, KeycloakProvider, ProcessingRules, FiniteSets, TLC

VARIABLE subject

-----------------------------------------------------------------------------
(* Requests and messages of kafka-ws: orders, operators and quotes that may be *)
(* mistaken for one another, and data of every type.                          *)

LOCAL Plain(text) == [text |-> text, quoted |-> FALSE]
LOCAL Condition(p, o, values) == [parameter |-> p, operator |-> o, values |-> values]
LOCAL Datum(type, text) == [type |-> type, text |-> text]

MCNames == {"attrs", "level", "state"}
LOCAL AttrsLevel == <<"attrs", "level">>
LOCAL AttrsState == <<"attrs", "state">>
MCParameters == {AttrsLevel, AttrsState, <<"level">>}

LOCAL Field(opens, name, closes) == [opens |-> opens, name |-> name, closes |-> closes]
LOCAL Path(name) == Field(<<>>, name, FALSE)

\* level,attrs(state) in both orders; attrs(level,state),level and attrs(level,level,state), which have
\* the same pieces.
MCFieldLists ==
    LET inAttrs == Field(<<"attrs">>, <<"state">>, TRUE)
        first == Field(<<"attrs">>, <<"level">>, FALSE)
        last == Field(<<>>, <<"state">>, TRUE)
        level == Path(<<"level">>)
    IN  {<<>>, <<level, inAttrs>>, <<inAttrs, level>>, <<first, last, level>>, <<first, level, last>>}
MCTextOrder == <<"0", "1", "off", "off,on", "on", "only", "true">>
MCPiecesOf ==
    [t \in {"0", "1", "off", "on", "only", "true"} |-> <<t>>] @@ "off,on" :> <<"off", "on">>
MCNumberOf ==
    "0" :> 0 @@ "1" :> 1 @@ [t \in {"off", "on", "only", "off,on", "true"} |-> NaN]
MCNumberText == 0 :> "0" @@ 1 :> "1"
MCWithin ==
    {<<t, t>> : t \in DOMAIN MCPiecesOf} \cup {<<"on", "only">>, <<"on", "off,on">>, <<"off", "off,on">>}

LOCAL OnOff == Condition(AttrsState, "in", <<Plain("on"), Plain("off")>>)
LOCAL OffOn == Condition(AttrsState, "in", <<Plain("off"), Plain("on")>>)
LOCAL LevelOne(o) == Condition(AttrsLevel, o, <<Plain("1")>>)

MCWheres ==
    {<<>>, <<OffOn>>, <<OnOff, LevelOne("eq")>>, <<LevelOne("eq"), OffOn>>,
     <<Condition(AttrsState, "in", <<[text |-> "off,on", quoted |-> TRUE]>>)>>,
     <<Condition(AttrsState, "nin", <<Plain("off"), Plain("on")>>)>>,
     <<Condition(AttrsLevel, "gt", <<Plain("0"), Plain("1")>>)>>}
    \cup {<<LevelOne(o)>> : o \in {"lt", "bool"}}

MCPayloads ==
    {AttrsLevel :> l @@ AttrsState :> s @@ <<"level">> :> Datum("number", "0") :
        l \in {Datum("number", "0"), Datum("number", "1"), Datum("boolean", "true")},
        s \in {Datum("absent", ""), Datum("string", "only"), Datum("string", "off,on")}}

-----------------------------------------------------------------------------
(* Telegraf: a metric of each of two tenants *)

MCOrgOf == <<"tenant1", "tenant2">>

-----------------------------------------------------------------------------

Subjects == {"http-agent", "x509-identity-mgmt", "storer", "file-mgmt", "cert-sidecar",
             "device-manager-batch", "report-manager", "retriever", "retriever pages",
             "retriever flex", "ejbca", "kafka2ftp", "telegraf", "telegraf outputs", "keycloak", "kafka-ws"}

ServicesInit ==
    /\ subject \in Subjects
    /\ HttpInit /\ DeviceEventsInit /\ StorerInit /\ FileInit /\ CertInit
    /\ BatchInit /\ ReportsInit /\ RetrieverInit /\ DataInit /\ FtpInit /\ TelegrafInit
    /\ OutputsInit /\ EjbcaInit /\ KeycloakInit /\ RulesInit
    \* One initial state of a service at rest is enough.
    /\ subject # "http-agent" => mode = "cn" /\ realm /\ \A d \in Devices : device[d] = "absent"
    /\ subject # "x509-identity-mgmt" => loaded
    /\ subject # "cert-sidecar" => deletes
    /\ subject # "ejbca" => records = {}
    /\ subject # "telegraf outputs" => server = CHOOSE s \in Servers : TRUE

\* The pages and the flexible queries of the retriever have nothing in common but their variables.
Queries == {"retriever pages", "retriever flex"}

\* The services that rest stay as they are.
OthersRest ==
    /\ subject = "http-agent" \/ (subject # "http-agent" /\ UNCHANGED agentVars)
    /\ subject = "x509-identity-mgmt" \/ (subject # "x509-identity-mgmt" /\ UNCHANGED eventVars)
    /\ subject = "storer" \/ (subject # "storer" /\ UNCHANGED storerVars)
    /\ subject = "file-mgmt" \/ (subject # "file-mgmt" /\ UNCHANGED fileVars)
    /\ subject = "cert-sidecar" \/ (subject # "cert-sidecar" /\ UNCHANGED certVars)
    /\ subject = "device-manager-batch" \/ (subject # "device-manager-batch" /\ UNCHANGED batchVars)
    /\ subject = "report-manager" \/ (subject # "report-manager" /\ UNCHANGED reportVars)
    /\ subject = "retriever" \/ (subject # "retriever" /\ UNCHANGED retrieverVars)
    /\ subject = "kafka2ftp" \/ (subject # "kafka2ftp" /\ UNCHANGED ftpVars)
    /\ subject = "telegraf" \/ (subject # "telegraf" /\ UNCHANGED telegrafVars)
    /\ subject = "telegraf outputs" \/ (subject # "telegraf outputs" /\ UNCHANGED outputVars)
    /\ subject = "ejbca" \/ (subject # "ejbca" /\ UNCHANGED ejbcaVars)
    /\ subject = "keycloak" \/ (subject # "keycloak" /\ UNCHANGED keycloakVars)
    /\ subject = "kafka-ws" \/ (subject # "kafka-ws" /\ UNCHANGED ruleVars)
    /\ subject \in Queries \/ (subject \notin Queries /\ UNCHANGED queryVars)

\* Of the uploads, one is of a well-formed request within the limit: the other is of any kind.
PlainUpload == LET u == upload[CHOOSE v \in Uploads : TRUE] IN ~u.big /\ u.kind = "good"

\* A step of one service.
ServicesNext ==
    /\ UNCHANGED subject /\ OthersRest
    /\ \/ subject = "http-agent" /\ HttpNext
       \/ subject = "x509-identity-mgmt" /\ DeviceEventsNext
       \/ subject = "storer" /\ StorerNext
       \/ subject = "file-mgmt" /\ FileNext /\ PlainUpload'
       \/ subject = "cert-sidecar" /\ CertNext
       \/ subject = "device-manager-batch" /\ BatchNext
       \/ subject = "report-manager" /\ ReportsNext
       \/ subject = "retriever" /\ RetrieverNext
       \/ subject = "kafka2ftp" /\ FtpNext
       \/ subject = "telegraf" /\ TelegrafNext
       \/ subject = "telegraf outputs" /\ OutputsNext
       \/ subject = "ejbca" /\ EjbcaNext
       \/ subject = "keycloak" /\ KeycloakNext
       \/ subject = "kafka-ws" /\ RulesNext
       \/ subject = "retriever pages" /\ PagesNext
       \/ subject = "retriever flex" /\ FlexNext

-----------------------------------------------------------------------------
(* What tells states apart: the variables of the service that runs, the others having one value.  Where  *)
(* nothing depends on which of several actors does what, how many are in each state is enough.           *)

LOCAL Census(f) == [v \in {f[x] : x \in DOMAIN f} |-> Cardinality({x \in DOMAIN f : f[x] = v})]

LOCAL StorerView ==
    <<stage, healthVars, writer, writerId, unclosed, orgVars, tenantEvents, storerFaults, Census(handler),
      Census([p \in Points |-> <<p \in topic, p \in buffer, p \in orphans, p \in stored, p \in lost,
                                 p \in excusedPoints>>])>>

\* An upload that is over: whether it was cut short, and whether its temporary object is still to remove.
LOCAL Rest(u) == <<IF u.phase = "lost" THEN "lost" ELSE "over", IF u.rollback = "done" THEN "none" ELSE u.rollback>>
LOCAL FileView ==
    LET going == {u \in Uploads : ~Through(upload[u])} IN
    <<serviceVars, bucket, objectVars, [u \in Uploads |-> IF u \in going THEN upload[u] ELSE Rest(upload[u])],
      leftover \cap (tmp \cup going), deletion, tenancyVars, remover, fileFaults,
      overlapped /\ (listed \/ tenancy = "push")>>

LOCAL BatchView ==
    <<tableVars, madeVars, linking, Census(batch), Census(removal), clearing, announced, refused>>

LOCAL RulesView ==
    <<rulesHeld, message, Census([s \in Subscribers |-> <<subscriber[s], asked[s], ruleOf[s], sentTo[s]>>])>>

LOCAL ReportsView ==
    <<tenancyState, schema, wipes, reportFaults,
      Census([r \in Reports |->
        <<r \in rows, r \in recorded, r \in storedFiles, r \in wiped, attempted[r], job[r], r \in again,
          r \in erasing, Census([w \in {v \in Workers : worker[v].report = r} |-> worker[w].step])>>])>>

MCView ==
    CASE subject = "http-agent" -> <<subject, agentVars>>
      [] subject = "x509-identity-mgmt" -> <<subject, eventVars>>
      [] subject = "storer" -> <<subject, StorerView>>
      [] subject = "file-mgmt" -> <<subject, FileView>>
      [] subject = "cert-sidecar" -> <<subject, certVars>>
      [] subject = "device-manager-batch" -> <<subject, BatchView>>
      [] subject = "report-manager" -> <<subject, ReportsView>>
      [] subject = "retriever" -> <<subject, retrieverVars>>
      [] subject \in Queries -> <<subject, queryVars>>
      [] subject = "kafka2ftp" -> <<subject, ftpVars>>
      [] subject = "telegraf" -> <<subject, telegrafVars>>
      [] subject = "telegraf outputs" -> <<subject, outputVars>>
      [] subject = "ejbca" -> <<subject, ejbcaVars>>
      [] subject = "keycloak" -> <<subject, keycloakVars>>
      [] subject = "kafka-ws" -> <<subject, RulesView>>

ServicesSpec ==
    ServicesInit /\ [][ServicesNext]_<<subject, agentVars, eventVars, storerVars, fileVars, certVars,
                                       batchVars, reportVars, retrieverVars, queryVars, ftpVars,
                                       telegrafVars, outputVars, ejbcaVars, keycloakVars, ruleVars>>

\* A service at rest is as its Init leaves it: the one that moves is enough.
ServicesTypeOK ==
    CASE subject = "http-agent" -> HttpTypeOK
      [] subject = "x509-identity-mgmt" -> DeviceEventsTypeOK
      [] subject = "storer" -> StorerTypeOK
      [] subject = "file-mgmt" -> FileTypeOK
      [] subject = "cert-sidecar" -> CertTypeOK
      [] subject = "device-manager-batch" -> BatchTypeOK
      [] subject = "report-manager" -> ReportsTypeOK
      [] subject = "retriever" -> RetrieverTypeOK
      [] subject \in Queries -> DataTypeOK
      [] subject = "kafka2ftp" -> FtpTypeOK
      [] subject = "telegraf" -> TelegrafTypeOK
      [] subject = "telegraf outputs" -> OutputsTypeOK
      [] subject = "ejbca" -> EjbcaTypeOK
      [] subject = "keycloak" -> KeycloakTypeOK
      [] subject = "kafka-ws" -> RulesTypeOK
===============================================================================
