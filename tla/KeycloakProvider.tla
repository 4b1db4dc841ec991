-------------------------- MODULE KeycloakProvider --------------------------
(***************************************************************************)
(* iam/keycloak/dojot-provider: the extension of Keycloak that makes a     *)
(* tenant of a realm.  A realm is created or removed in a transaction of   *)
(* Keycloak; the listener customises the new realm from a representation   *)
(* that the factory loads once and clones for each session, and publishes  *)
(* the event on Kafka, waiting for it, before the transaction commits.     *)
(* What fails on the way rolls the transaction back.                       *)
(***************************************************************************)
EXTENDS Integers, Sequences, FiniteSets

CONSTANTS
    Realms, Master, ValidRealms,
                   \* validRealmNameRegex matches the valid ones
    Sessions, NoRealm, NoRep,
    SmtpConfigured,
    MaxTransactions, MaxRealmFaults

\* What a realm, or a representation, may have.
Contents == [parts : SUBSET {"scope", "flow"},
             clients : SUBSET ({"dojot-proxy", "gui", "account"} \X {"own", "custom", "configured"}),
             roles : SUBSET {"user"}, clientRoles : SUBSET {<<"gui", "viewer">>, <<"nobody", "viewer">>},
             users : SUBSET ({"admin"} \X {"own", "custom", "configured"}), resets : BOOLEAN]

ASSUME KeycloakAssumption ==
    /\ Master \in Realms /\ ValidRealms \subseteq Realms /\ NoRealm \notin Contents
    /\ SmtpConfigured \in BOOLEAN /\ {MaxTransactions, MaxRealmFaults} \subseteq Nat

VARIABLES
    factoryRep,    \* DojotProviderFactoryImpl.customRealmRep
    realms,        \* committed realms
    born,          \* of each name, how many realms were committed
    op,            \* what each session does
    tenantTopic,   \* the Kafka topic: <<event, realm>>
    rolledBack,    \* events whose transaction rolled back (history)
    transactions, realmFaults

keycloakVars == <<factoryRep, realms, born, op, tenantTopic, rolledBack, transactions, realmFaults>>

-----------------------------------------------------------------------------
(* A realm, and the representation of the customizations.  A part is what  *)
(* an alias or a name alone identifies: a scope, a flow, an action or a    *)
(* component.  A client has a secret, a user a credential: its own, the    *)
(* one of the representation, or the one configured.                       *)

CustomRep ==
    [parts |-> {"scope", "flow"},
     clients |-> {<<"dojot-proxy", "custom">>, <<"gui", "custom">>, <<"account", "custom">>},
     roles |-> {"user"},
     clientRoles |-> {<<"gui", "viewer">>},
     users |-> {<<"admin", "custom">>},
     resets |-> TRUE]

\* Keycloak's defaults, external; an imported realm brings entries of the same names.
Defaults == [parts |-> {"flow"}, clients |-> {<<"account", "own">>}, roles |-> {},
             clientRoles |-> {}, users |-> {}, resets |-> FALSE]
Scoped == [Defaults EXCEPT !.parts = {"flow", "scope"}]
Imported == [Scoped EXCEPT !.clients = @ \cup {<<"gui", "own">>}, !.roles = {"user"}, !.users = {<<"admin", "own">>}]

\* A representation with a role of a client that nobody has.
OrphanRep == [CustomRep EXCEPT !.clientRoles = {<<"nobody", "viewer">>}]

InternalClients == {"account"}
Named(pairs) == {p[1] : p \in pairs}
Missing(pairs, names) == {p \in pairs : p[1] \notin names}

-----------------------------------------------------------------------------
(* DojotRealmManager.  What the realm has already leaves the               *)
(* representation, so that the import creates nothing twice.               *)

PrepareRealm(rep) == [rep EXCEPT !.resets = @ /\ SmtpConfigured]

\* prepareClientScopes, prepareAuthenticationFlows, prepareRequiredActions, prepareComponentExports.
PrepareParts(rep, content) == [rep EXCEPT !.parts = @ \ content.parts]

\* The clients of dojot take their secret from a file.
PrepareClients(rep, content) ==
    LET new == Missing(rep.clients, InternalClients \cup Named(content.clients))
    IN  [rep EXCEPT !.clients = {<<c[1], IF c[1] = "dojot-proxy" THEN "configured" ELSE c[2]>> : c \in new}]

ClientExists(client, rep, content) == client \in Named(rep.clients) \cup Named(content.clients)

PrepareRoles(rep, content) ==
    [rep EXCEPT !.roles = @ \ content.roles, !.clientRoles = @ \ content.clientRoles]

\* The administrator gets the configured password.
PrepareUsers(rep, content) ==
    [rep EXCEPT !.users = {<<u, IF u = "admin" THEN "configured" ELSE "custom">> :
                              u \in Named(@) \ Named(content.users)}]

Prepared(rep, content) ==
    LET clients == PrepareClients(PrepareParts(PrepareRealm(rep), content), content)
    IN  PrepareUsers(PrepareRoles(clients, content), content)

\* A missing secret and the roles of a client that nobody has stop the import.
NeedsSecret(rep) == "dojot-proxy" \in Named(rep.clients)
RolesHaveClients(rep, content) == \A r \in rep.clientRoles : ClientExists(r[1], rep, content)

\* doImport: importRealm adds the representation to the realm.
DoImport(rep, content) ==
    [parts |-> content.parts \cup rep.parts, clients |-> content.clients \cup rep.clients,
     roles |-> content.roles \cup rep.roles, clientRoles |-> content.clientRoles \cup rep.clientRoles,
     users |-> content.users \cup rep.users, resets |-> rep.resets]

-----------------------------------------------------------------------------
(* DojotProviderFactoryImpl                                                *)

NoOp == [phase |-> "idle", kind |-> "create", name |-> Master, content |-> Defaults, rep |-> NoRep,
         of |-> 0, event |-> 0]

KeycloakInit ==
    /\ factoryRep = NoRep /\ realms = [r \in Realms |-> NoRealm] /\ born = [r \in Realms |-> 0]
    /\ op = [s \in Sessions |-> NoOp] /\ tenantTopic = <<>> /\ rolledBack = {}
    /\ transactions = 0 /\ realmFaults = 0

\* init: the JSON file is read once, without its identifiers; without it Keycloak does not start.
LoadsRepresentation ==
    /\ factoryRep = NoRep /\ factoryRep' \in {CustomRep, OrphanRep}
    /\ UNCHANGED <<realms, born, op, tenantTopic, rolledBack, transactions, realmFaults>>

\* Mutant: the provider works on the factory's.
FactoryRepShared(rep) == rep

\* create clones the representation: what a session does to its own leaves the factory's alone.
FactoryRepAfter(rep) == factoryRep

-----------------------------------------------------------------------------
(* Transactions of Keycloak, external                                      *)

BeginsTransaction(s) ==
    /\ factoryRep # NoRep /\ op[s].phase = "idle"
    /\ transactions < MaxTransactions /\ transactions' = transactions + 1
    /\ UNCHANGED <<factoryRep, realms, born, tenantTopic, rolledBack, realmFaults>>

\* The name of a realm is unique in the database: a second creation of it waits.
\* Nothing is done for the master realm.
CreatesRealm(s, r, content) ==
    /\ BeginsTransaction(s) /\ realms[r] = NoRealm
    /\ \A t \in Sessions : op[t].phase # "idle" /\ op[t].kind = "create" => op[t].name # r
    /\ op' = [op EXCEPT ![s] = [NoOp EXCEPT !.phase = IF r = Master THEN "commit" ELSE "validate",
                                            !.name = r, !.content = content, !.rep = factoryRep, !.of = born[r]]]

RemovesRealm(s, r) ==
    /\ BeginsTransaction(s) /\ realms[r] # NoRealm /\ r # Master
    /\ op' = [op EXCEPT ![s] = [NoOp EXCEPT !.phase = "publish", !.kind = "remove", !.name = r, !.of = born[r]]]

RealmFails == realmFaults < MaxRealmFaults /\ realmFaults' = realmFaults + 1

\* The realm of a removal may be gone, and another one have its name.
CommitsRealm(s) ==
    /\ op[s].phase = "commit"
    /\ op[s].kind = "remove" => realms[op[s].name] # NoRealm /\ born[op[s].name] = op[s].of
    /\ op' = [op EXCEPT ![s] = NoOp]
    /\ IF op[s].kind = "create"
       THEN /\ realms' = [realms EXCEPT ![op[s].name] = op[s].content]
            /\ born' = [born EXCEPT ![op[s].name] = @ + 1]
       ELSE realms' = [realms EXCEPT ![op[s].name] = NoRealm] /\ UNCHANGED born
    /\ UNCHANGED <<factoryRep, tenantTopic, rolledBack, transactions, realmFaults>>

\* By a failure of the database, or because the realm to remove is gone.
CommitFails(s) ==
    /\ op[s].phase = "commit" /\ op' = [op EXCEPT ![s] = NoOp]
    /\ IF op[s].kind = "remove" /\ (realms[op[s].name] = NoRealm \/ born[op[s].name] # op[s].of)
       THEN UNCHANGED realmFaults
       ELSE RealmFails
    /\ rolledBack' = rolledBack \cup ({op[s].event} \ {0})
    /\ UNCHANGED <<factoryRep, realms, born, tenantTopic, transactions>>

-----------------------------------------------------------------------------
(* RealmEventListener and DojotProviderImpl                                *)

\* An exception of the listener rolls the transaction back.
ListenerThrows(s) ==
    /\ op' = [op EXCEPT ![s] = NoOp]
    /\ UNCHANGED <<realms, born, tenantTopic, rolledBack, transactions>>

ValidatesRealm(s) ==
    /\ op[s].phase = "validate"
    /\ IF op[s].name \in ValidRealms
       THEN op' = [op EXCEPT ![s].phase = "customize"] /\ UNCHANGED <<realms, born, tenantTopic, rolledBack, transactions>>
       ELSE ListenerThrows(s)
    /\ UNCHANGED <<factoryRep, realmFaults>>

CustomizesRealm(s) ==
    /\ op[s].phase = "customize"
    /\ LET rep == Prepared(op[s].rep, op[s].content)
       IN  /\ RolesHaveClients(rep, op[s].content)
           /\ op' = [op EXCEPT ![s].phase = "publish", ![s].rep = rep, ![s].content = DoImport(rep, op[s].content)]
           /\ factoryRep' = FactoryRepAfter(rep)
    /\ UNCHANGED <<realms, born, tenantTopic, rolledBack, transactions, realmFaults>>

\* A secret that is not there, a password that the realm's policy does not take, or a role
\* without a client.
CustomizationFails(s) ==
    /\ op[s].phase = "customize" /\ ListenerThrows(s)
    /\ LET rep == Prepared(op[s].rep, op[s].content)
       IN  /\ \/ (NeedsSecret(rep) \/ rep.users # {}) /\ RealmFails
              \/ ~RolesHaveClients(rep, op[s].content) /\ UNCHANGED realmFaults
           /\ factoryRep' = FactoryRepAfter(rep)

Event(s) == <<IF op[s].kind = "create" THEN "CREATE" ELSE "DELETE", op[s].name>>

\* DojotkafkaProducer.produce waits for the broker's answer.
Publishes(s) ==
    /\ op[s].phase = "publish"
    /\ tenantTopic' = Append(tenantTopic, Event(s))
    /\ op' = [op EXCEPT ![s].phase = "commit", ![s].event = Len(tenantTopic) + 1]
    /\ UNCHANGED <<factoryRep, realms, born, rolledBack, transactions, realmFaults>>

\* Without the answer produce throws, whether the broker has the event or not.
PublishFails(s) ==
    /\ op[s].phase = "publish" /\ RealmFails /\ op' = [op EXCEPT ![s] = NoOp]
    /\ \/ UNCHANGED <<tenantTopic, rolledBack>>
       \/ tenantTopic' = Append(tenantTopic, Event(s)) /\ rolledBack' = rolledBack \cup {Len(tenantTopic) + 1}
    /\ UNCHANGED <<factoryRep, realms, born, transactions>>

KeycloakNext ==
    \/ LoadsRepresentation
    \/ \E s \in Sessions :
         \/ \E r \in Realms, c \in {Defaults, Scoped, Imported} : CreatesRealm(s, r, c)
         \/ \E r \in Realms : RemovesRealm(s, r)
         \/ ValidatesRealm(s) \/ CustomizesRealm(s) \/ CustomizationFails(s)
         \/ Publishes(s) \/ PublishFails(s) \/ CommitsRealm(s) \/ CommitFails(s)

-----------------------------------------------------------------------------
(* Properties                                                              *)

KeycloakTypeOK ==
    /\ factoryRep \in {NoRep} \cup Contents /\ realms \in [Realms -> {NoRealm} \cup Contents]
    /\ born \in [Realms -> 0..MaxTransactions]
    /\ \A s \in Sessions :
         /\ op[s].phase \in {"idle", "validate", "customize", "publish", "commit"}
         /\ op[s].kind \in {"create", "remove"} /\ op[s].name \in Realms /\ op[s].content \in Contents
         /\ op[s].rep \in {NoRep} \cup Contents /\ op[s].event \in 0..Len(tenantTopic)
    /\ tenantTopic \in Seq({"CREATE", "DELETE"} \X Realms) /\ rolledBack \subseteq 1..Len(tenantTopic)
    /\ transactions \in 0..MaxTransactions /\ realmFaults \in 0..MaxRealmFaults

\* Every tenant has the whole customization, however many realms were customised before it and
\* whatever they had of their own; the placeholders for the secret of dojot's client and for the
\* administrator's password never get into a realm.
RealmsAreCustomised ==
    \A r \in Realms \ {Master} : realms[r] # NoRealm =>
        /\ CustomRep.parts \subseteq realms[r].parts /\ CustomRep.roles \subseteq realms[r].roles
        /\ Named(CustomRep.clients) \subseteq Named(realms[r].clients)
        /\ CustomRep.clientRoles \subseteq realms[r].clientRoles
        /\ Named(CustomRep.users) \subseteq Named(realms[r].users)
        /\ <<"dojot-proxy", "custom">> \notin realms[r].clients /\ <<"admin", "custom">> \notin realms[r].users

Settled(r) == \A s \in Sessions : op[s].phase # "idle" => op[s].name # r
LastEvent(r) ==
    LET told == {i \in DOMAIN tenantTopic : tenantTopic[i][2] = r /\ i \notin rolledBack}
    IN  IF told = {} THEN "DELETE" ELSE tenantTopic[CHOOSE i \in told : \A j \in told : j <= i][1]

\* Of the events whose transaction did not roll back, the last one of a tenant says whether the
\* tenant exists: no realm comes or goes unannounced, and none in another order than announced.
AnnouncementsFollowRealms ==
    \A r \in Realms \ {Master} : Settled(r) => (realms[r] # NoRealm <=> LastEvent(r) = "CREATE")

\* Both: every tenant is whole, and what the other services hear of tenants whose transactions
\* committed is true.  An event that was published before its transaction rolled back stays false.
RealmsAreAsAnnounced == RealmsAreCustomised /\ AnnouncementsFollowRealms

KeycloakSpec == KeycloakInit /\ [][KeycloakNext]_keycloakVars
===============================================================================
