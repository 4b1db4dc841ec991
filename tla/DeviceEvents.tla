----------------------------- MODULE DeviceEvents -----------------------------
(***************************************************************************)
(* x509-identity-mgmt beside the device manager: a request that gives a    *)
(* certificate to a device asks whether the device exists, with a cache in *)
(* MongoDB in front of the device manager, and the device manager's events *)
(* keep the cache and the certificates up to date.  One tenant.            *)
(***************************************************************************)
EXTENDS Naturals, Sequences, FiniteSets

CONSTANTS
    OwnerDevices, Certificates,
    NoOwner,       \* belongs to nobody
    MaxDeviceEvents

ASSUME DeviceEventsAssumption == NoOwner \notin OwnerDevices /\ MaxDeviceEvents \in Nat

VARIABLES
    existing,       \* device manager: its devices
    everExisted,    \* (history)
    events,         \* Kafka: events not yet consumed
    removing,       \* device whose removal is being handled, or NoDevice
    devicesOf,      \* DeviceModel: "tenant" -> entries with the tenant's name,
                    \* "undefined" -> entries without one
    loaded,         \* TenantManager.tenants has the tenant
    owner,          \* certificate -> device
    giving,         \* certificate -> the request that gives it to a device
    announcedEvents

eventVars == <<existing, everExisted, events, removing, devicesOf, loaded, owner, giving, announcedEvents>>

NoGiving == [phase |-> "idle", dev |-> NoOwner]

DeviceEventsInit ==
    /\ existing = {} /\ everExisted = {} /\ events = << >>
    /\ removing = NoOwner
    /\ devicesOf = [tenant |-> {}, undefined |-> {}]
    /\ loaded \in BOOLEAN
    /\ owner = [c \in Certificates |-> NoOwner]
    /\ giving = [c \in Certificates |-> NoGiving]
    /\ announcedEvents = 0

-----------------------------------------------------------------------------
(* The device manager *)

DeviceManagerChanges(d) ==
    /\ announcedEvents < MaxDeviceEvents
    /\ announcedEvents' = announcedEvents + 1
    /\ existing' = IF d \in existing THEN existing \ {d} ELSE existing \cup {d}
    /\ everExisted' = everExisted \cup {d}
    /\ events' = Append(events, [event |-> IF d \in existing THEN "remove" ELSE "create", dev |-> d])
    /\ UNCHANGED <<removing, devicesOf, loaded, owner, giving>>

-----------------------------------------------------------------------------
(* DeviceMgrEventEngine.process and the runnable *)

\* The engine passes the name of the tenant, and the runnable takes its attribute id.
EventTenant == "undefined"

OnCreation ==
    /\ removing = NoOwner
    /\ events # << >> /\ Head(events).event = "create"
    /\ events' = Tail(events)
    /\ devicesOf' = [devicesOf EXCEPT ![EventTenant] = @ \cup {Head(events).dev}]
    /\ UNCHANGED <<existing, everExisted, removing, loaded, owner, giving, announcedEvents>>

\* Removes the entry, then lists the certificates to disassociate.
OnRemoval ==
    /\ removing = NoOwner
    /\ events # << >> /\ Head(events).event = "remove"
    /\ events' = Tail(events)
    /\ devicesOf' = [devicesOf EXCEPT ![EventTenant] = @ \ {Head(events).dev}]
    /\ removing' = Head(events).dev
    /\ UNCHANGED <<existing, everExisted, loaded, owner, giving, announcedEvents>>

\* listCertificates: each certificate was recorded with the name of its tenant.
CertificatesListed == {c \in Certificates : owner[c] = removing /\ EventTenant = "tenant"}

\* changeOwnership of the certificates listed.
Disassociates ==
    /\ removing # NoOwner
    /\ owner' = [c \in Certificates |-> IF c \in CertificatesListed THEN NoOwner ELSE owner[c]]
    /\ removing' = NoOwner
    /\ UNCHANGED <<existing, everExisted, events, devicesOf, loaded, giving, announcedEvents>>

\* TenantManager: creation adds the tenant, removal compares its id with an
\* object and finds nothing to remove.
TenantArrives ==
    /\ ~loaded
    /\ loaded' = TRUE
    /\ UNCHANGED <<existing, everExisted, events, removing, devicesOf, owner, giving, announcedEvents>>

-----------------------------------------------------------------------------
(* A request that gives certificate c to a device: ensureDeviceExists *)

Advance(c, phase) == giving' = [giving EXCEPT ![c].phase = phase]
Gives(c, d) ==
    /\ giving[c].phase = "idle"
    /\ giving' = [giving EXCEPT ![c] = [phase |-> "cache", dev |-> d]]
    /\ UNCHANGED <<existing, everExisted, events, removing, devicesOf, loaded, owner, announcedEvents>>

\* Mutant: the entries of every tenant count, those of events included.
ContainsAny(c) ==
    /\ giving[c].phase = "cache"
    /\ Advance(c, IF devicesOf.tenant \cup devicesOf.undefined # {} THEN "save" ELSE "ask")
    /\ UNCHANGED <<existing, everExisted, events, removing, devicesOf, loaded, owner, announcedEvents>>

\* deviceModel.contains.
Contains(c) ==
    /\ giving[c].phase = "cache"
    /\ Advance(c, IF giving[c].dev \in devicesOf.tenant THEN "save" ELSE "ask")
    /\ UNCHANGED <<existing, everExisted, events, removing, devicesOf, loaded, owner, announcedEvents>>

\* getDevice: the answer of the device manager, or an error (BadGateway, also
\* for a tenant that is not loaded).
DeviceManagerAnswers(c) ==
    /\ giving[c].phase = "ask"
    /\ \/ loaded /\ giving[c].dev \in existing /\ Advance(c, "insert")
       \/ giving' = [giving EXCEPT ![c] = NoGiving]
    /\ UNCHANGED <<existing, everExisted, events, removing, devicesOf, loaded, owner, announcedEvents>>

\* deviceModel.insert, with the tenant's name.
InsertsDevice(c) ==
    /\ giving[c].phase = "insert"
    /\ devicesOf' = [devicesOf EXCEPT !.tenant = @ \cup {giving[c].dev}]
    /\ Advance(c, "save")
    /\ UNCHANGED <<existing, everExisted, events, removing, loaded, owner, announcedEvents>>

\* The record of the certificate is saved or updated.
SavesOwner(c) ==
    /\ giving[c].phase = "save"
    /\ owner' = [owner EXCEPT ![c] = giving[c].dev]
    /\ giving' = [giving EXCEPT ![c] = NoGiving]
    /\ UNCHANGED <<existing, everExisted, events, removing, devicesOf, loaded, announcedEvents>>

DeviceEventsNext ==
    \/ \E d \in OwnerDevices : DeviceManagerChanges(d)
    \/ OnCreation \/ OnRemoval \/ Disassociates \/ TenantArrives
    \/ \E c \in Certificates :
        \/ \E d \in OwnerDevices : Gives(c, d)
        \/ Contains(c) \/ DeviceManagerAnswers(c) \/ InsertsDevice(c) \/ SavesOwner(c)

DeviceEventsSpec == DeviceEventsInit /\ [][DeviceEventsNext]_eventVars

-----------------------------------------------------------------------------
DeviceEventsTypeOK ==
    /\ devicesOf.tenant \cup devicesOf.undefined \subseteq OwnerDevices
    /\ owner \in [Certificates -> OwnerDevices \cup {NoOwner}]
    /\ removing \in OwnerDevices \cup {NoOwner}
    /\ \A c \in Certificates : giving[c].phase \in {"idle", "cache", "ask", "insert", "save"}

\* A certificate is given only to a device that existed for the tenant, however
\* the answers of the device manager, its events and the cache interleave
\* (ensureDeviceExists: "the device exists and belongs to the current tenant").
OwnersExisted == \A c \in Certificates : owner[c] \in everExisted \cup {NoOwner}

\* The removal of a device leaves no certificate with it (onRemoval:
\* "disassociates the device from the certificates").
RemovalReleases ==
    [][removing # NoOwner /\ removing' = NoOwner
         => \A c \in Certificates : owner'[c] # removing]_eventVars
=============================================================================
