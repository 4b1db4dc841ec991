---------------------------- MODULE DeviceProofs -----------------------------
(***************************************************************************)
(* What holds of devices for every number of devices, templates, requests, *)
(* events, loads and faults: certificates are given to devices that        *)
(* existed, the announced removal of a device is final and reaches the     *)
(* copy that the retriever keeps, a device that sends over HTTP is one     *)
(* that is enabled, and the pages of a query show the data of a device     *)
(* without a gap.                                                          *)
(***************************************************************************)
EXTENDS DeviceEvents, DeviceBatch, HttpAgent, RetrieverSync, DeviceData,
        SequenceTheorems, FiniteSetTheorems, TLAPS

-----------------------------------------------------------------------------
(* x509-identity-mgmt: who may own a certificate *)

OwnerEvent == [event : {"create", "remove"}, dev : OwnerDevices]

\* The cache answers for devices that the device manager named, and so does a request that is
\* past its question.
DeviceEventsInv ==
    /\ giving \in [Certificates -> [phase : {"idle", "cache", "ask", "insert", "save"},
                                    dev : OwnerDevices \cup {NoOwner}]]
    /\ devicesOf \in [tenant : SUBSET OwnerDevices, undefined : SUBSET OwnerDevices]
    /\ owner \in [Certificates -> OwnerDevices \cup {NoOwner}]
    /\ events \in Seq(OwnerEvent)
    /\ existing \subseteq everExisted /\ everExisted \subseteq OwnerDevices
    /\ devicesOf.tenant \subseteq everExisted
    /\ \A c \in Certificates : giving[c].phase \in {"insert", "save"} => giving[c].dev \in everExisted
    /\ OwnersExisted

LEMMA DeviceEventsInvInit == DeviceEventsInit => DeviceEventsInv
BY DEF DeviceEventsInit, DeviceEventsInv, OwnersExisted, NoGiving

\* A request that gives a certificate, step by step.
LEMMA GivingInv ==
    ASSUME DeviceEventsInv, NEW c \in Certificates,
           \/ \E d \in OwnerDevices : Gives(c, d)
           \/ Contains(c) \/ DeviceManagerAnswers(c) \/ InsertsDevice(c) \/ SavesOwner(c)
    PROVE  DeviceEventsInv'
<1> USE DEF DeviceEventsInv
<1>1. ASSUME NEW d \in OwnerDevices, Gives(c, d)
      PROVE  DeviceEventsInv'
    BY <1>1 DEF Gives, OwnersExisted
<1>2. CASE Contains(c)
    <2>1. PICK phase \in {"save", "ask"} :
            /\ giving' = [giving EXCEPT ![c].phase = phase]
            /\ phase = "save" => giving[c].dev \in devicesOf.tenant
        BY <1>2 DEF Contains, Advance
    <2>2. UNCHANGED <<existing, everExisted, events, devicesOf, owner>>
        BY <1>2 DEF Contains
    <2>3. giving' \in [Certificates -> [phase : {"idle", "cache", "ask", "insert", "save"},
                                       dev : OwnerDevices \cup {NoOwner}]]
        BY <2>1
    <2>4. \A q \in Certificates : giving'[q].phase \in {"insert", "save"} => giving'[q].dev \in everExisted
        BY <2>1
    <2> QED
        BY <2>2, <2>3, <2>4 DEF OwnersExisted
<1>3. CASE DeviceManagerAnswers(c)
    <2>1. UNCHANGED <<existing, everExisted, events, devicesOf, owner>>
        BY <1>3 DEF DeviceManagerAnswers
    <2>2. \/ giving' = [giving EXCEPT ![c].phase = "insert"] /\ giving[c].dev \in everExisted
          \/ giving' = [giving EXCEPT ![c] = NoGiving]
        BY <1>3 DEF DeviceManagerAnswers, Advance
    <2>3. giving' \in [Certificates -> [phase : {"idle", "cache", "ask", "insert", "save"},
                                       dev : OwnerDevices \cup {NoOwner}]]
        BY <2>2 DEF NoGiving
    <2>4. \A q \in Certificates : giving'[q].phase \in {"insert", "save"} => giving'[q].dev \in everExisted
        BY <2>2 DEF NoGiving
    <2> QED
        BY <2>1, <2>3, <2>4 DEF OwnersExisted
<1>4. CASE InsertsDevice(c)
    <2>1. giving[c].dev \in everExisted /\ giving[c].dev \in OwnerDevices
        BY <1>4 DEF InsertsDevice
    <2>2. /\ devicesOf' \in [tenant : SUBSET OwnerDevices, undefined : SUBSET OwnerDevices]
          /\ devicesOf'.tenant \subseteq everExisted
        BY <1>4, <2>1 DEF InsertsDevice
    <2>3. /\ UNCHANGED <<existing, everExisted, events, owner>>
          /\ giving' = [giving EXCEPT ![c].phase = "save"]
        BY <1>4 DEF InsertsDevice, Advance
    <2> QED
        BY <2>1, <2>2, <2>3 DEF OwnersExisted
<1>5. CASE SavesOwner(c)
    BY <1>5 DEF SavesOwner, OwnersExisted, NoGiving
<1> QED
    BY <1>1, <1>2, <1>3, <1>4, <1>5

LEMMA DeviceEventsInvStep == DeviceEventsInv /\ [DeviceEventsNext]_eventVars => DeviceEventsInv'
<1> SUFFICES ASSUME DeviceEventsInv, [DeviceEventsNext]_eventVars
             PROVE  DeviceEventsInv'
    OBVIOUS
<1>1. ASSUME NEW d \in OwnerDevices, DeviceManagerChanges(d)
      PROVE  DeviceEventsInv'
    <2>1. Append(events, [event |-> IF d \in existing THEN "remove" ELSE "create", dev |-> d]) \in Seq(OwnerEvent)
        <3>1. [event |-> IF d \in existing THEN "remove" ELSE "create", dev |-> d] \in OwnerEvent
            BY DEF OwnerEvent
        <3> QED
            BY <3>1 DEF DeviceEventsInv
    <2> QED
        BY <1>1, <2>1 DEF DeviceManagerChanges, DeviceEventsInv, OwnersExisted
<1>2. CASE OnCreation \/ OnRemoval \/ TenantArrives \/ UNCHANGED eventVars
    <2>1. UNCHANGED <<existing, everExisted, owner, giving>> /\ events' \in {events, Tail(events)}
        BY <1>2 DEF OnCreation, OnRemoval, TenantArrives, eventVars
    <2>2. ASSUME events # << >>
          PROVE  Head(events).dev \in OwnerDevices /\ Tail(events) \in Seq(OwnerEvent)
        <3>1. Head(events) \in OwnerEvent /\ Tail(events) \in Seq(OwnerEvent)
            BY <2>2 DEF DeviceEventsInv
        <3> QED
            BY <3>1 DEF OwnerEvent
    <2>3. /\ devicesOf' \in [tenant : SUBSET OwnerDevices, undefined : SUBSET OwnerDevices]
          /\ devicesOf'.tenant = devicesOf.tenant
          /\ events' = events \/ events # << >>
        BY <1>2, <2>2 DEF OnCreation, OnRemoval, TenantArrives, eventVars, EventTenant, DeviceEventsInv
    <2> QED
        BY <2>1, <2>2, <2>3 DEF DeviceEventsInv, OwnersExisted
<1>3. CASE Disassociates
    BY <1>3 DEF Disassociates, DeviceEventsInv, OwnersExisted
<1>4. ASSUME NEW c \in Certificates,
             \/ \E d \in OwnerDevices : Gives(c, d)
             \/ Contains(c) \/ DeviceManagerAnswers(c) \/ InsertsDevice(c) \/ SavesOwner(c)
      PROVE  DeviceEventsInv'
    BY <1>4, GivingInv
<1> QED
    BY <1>1, <1>2, <1>3, <1>4 DEF DeviceEventsNext

\* However the answers of the device manager, its events and the cache interleave, a certificate
\* is given only to a device that existed.
THEOREM OwnersAreDevices == DeviceEventsSpec => []OwnersExisted
<1>1. DeviceEventsInv => OwnersExisted
    BY DEF DeviceEventsInv
<1> QED
    BY <1>1, DeviceEventsInvInit, DeviceEventsInvStep, PTL DEF DeviceEventsSpec

\* The removal being handled is of a device that was announced.
LEMMA RemovingStep ==
    DeviceEventsInv /\ removing \in OwnerDevices \cup {NoOwner} /\ [DeviceEventsNext]_eventVars
        => removing' \in OwnerDevices \cup {NoOwner}
<1> SUFFICES ASSUME DeviceEventsInv, removing \in OwnerDevices \cup {NoOwner}, [DeviceEventsNext]_eventVars
             PROVE  removing' \in OwnerDevices \cup {NoOwner}
    OBVIOUS
<1>1. CASE OnRemoval
    <2>1. Head(events) \in OwnerEvent /\ removing' = Head(events).dev
        BY <1>1 DEF OnRemoval, DeviceEventsInv
    <2> QED
        BY <2>1 DEF OwnerEvent
<1>2. CASE ~OnRemoval
    <2>1. removing' = removing \/ removing' = NoOwner
        BY <1>2 DEF DeviceEventsNext, DeviceManagerChanges, OnCreation, Disassociates, TenantArrives,
            Gives, Contains, DeviceManagerAnswers, InsertsDevice, SavesOwner, eventVars
    <2> QED
        BY <2>1
<1> QED
    BY <1>1, <1>2

DeviceEventsTyped == DeviceEventsInv /\ removing \in OwnerDevices \cup {NoOwner}

LEMMA DeviceEventsTypedInit == DeviceEventsInit => DeviceEventsTyped
BY DeviceEventsInvInit DEF DeviceEventsInit, DeviceEventsTyped

LEMMA DeviceEventsTypedStep == DeviceEventsTyped /\ [DeviceEventsNext]_eventVars => DeviceEventsTyped'
BY DeviceEventsInvStep, RemovingStep DEF DeviceEventsTyped

LEMMA DeviceEventsTypeFromInv == DeviceEventsTyped => DeviceEventsTypeOK
BY DEF DeviceEventsTyped, DeviceEventsInv, DeviceEventsTypeOK

\* The cache, the owners and the removal being handled name devices of the tenant and nothing else
\* (DeviceMgrEventEngine.js, CertificateService.js).
THEOREM DeviceEventsTypeCorrect == DeviceEventsSpec => []DeviceEventsTypeOK
BY DeviceEventsTypedInit, DeviceEventsTypedStep, DeviceEventsTypeFromInv, PTL DEF DeviceEventsSpec

-----------------------------------------------------------------------------
(* device-manager-batch: removals *)

\* The events published so far.
Told == {announced[i] : i \in 1..Len(announced)}

\* A creation that announces a device has one.
SendsOwn == \A b \in Creations : batch[b].phase = "send" => batch[b].device \in BatchDevices

\* Associations need both ends.  A removal that still has to be announced is of a device nobody
\* else has removed: what is counted tells it from a later device with the identifier.
BatchInv ==
    /\ BatchTypeOK /\ SendsOwn
    /\ linked \subseteq Rows \X Templates
    /\ \A x \in Removals : /\ removal[x].phase # "none" => removal[x].device \in BatchDevices
                           /\ removal[x].nth <= made
    /\ \A x \in Removals : removal[x].phase = "send" =>
        /\ <<removal[x].device, removal[x].nth>> \notin Living
        /\ <<"remove", removal[x].device, removal[x].nth>> \notin Told
        /\ \A y \in Removals : /\ removal[y].phase = "send" /\ removal[y].device = removal[x].device
                               /\ removal[y].nth = removal[x].nth
                               => x = y
    /\ \A d \in BatchDevices, n \in Nat : <<"remove", d, n>> \in Told => n <= made /\ <<d, n>> \notin Living
    /\ \A d \in BatchDevices : nth[d] <= made
    /\ \A i, j \in 1..Len(announced) : announced[i][1] = "remove" /\ announced[j] = announced[i] => i = j

LEMMA BatchInvInit == BatchInit => BatchInv
<1> SUFFICES ASSUME BatchInit
             PROVE  BatchInv
    OBVIOUS
<1>1. BatchTypeOK
    BY DeviceBatchAssumption DEF BatchInit, BatchTypeOK, NoBatch, NoRemoval
<1>2. Rows = {} /\ \A e, d, n : <<e, d, n>> \notin Told
    BY DEF BatchInit, Rows, Told
<1> QED
    BY <1>1, <1>2 DEF BatchInit, BatchInv, SendsOwn, NoBatch, NoRemoval

\* What an event adds to those published.
LEMMA AnnouncementGrows ==
    ASSUME BatchTypeOK, NEW e \in {"create", "remove"}, NEW d \in BatchDevices, NEW n \in Nat,
           announced' = Append(announced, <<e, d, n>>)
    PROVE  /\ announced' \in Seq({"create", "remove"} \X BatchDevices \X Nat)
           /\ \A f, o, m : <<f, o, m>> \in Told' <=> <<f, o, m>> \in Told \/ (f = e /\ o = d /\ m = n)
           /\ Len(announced') = Len(announced) + 1 /\ Len(announced) \in Nat
           /\ announced'[Len(announced')] = <<e, d, n>>
           /\ \A i \in 1..Len(announced) : announced'[i] = announced[i]
<1>1. /\ announced \in Seq({"create", "remove"} \X BatchDevices \X Nat)
      /\ <<e, d, n>> \in {"create", "remove"} \X BatchDevices \X Nat
    BY DEF BatchTypeOK
<1>2. /\ announced' \in Seq({"create", "remove"} \X BatchDevices \X Nat)
      /\ Len(announced') = Len(announced) + 1 /\ Len(announced) \in Nat
      /\ announced'[Len(announced')] = <<e, d, n>>
      /\ \A i \in 1..Len(announced) : announced'[i] = announced[i]
    BY <1>1
<1>3. ASSUME NEW f, NEW o, NEW m
      PROVE  <<f, o, m>> \in Told' <=> <<f, o, m>> \in Told \/ (f = e /\ o = d /\ m = n)
    <2>1. 1..Len(announced') = 1..Len(announced) \cup {Len(announced')}
        BY <1>2
    <2>2. <<f, o, m>> \in Told' <=> <<f, o, m>> \in Told \/ <<f, o, m>> = <<e, d, n>>
        BY <1>2, <2>1, Zenon DEF Told
    <2> QED
        BY <2>2
<1> QED
    BY <1>2, <1>3

\* Steps of creations and of templates that change no device.
LEMMA BatchKept ==
    ASSUME BatchInv, BatchTypeOK', SendsOwn', UNCHANGED <<label, madeVars, linked, removal, announced>>
    PROVE  BatchInv'
BY DEF BatchInv, Rows, Living, Told, madeVars

BatchRecord == [phase : {"none", "label", "create", "send"}, next : Labels \cup {0},
                found : SUBSET Templates, device : BatchDevices \cup {NoBatchDevice}, nth : Nat]

LEMMA AdvancedType ==
    ASSUME NEW c \in BatchRecord
    PROVE  Advanced(c) \in BatchRecord /\ Advanced(c).phase # "send"
BY DEF Advanced, NoBatch, BatchRecord

LEMMA CreationsInv ==
    ASSUME BatchInv, NEW b \in Creations, ValidatesTemplates(b) \/ ChecksLabel(b)
    PROVE  BatchInv'
<1>1. batch \in [Creations -> BatchRecord] /\ BatchTypeOK
    BY DEF BatchInv, BatchTypeOK, BatchRecord
<1>2. UNCHANGED <<tableVars, madeVars, linking, removal, clearing, announced, refused>>
    BY DEF ValidatesTemplates, ChecksLabel
<1>3. batch' \in [Creations -> BatchRecord] /\ SendsOwn'
    <2>1. CASE ValidatesTemplates(b)
        BY <1>1, <2>1 DEF ValidatesTemplates, BatchRecord, BatchInv, SendsOwn
    <2>2. CASE ChecksLabel(b)
        <3>1. batch[b] \in BatchRecord /\ Advanced(batch[b]) \in BatchRecord /\ Advanced(batch[b]).phase # "send"
            BY <1>1, AdvancedType
        <3>2. [batch[b] EXCEPT !.phase = "create"] \in BatchRecord
            BY <3>1 DEF BatchRecord
        <3> QED
            BY <1>1, <2>2, <3>1, <3>2 DEF ChecksLabel, BatchInv, SendsOwn
    <2> QED
        BY <2>1, <2>2
<1>4. BatchTypeOK'
    BY <1>1, <1>2, <1>3 DEF BatchTypeOK, BatchRecord, tableVars, madeVars
<1> QED
    BY <1>2, <1>3, <1>4, BatchKept DEF tableVars

LEMMA TemplatesInv ==
    ASSUME BatchInv, NEW t \in Templates, ChecksTemplate(t) \/ DeletesAttrs(t) \/ DeletesTemplate(t)
    PROVE  BatchInv'
<1>1. UNCHANGED <<label, madeVars, linked, linking, batch, removal, announced, refused>>
    BY DEF ChecksTemplate, DeletesAttrs, DeletesTemplate, tableVars
<1>2. /\ templates' \subseteq Templates /\ attributed' \subseteq Templates
      /\ clearing' \in [Templates -> {"none", "attrs", "template"}]
    BY DEF ChecksTemplate, DeletesAttrs, DeletesTemplate, tableVars, BatchInv, BatchTypeOK
<1>3. BatchTypeOK' /\ SendsOwn'
    BY <1>1, <1>2 DEF BatchInv, BatchTypeOK, SendsOwn, madeVars
<1> QED
    BY <1>1, <1>3, BatchKept

\* A device is counted anew, whatever its identifier.
LEMMA CreatesDeviceInv ==
    ASSUME BatchInv, NEW b \in Creations, CreatesDevice(b)
    PROVE  BatchInv'
<1>1. /\ batch \in [Creations -> BatchRecord] /\ BatchTypeOK
      /\ UNCHANGED <<linked, templates, attributed, linking, removal, clearing, announced, refused>>
    BY DEF CreatesDevice, BatchInv, BatchTypeOK, BatchRecord
<1>2. CASE batch' = [batch EXCEPT ![b] = NoBatch] /\ UNCHANGED <<label, madeVars>>
    <2>1. batch' \in [Creations -> BatchRecord] /\ SendsOwn'
        BY <1>1, <1>2 DEF BatchRecord, NoBatch, BatchInv, SendsOwn
    <2>2. BatchTypeOK'
        BY <1>1, <1>2, <2>1 DEF BatchTypeOK, BatchRecord, madeVars
    <2> QED
        BY <1>1, <1>2, <2>1, <2>2, BatchKept
<1>3. ASSUME NEW d \in BatchDevices, d \notin Rows, made < MaxMade, made' = made + 1,
             label' = [label EXCEPT ![d] = batch[b].next], nth' = [nth EXCEPT ![d] = made'],
             batch' = [batch EXCEPT ![b] = [@ EXCEPT !.phase = "send", !.device = d, !.nth = made']]
      PROVE  BatchInv'
    <2>1. /\ batch' \in [Creations -> BatchRecord] /\ batch[b].next \in Labels \cup {0}
          /\ made \in Nat /\ made' \in 0..MaxMade
        <3>1. made \in 0..MaxMade /\ made \in Nat /\ made' \in 0..MaxMade /\ made' \in Nat
            BY <1>1, <1>3, DeviceBatchAssumption DEF BatchTypeOK
        <3>2. /\ batch[b] \in BatchRecord
              /\ [batch[b] EXCEPT !.phase = "send", !.device = d, !.nth = made'] \in BatchRecord
            BY <1>1, <3>1 DEF BatchRecord
        <3>3. batch[b].next \in Labels \cup {0}
            BY <3>2 DEF BatchRecord
        <3> QED
            BY <1>1, <1>3, <3>1, <3>2, <3>3
    <2>2. SendsOwn'
        BY <1>1, <1>3 DEF BatchInv, SendsOwn, BatchRecord
    <2>3. BatchTypeOK'
        BY <1>1, <1>3, <2>1 DEF BatchTypeOK, BatchRecord
    <2>4. Rows \subseteq Rows' /\ Rows' \subseteq Rows \cup {d}
        BY <1>1, <1>3 DEF Rows, BatchInv, BatchTypeOK
    <2>5. \A e, o, n : <<e, o, n>> \in Told' <=> <<e, o, n>> \in Told
        BY <1>1 DEF Told
    <2>6. \A o \in BatchDevices, n \in Nat : n <= made /\ <<o, n>> \notin Living => <<o, n>> \notin Living'
        BY <1>1, <1>3, <2>1, <2>4 DEF Living, BatchTypeOK
    <2>7. \A x \in Removals : /\ removal[x].nth \in Nat /\ removal[x].nth <= made
                              /\ removal[x].phase # "none" => removal[x].device \in BatchDevices
        BY <1>1 DEF BatchInv, BatchTypeOK
    <2>8. \A n \in Nat : n <= made => n <= made'
        BY <1>3, <2>1
    <2>9. \A o \in BatchDevices : nth'[o] <= made'
        BY <1>1, <1>3, <2>1, <2>8 DEF BatchInv, BatchTypeOK
    <2>10. linked' \subseteq Rows' \X Templates
        BY <1>1, <2>4 DEF BatchInv
    <2>11. \A o \in BatchDevices, n \in Nat : <<"remove", o, n>> \in Told' => n <= made' /\ <<o, n>> \notin Living'
        BY <2>5, <2>6, <2>8 DEF BatchInv
    <2>12. \A x \in Removals : removal'[x].phase = "send" =>
            /\ <<removal'[x].device, removal'[x].nth>> \notin Living'
            /\ <<"remove", removal'[x].device, removal'[x].nth>> \notin Told'
        <3>1. ASSUME NEW x \in Removals, removal[x].phase = "send"
              PROVE  /\ <<removal[x].device, removal[x].nth>> \notin Living'
                     /\ <<"remove", removal[x].device, removal[x].nth>> \notin Told'
            <4>1. /\ removal[x].device \in BatchDevices /\ removal[x].nth \in Nat /\ removal[x].nth <= made
                  /\ <<removal[x].device, removal[x].nth>> \notin Living
                  /\ <<"remove", removal[x].device, removal[x].nth>> \notin Told
                BY <2>7, <3>1 DEF BatchInv
            <4>2. <<removal[x].device, removal[x].nth>> \notin Living'
                BY <2>6, <4>1, Zenon
            <4>3. <<"remove", removal[x].device, removal[x].nth>> \notin Told'
                BY <2>5, <4>1, Zenon
            <4> QED
                BY <4>2, <4>3
        <3> QED
            BY <1>1, <3>1
    <2>13. \A x, y \in Removals :
            /\ removal'[x].phase = "send" /\ removal'[y].phase = "send"
            /\ removal'[y].device = removal'[x].device /\ removal'[y].nth = removal'[x].nth
            => x = y
        BY <1>1 DEF BatchInv
    <2>14. \A i, j \in 1..Len(announced') : announced'[i][1] = "remove" /\ announced'[j] = announced'[i] => i = j
        BY <1>1 DEF BatchInv
    <2> QED
        <3>1. \A x \in Removals : /\ removal'[x].phase # "none" => removal'[x].device \in BatchDevices
                                  /\ removal'[x].nth <= made'
            BY <1>1, <2>7, <2>8
        <3> QED
            BY <2>2, <2>3, <2>9, <2>10, <2>11, <2>12, <2>13, <2>14, <3>1, Zenon DEF BatchInv
<1> QED
    BY <1>2, <1>3 DEF CreatesDevice

LEMMA SendsCreateInv ==
    ASSUME BatchInv, NEW b \in Creations, SendsCreate(b)
    PROVE  BatchInv'
<1>1. /\ batch \in [Creations -> BatchRecord] /\ BatchTypeOK
      /\ UNCHANGED <<tableVars, madeVars, removal, clearing>>
    BY DEF SendsCreate, BatchInv, BatchTypeOK, BatchRecord
<1>2. /\ batch[b] \in BatchRecord /\ batch[b].device \in BatchDevices /\ batch[b].found \subseteq Templates
      /\ batch[b].nth \in Nat
    BY <1>1 DEF SendsCreate, BatchInv, SendsOwn, BatchRecord
<1>3. batch' \in [Creations -> BatchRecord] /\ SendsOwn'
    <2>1. PICK c \in BatchRecord : c.phase # "send" /\ batch' = [batch EXCEPT ![b] = c]
        <3>1. Advanced(batch[b]) \in BatchRecord /\ Advanced(batch[b]).phase # "send"
            BY <1>2, AdvancedType
        <3>2. NoBatch \in BatchRecord /\ NoBatch.phase # "send"
            BY DEF BatchRecord, NoBatch
        <3> QED
            BY <1>1, <3>1, <3>2 DEF SendsCreate
    <2> QED
        BY <1>1, <2>1 DEF BatchInv, SendsOwn
<1>4. linking' \subseteq BatchDevices \X Templates
    <2>1. {batch[b].device} \X batch[b].found \subseteq BatchDevices \X Templates
        BY <1>2
    <2>2. linking' = linking \/ linking' = linking \cup ({batch[b].device} \X batch[b].found)
        BY DEF SendsCreate
    <2> QED
        BY <1>1, <2>1, <2>2 DEF BatchTypeOK
<1>5. CASE UNCHANGED announced /\ refused' = refused + 1 /\ refused < MaxSends
    <2>1. BatchTypeOK'
        BY <1>1, <1>3, <1>4, <1>5, DeviceBatchAssumption DEF BatchTypeOK, BatchRecord, tableVars, madeVars
    <2> QED
        BY <1>1, <1>3, <1>5, <2>1, BatchKept DEF tableVars
<1>6. CASE announced' = Append(announced, <<"create", batch[b].device, batch[b].nth>>) /\ UNCHANGED refused
    <2>1. /\ announced' \in Seq({"create", "remove"} \X BatchDevices \X Nat)
          /\ \A o, n : <<"remove", o, n>> \in Told' <=> <<"remove", o, n>> \in Told
          /\ Len(announced') = Len(announced) + 1 /\ Len(announced) \in Nat
          /\ announced'[Len(announced')] = <<"create", batch[b].device, batch[b].nth>>
          /\ \A i \in 1..Len(announced) : announced'[i] = announced[i]
        BY <1>1, <1>2, <1>6, AnnouncementGrows
    <2>2. BatchTypeOK'
        BY <1>1, <1>3, <1>4, <1>6, <2>1 DEF BatchTypeOK, BatchRecord, tableVars, madeVars
    <2>3. \A i, j \in 1..Len(announced') : announced'[i][1] = "remove" /\ announced'[j] = announced'[i] => i = j
        <3>1. \A i \in 1..Len(announced') : i \in 1..Len(announced) \/ (i = Len(announced') /\ announced'[i][1] # "remove")
            BY <2>1
        <3>2. \A i, j \in 1..Len(announced) : announced[i][1] = "remove" /\ announced[j] = announced[i] => i = j
            BY DEF BatchInv
        <3> QED
            BY <2>1, <3>1, <3>2
    <2> QED
        BY <1>1, <1>3, <2>1, <2>2, <2>3 DEF BatchInv, Rows, Living, tableVars, madeVars
<1> QED
    BY <1>5, <1>6 DEF SendsCreate, SendsEvent

LEMMA LinksInv ==
    ASSUME BatchInv, NEW d \in BatchDevices, NEW t \in Templates, Links(d, t)
    PROVE  BatchInv'
<1>1. /\ UNCHANGED <<label, templates, attributed, madeVars, batch, removal, clearing, announced, refused>>
      /\ linking' \subseteq linking
      /\ linked' \subseteq linked \cup (Rows \X Templates)
    BY DEF Links
<1>2. BatchTypeOK'
    BY <1>1 DEF BatchInv, BatchTypeOK, Rows, madeVars
<1> QED
    BY <1>1, <1>2 DEF BatchInv, Rows, Living, Told, SendsOwn, madeVars

RemovalRecord == [phase : {"none", "unlink", "delete", "send"}, device : BatchDevices \cup {NoBatchDevice},
                  nth : Nat]

\* Steps of a removal before its event.
LEMMA RemovesInv ==
    ASSUME BatchInv, NEW x \in Removals, FindsDevice(x) \/ UnlinksDevice(x)
    PROVE  BatchInv'
<1>1. /\ UNCHANGED <<label, templates, attributed, madeVars, linking, batch, clearing, announced, refused>>
      /\ linked' \subseteq linked
    BY DEF FindsDevice, UnlinksDevice, tableVars
<1>2. PICK d \in BatchDevices, phase \in {"unlink", "delete"}, n \in Nat :
        n <= made /\ removal' = [removal EXCEPT ![x] = [phase |-> phase, device |-> d, nth |-> n]]
    <2>0. removal \in [Removals -> RemovalRecord] /\ made \in Nat
        BY DeviceBatchAssumption DEF BatchInv, BatchTypeOK, RemovalRecord
    <2>1. CASE FindsDevice(x)
        <3>1. PICK d \in BatchDevices : removal' = [removal EXCEPT ![x] = [phase |-> "unlink", device |-> d, nth |-> 0]]
            BY <2>1 DEF FindsDevice, Rows
        <3>2. 0 \in Nat /\ 0 <= made
            BY <2>0
        <3> QED
            BY <3>1, <3>2, Zenon
    <2>2. CASE UnlinksDevice(x)
        <3>1. /\ removal' = [removal EXCEPT ![x] = [@ EXCEPT !.phase = "delete"]] /\ removal[x].phase = "unlink"
              /\ removal[x].device \in BatchDevices /\ removal[x].nth <= made
            BY <2>2 DEF UnlinksDevice, BatchInv
        <3>2. removal[x] \in RemovalRecord
            BY <2>0
        <3>3. /\ [removal[x] EXCEPT !.phase = "delete"]
                    = [phase |-> "delete", device |-> removal[x].device, nth |-> removal[x].nth]
              /\ removal[x].nth \in Nat
            BY <3>2 DEF RemovalRecord
        <3> QED
            BY <2>0, <3>1, <3>3
    <2> QED
        BY <2>1, <2>2
<1>3. BatchTypeOK'
    BY <1>1, <1>2 DEF BatchInv, BatchTypeOK, madeVars
<1>4. /\ removal'[x] = [phase |-> phase, device |-> d, nth |-> n] /\ phase # "send"
      /\ \A y \in Removals \ {x} : removal'[y] = removal[y]
    BY <1>2 DEF BatchInv, BatchTypeOK
<1>5. UNCHANGED <<Rows, Living, Told, made, nth, announced>> /\ SendsOwn'
    BY <1>1 DEF BatchInv, Rows, Living, Told, SendsOwn, madeVars
<1>6. \A y \in Removals : removal'[y].phase = "send" => y # x /\ removal'[y] = removal[y]
    BY <1>4
<1>7. \A y \in Removals : /\ removal'[y].phase # "none" => removal'[y].device \in BatchDevices
                          /\ removal'[y].nth <= made'
    BY <1>2, <1>4, <1>5 DEF BatchInv
<1>8. linked' \subseteq Rows' \X Templates
    BY <1>1, <1>5 DEF BatchInv
<1> QED
    BY <1>3, <1>5, <1>6, <1>7, <1>8 DEF BatchInv

\* The row goes once, and nothing refers to it.
LEMMA DeletesDeviceInv ==
    ASSUME BatchInv, NEW x \in Removals, DeletesDevice(x)
    PROVE  BatchInv'
<1>1. UNCHANGED <<linked, templates, attributed, madeVars, linking, batch, clearing, announced, refused>>
    BY DEF DeletesDevice
<1>2. CASE removal' = [removal EXCEPT ![x] = NoRemoval] /\ UNCHANGED label
    <2>1. BatchTypeOK'
        BY <1>1, <1>2 DEF BatchInv, BatchTypeOK, NoRemoval, madeVars
    <2> QED
        BY <1>1, <1>2, <2>1 DEF BatchInv, BatchTypeOK, Rows, Living, Told, SendsOwn, NoRemoval, madeVars
<1>3. ASSUME NEW d, d = removal[x].device, d \in Rows, \A t \in Templates : <<d, t>> \notin linked,
             label' = [label EXCEPT ![d] = 0], 
             removal' = [removal EXCEPT ![x] = [phase |-> "send", device |-> d, nth |-> nth[d]]]
      PROVE  BatchInv'
    <2>0. removal \in [Removals -> RemovalRecord] /\ d \in BatchDevices /\ nth[d] \in Nat /\ nth[d] <= made
        BY <1>3 DEF BatchInv, BatchTypeOK, RemovalRecord, Rows
    <2>1. BatchTypeOK' /\ Rows' = Rows \ {d} /\ d \in BatchDevices /\ nth[d] \in Nat /\ nth[d] <= made
        <3>1. removal' \in [Removals -> RemovalRecord]
            BY <1>3, <2>0 DEF RemovalRecord
        <3>2. label' \in [BatchDevices -> Labels \cup {0}] /\ Rows' = Rows \ {d}
            BY <1>3, <2>0 DEF BatchInv, BatchTypeOK, Rows
        <3> QED
            BY <1>1, <2>0, <3>1, <3>2 DEF BatchInv, BatchTypeOK, RemovalRecord, madeVars
    <2>2. linked' \subseteq Rows' \X Templates
        BY <1>1, <1>3, <2>1 DEF BatchInv
    <2>3. <<d, nth[d]>> \in Living /\ \A o, n : <<o, n>> \in Living' <=> <<o, n>> \in Living /\ o # d
        BY <1>1, <1>3, <2>1 DEF Living, madeVars
    <2>4. /\ <<"remove", d, nth[d]>> \notin Told
          /\ \A y \in Removals : removal[y].phase = "send" => removal[y].device # d \/ removal[y].nth # nth[d]
        BY <2>1, <2>3 DEF BatchInv
    <2>5. \A e, o, n : <<e, o, n>> \in Told' <=> <<e, o, n>> \in Told
        BY <1>1 DEF Told
    <2>6. /\ removal'[x] = [phase |-> "send", device |-> d, nth |-> nth[d]]
          /\ \A y \in Removals \ {x} : removal'[y] = removal[y]
        BY <1>3, <2>0
    <2>7. UNCHANGED <<made, nth>>
        BY <1>1 DEF madeVars
    <2>8. \A y \in Removals : /\ removal'[y].phase # "none" => removal'[y].device \in BatchDevices
                              /\ removal'[y].nth <= made'
        <3>1. \A y \in Removals : /\ removal[y].phase # "none" => removal[y].device \in BatchDevices
                                  /\ removal[y].nth <= made
            BY DEF BatchInv
        <3> QED
            BY <1>3, <2>1, <2>6, <2>7, <3>1
    <2>9. \A y \in Removals : removal'[y].phase = "send" =>
            /\ <<removal'[y].device, removal'[y].nth>> \notin Living'
            /\ <<"remove", removal'[y].device, removal'[y].nth>> \notin Told'
        <3> SUFFICES ASSUME NEW y \in Removals, removal'[y].phase = "send"
                     PROVE  /\ <<removal'[y].device, removal'[y].nth>> \notin Living'
                            /\ <<"remove", removal'[y].device, removal'[y].nth>> \notin Told'
            OBVIOUS
        <3>1. CASE y = x
            BY <2>3, <2>4, <2>5, <2>6, <3>1
        <3>2. CASE y # x
            <4>1. removal[y].phase = "send" /\ removal'[y] = removal[y]
                BY <2>6, <3>2
            <4>2. /\ <<removal[y].device, removal[y].nth>> \notin Living
                  /\ <<"remove", removal[y].device, removal[y].nth>> \notin Told
                BY <4>1 DEF BatchInv
            <4> QED
                BY <2>3, <2>5, <4>1, <4>2
        <3> QED
            BY <3>1, <3>2
    <2>10. \A y, z \in Removals :
            /\ removal'[y].phase = "send" /\ removal'[z].phase = "send"
            /\ removal'[z].device = removal'[y].device /\ removal'[z].nth = removal'[y].nth
            => y = z
        <3>1. \A y, z \in Removals :
                /\ removal[y].phase = "send" /\ removal[z].phase = "send"
                /\ removal[z].device = removal[y].device /\ removal[z].nth = removal[y].nth
                => y = z
            BY DEF BatchInv
        <3> QED
            BY <1>3, <2>4, <2>6, <3>1
    <2>11. \A o \in BatchDevices, n \in Nat : <<"remove", o, n>> \in Told' => n <= made' /\ <<o, n>> \notin Living'
        BY <2>3, <2>5, <2>7 DEF BatchInv
    <2>12. SendsOwn'
        BY <1>1 DEF BatchInv, SendsOwn
    <2> QED
        BY <1>1, <2>1, <2>2, <2>7, <2>8, <2>9, <2>10, <2>11, <2>12 DEF BatchInv
<1> QED
    BY <1>2, <1>3 DEF DeletesDevice

LEMMA SendsRemoveInv ==
    ASSUME BatchInv, NEW x \in Removals, SendsRemove(x)
    PROVE  BatchInv'
<1> DEFINE d == removal[x].device
           n == removal[x].nth
<1>1. /\ removal[x].phase = "send" /\ removal' = [removal EXCEPT ![x] = NoRemoval]
      /\ UNCHANGED <<label, linked, templates, attributed, made, nth, linking, batch, clearing>>
      /\ d \in BatchDevices /\ n \in Nat /\ n <= made /\ <<d, n>> \notin Living /\ <<"remove", d, n>> \notin Told
      /\ \A y \in Removals : removal[y].phase = "send" /\ removal[y].device = d /\ removal[y].nth = n => x = y
    BY DEF SendsRemove, tableVars, madeVars, BatchInv, BatchTypeOK
<1>2. /\ removal'[x] = NoRemoval /\ \A y \in Removals \ {x} : removal'[y] = removal[y]
      /\ removal' \in [Removals -> [phase : {"none", "unlink", "delete", "send"},
                                    device : BatchDevices \cup {NoBatchDevice}, nth : Nat]]
      /\ NoRemoval.phase = "none" /\ NoRemoval.nth = 0 /\ 0 <= made
    BY <1>1 DEF NoRemoval, BatchInv, BatchTypeOK
<1>3. CASE UNCHANGED announced /\ refused' = refused + 1 /\ refused < MaxSends
    <2>1. BatchTypeOK'
        BY <1>1, <1>2, <1>3, DeviceBatchAssumption DEF BatchInv, BatchTypeOK
    <2> QED
        BY <1>1, <1>2, <1>3, <2>1 DEF BatchInv, Rows, Living, Told, SendsOwn
<1>4. CASE announced' = Append(announced, <<"remove", d, n>>) /\ UNCHANGED refused
    <2> HIDE DEF d, n
    <2>1. /\ announced' \in Seq({"create", "remove"} \X BatchDevices \X Nat)
          /\ \A o, m : <<"remove", o, m>> \in Told' <=> <<"remove", o, m>> \in Told \/ (o = d /\ m = n)
          /\ Len(announced') = Len(announced) + 1 /\ Len(announced) \in Nat
          /\ announced'[Len(announced')] = <<"remove", d, n>>
          /\ \A i \in 1..Len(announced) : announced'[i] = announced[i]
        BY <1>1, <1>4, AnnouncementGrows DEF BatchInv
    <2>2. BatchTypeOK'
        BY <1>1, <1>2, <1>4, <2>1 DEF BatchInv, BatchTypeOK
    <2>3. \A i, j \in 1..Len(announced') : announced'[i][1] = "remove" /\ announced'[j] = announced'[i] => i = j
        <3>1. \A i \in 1..Len(announced') : i \in 1..Len(announced) \/ i = Len(announced')
            BY <2>1
        <3>2. \A i, j \in 1..Len(announced) : announced[i][1] = "remove" /\ announced[j] = announced[i] => i = j
            BY DEF BatchInv
        <3>3. \A i \in 1..Len(announced) : announced[i] # <<"remove", d, n>>
            BY <1>1 DEF Told
        <3>4. ASSUME NEW i \in 1..Len(announced'), NEW j \in 1..Len(announced'),
                     announced'[i][1] = "remove", announced'[j] = announced'[i]
              PROVE  i = j
            <4>1. CASE i \in 1..Len(announced) /\ j \in 1..Len(announced)
                BY <2>1, <3>2, <3>4, <4>1
            <4>2. CASE i = Len(announced') \/ j = Len(announced')
                BY <2>1, <3>1, <3>3, <3>4, <4>2
            <4> QED
                BY <3>1, <4>1, <4>2
        <3> QED
            BY <3>4
    <2>4. \A o, m : <<o, m>> \in Living' <=> <<o, m>> \in Living
        BY <1>1 DEF Living, Rows
    <2>5. \A y \in Removals : removal'[y].phase = "send" => y # x /\ removal'[y] = removal[y]
        BY <1>2
    <2>6. \A y \in Removals : removal'[y].phase = "send" =>
            /\ <<removal'[y].device, removal'[y].nth>> \notin Living'
            /\ <<"remove", removal'[y].device, removal'[y].nth>> \notin Told'
        <3>1. ASSUME NEW y \in Removals, removal'[y].phase = "send"
              PROVE  /\ <<removal'[y].device, removal'[y].nth>> \notin Living'
                     /\ <<"remove", removal'[y].device, removal'[y].nth>> \notin Told'
            <4>1. y # x /\ removal'[y] = removal[y] /\ removal[y].phase = "send"
                BY <2>5, <3>1
            <4>2. /\ <<removal[y].device, removal[y].nth>> \notin Living
                  /\ <<"remove", removal[y].device, removal[y].nth>> \notin Told
                BY <4>1 DEF BatchInv
            <4>3. ~(removal[y].device = d /\ removal[y].nth = n)
                BY <1>1, <4>1
            <4> QED
                BY <2>1, <2>4, <4>1, <4>2, <4>3
        <3> QED
            BY <3>1
    <2>7. \A o \in BatchDevices, m \in Nat : <<"remove", o, m>> \in Told' => m <= made' /\ <<o, m>> \notin Living'
        BY <1>1, <2>1, <2>4 DEF BatchInv
    <2>8. \A y \in Removals : /\ removal'[y].phase # "none" => removal'[y].device \in BatchDevices
                              /\ removal'[y].nth <= made'
        BY <1>1, <1>2 DEF BatchInv
    <2>9. Rows' = Rows /\ SendsOwn'
        BY <1>1 DEF Rows, BatchInv, SendsOwn
    <2> QED
        BY <1>1, <2>2, <2>3, <2>5, <2>6, <2>7, <2>8, <2>9 DEF BatchInv
<1> QED
    BY <1>3, <1>4 DEF SendsRemove, SendsEvent

LEMMA BatchInvStep == BatchInv /\ [BatchNext]_batchVars => BatchInv'
<1> SUFFICES ASSUME BatchInv, [BatchNext]_batchVars
             PROVE  BatchInv'
    OBVIOUS
<1>1. ASSUME NEW b \in Creations, ValidatesTemplates(b) \/ ChecksLabel(b) \/ CreatesDevice(b) \/ SendsCreate(b)
      PROVE  BatchInv'
    BY <1>1, CreationsInv, CreatesDeviceInv, SendsCreateInv
<1>2. ASSUME NEW d \in BatchDevices, NEW t \in Templates, Links(d, t)
      PROVE  BatchInv'
    BY <1>2, LinksInv
<1>3. ASSUME NEW x \in Removals, FindsDevice(x) \/ UnlinksDevice(x) \/ DeletesDevice(x) \/ SendsRemove(x)
      PROVE  BatchInv'
    BY <1>3, RemovesInv, DeletesDeviceInv, SendsRemoveInv
<1>4. ASSUME NEW t \in Templates, ChecksTemplate(t) \/ DeletesAttrs(t) \/ DeletesTemplate(t)
      PROVE  BatchInv'
    BY <1>4, TemplatesInv
<1>5. CASE UNCHANGED batchVars
    BY <1>5, BatchKept DEF batchVars, tableVars, madeVars, BatchInv, BatchTypeOK, SendsOwn
<1> QED
    BY <1>1, <1>2, <1>3, <1>4, <1>5 DEF BatchNext

\* However many requests remove a device, while its creation still associates it and whatever fails on
\* the way, its removal is announced at most once, when it is gone and has left no association.  Another
\* device that draws its identifier later has a removal of its own.
THEOREM RemovalsStayFinal == BatchSpec => []RemovalsAreFinal
<1>1. BatchInv => RemovalsAreFinal
    <2> SUFFICES ASSUME BatchInv
                 PROVE  RemovalsAreFinal
        OBVIOUS
    <2>1. ASSUME NEW i \in 1..Len(announced), announced[i][1] = "remove"
          PROVE  /\ <<announced[i][2], announced[i][3]>> \notin Living
                 /\ \A j \in 1..Len(announced) : announced[j] = announced[i] => i = j
        <3>1. announced[i] \in {"create", "remove"} \X BatchDevices \X Nat
            BY DEF BatchInv, BatchTypeOK
        <3>2. /\ <<"remove", announced[i][2], announced[i][3]>> \in Told
              /\ announced[i][2] \in BatchDevices /\ announced[i][3] \in Nat
            BY <2>1, <3>1 DEF Told
        <3> QED
            BY <2>1, <3>2 DEF BatchInv
    <2>2. \A l \in linked : l[1] \in Rows
        BY DEF BatchInv
    <2> QED
        BY <2>1, <2>2 DEF RemovalsAreFinal
<1> QED
    BY <1>1, BatchInvInit, BatchInvStep, PTL DEF BatchSpec

LEMMA BatchTypeFromInv == BatchInv => BatchTypeOK
BY DEF BatchInv

\* Creations, removals and clearings in progress are in a step they have, of a device that is one, and
\* what is published is an event of one (devicesServices.ts, templatesServices.ts).
THEOREM BatchTypeCorrect == BatchSpec => []BatchTypeOK
BY BatchInvInit, BatchInvStep, BatchTypeFromInv, PTL DEF BatchSpec

-----------------------------------------------------------------------------
(* http-agent: who may send *)

Phases == {"idle", "cache", "ask", "answered", "validate", "send", "refused", "done"}
AgentRequest == [phase : Phases, key : Devices \cup {NoDevice}, dev : Devices \cup {NoDevice},
                 seen : BOOLEAN]

\* The type of what a request reads.
AgentTyped ==
    /\ device \in [Devices -> {"absent", "enabled", "disabled"}]
    /\ holder \in [Devices -> Devices \cup {NoDevice}]
    /\ known \in Nat
    /\ cache \in [Devices -> Entries]
    /\ request \in [Requests -> AgentRequest]

\* What is known of the request q when the devices have the states s and something happened to
\* the keys x: a device that may send counts as seen, and for a key that nothing happened to the
\* device is the one the key is made for.
RequestSound(q, s, x) ==
    /\ q.phase \in {"validate", "send"} => q.dev \in Devices
    /\ q.phase \notin {"idle", "done"} => q.key \in Devices
    /\ q.dev \in Devices /\ s[q.dev] = "enabled" => q.seen
    /\ q.phase = "send" => q.seen
    /\ q.phase \in {"answered", "validate"} /\ q.key \notin x => q.dev = q.key
    /\ q.phase = "refused" => q.key \in x

\* A key that nothing happened to is as it should be, and the cache has it right or not at all.
KeysSound == \A k \in Devices \ excused : Sound(k) /\ cache[k] \in {"none", k}

AgentInv ==
    /\ AgentTyped /\ KeysSound /\ SentWhileEnabled
    /\ \A r \in Requests : RequestSound(request[r], device, excused)

LEMMA AgentInvInit == HttpInit => AgentInv
BY HttpAgentAssumption
DEF HttpInit, AgentInv, AgentTyped, KeysSound, SentWhileEnabled, RequestSound, AgentRequest, Phases, NoRequest,
    Entries, Sound

\* A request takes a step by itself, and the cache stays right: the rest of what is known stays.
LEMMA RequestSteps ==
    ASSUME AgentInv, NEW r \in Requests, NEW q \in AgentRequest, request' = [request EXCEPT ![r] = q],
           RequestSound(q, device, excused'), excused \subseteq excused', UNCHANGED <<device, holder, known, sent>>,
           cache' \in [Devices -> Entries], \A k \in Devices \ excused' : cache'[k] \in {"none", k}
    PROVE  AgentInv'
<1>1. AgentTyped'
    BY DEF AgentInv, AgentTyped
<1>2. KeysSound' /\ SentWhileEnabled'
    BY DEF AgentInv, KeysSound, SentWhileEnabled, Sound
<1>3. ASSUME NEW x \in Requests
      PROVE  RequestSound(request'[x], device', excused')
    <2>1. request'[x] = IF x = r THEN q ELSE request[x]
        BY DEF AgentInv, AgentTyped
    <2>2. CASE x = r
        BY <2>1, <2>2
    <2>3. CASE x # r
        BY <2>1, <2>3 DEF AgentInv, RequestSound
    <2> QED
        BY <2>2, <2>3
<1> QED
    BY <1>1, <1>2, <1>3 DEF AgentInv

\* The same with the cache as it was.
LEMMA RequestStepsAlone ==
    ASSUME AgentInv, NEW r \in Requests, NEW q \in AgentRequest, request' = [request EXCEPT ![r] = q],
           RequestSound(q, device, excused'), excused \subseteq excused', UNCHANGED <<device, holder, known, sent, cache>>
    PROVE  AgentInv'
BY RequestSteps DEF AgentInv, AgentTyped, KeysSound

\* Where Goes leads.
LEMMA GoesTo ==
    ASSUME AgentTyped, NEW r \in Requests, NEW phase \in Phases, NEW d \in Devices \cup {NoDevice}, Goes(r, phase, d)
    PROVE  \E q \in AgentRequest :
             /\ request' = [request EXCEPT ![r] = q]
             /\ q.phase = phase /\ q.key = request[r].key /\ q.dev = d
             /\ q.seen = (d \in Devices /\ device[d] = "enabled")
<1>1. request[r] \in AgentRequest
    BY DEF AgentTyped
<1>2. PICK q : q = [[[request[r] EXCEPT !.phase = phase] EXCEPT !.dev = d]
                                            EXCEPT !.seen = d \in Devices /\ device[d] = "enabled"]
    OBVIOUS
<1>3. request' = [request EXCEPT ![r] = q]
    BY <1>2 DEF AgentTyped, Goes
<1>4. /\ q \in AgentRequest /\ q.phase = phase /\ q.key = request[r].key /\ q.dev = d
      /\ q.seen = (d \in Devices /\ device[d] = "enabled")
    BY <1>1, <1>2 DEF AgentRequest
<1> QED
    BY <1>3, <1>4

\* A refusal, after which the cache has the key as it had it or not as a device's.
LEMMA RefusalInv ==
    ASSUME AgentInv, NEW r \in Requests, Goes(r, "refused", NoDevice), request[r].key \in Devices,
           request[r].key \in excused', excused \subseteq excused', UNCHANGED <<device, holder, known, sent>>,
           cache' = cache \/ cache' = [cache EXCEPT ![request[r].key] = "unknown"]
    PROVE  AgentInv'
<1>1. PICK q \in AgentRequest :
        /\ request' = [request EXCEPT ![r] = q]
        /\ q.phase = "refused" /\ q.key = request[r].key /\ q.dev = NoDevice
    BY GoesTo DEF AgentInv, Phases
<1>3. RequestSound(q, device, excused')
    BY <1>1, HttpAgentAssumption DEF RequestSound
<1>4. cache' \in [Devices -> Entries] /\ \A k \in Devices \ excused' : cache'[k] \in {"none", k}
    BY DEF AgentInv, AgentTyped, KeysSound, Entries
<1> QED
    BY <1>1, <1>3, <1>4, RequestSteps

\* A request comes in; the cache or a service answers.
LEMMA IdentificationInv ==
    ASSUME AgentInv, NEW r \in Requests, (\E k \in Devices : Begin(r, k)) \/ CacheAnswers(r) \/ AuthorityAnswers(r)
    PROVE  AgentInv'
<1>0. request[r] \in AgentRequest /\ RequestSound(request[r], device, excused) /\ AgentTyped
    BY DEF AgentInv, AgentTyped
<1>1. ASSUME NEW k \in Devices, Begin(r, k)
      PROVE  AgentInv'
    <2>1. PICK q : q = [NoRequest EXCEPT !.phase = "cache", !.key = k]
        OBVIOUS
    <2>2. q \in AgentRequest /\ q.phase = "cache" /\ q.key = k /\ q.dev = NoDevice
        BY <2>1 DEF NoRequest, AgentRequest, Phases
    <2>3. /\ request' = [request EXCEPT ![r] = q]
          /\ UNCHANGED <<device, holder, known, sent, cache, excused>>
        BY <1>1, <2>1 DEF Begin, worldVars, tenantVars
    <2>4. q \in AgentRequest /\ RequestSound(q, device, excused)
        BY <2>2, HttpAgentAssumption DEF RequestSound
    <2> QED
        BY <2>3, <2>4, RequestStepsAlone
<1>2. CASE CacheAnswers(r)
    <2> DEFINE k == request[r].key
    <2>1. /\ request[r].phase = "cache" /\ k \in Devices
          /\ UNCHANGED <<device, holder, known, sent, cache, excused>>
        BY <1>0, <1>2 DEF CacheAnswers, worldVars, tenantVars, RequestSound
    <2>2. CASE cache[k] = "unknown" /\ Goes(r, "refused", NoDevice)
        <3>1. k \in excused
            BY <2>1, <2>2, HttpAgentAssumption DEF AgentInv, KeysSound
        <3> QED
            BY <2>1, <2>2, <3>1, RefusalInv
    <2>3. CASE cache[k] = "none" /\ Goes(r, "ask", NoDevice)
        <3>1. PICK q \in AgentRequest :
                /\ request' = [request EXCEPT ![r] = q]
                /\ q.phase = "ask" /\ q.key = k /\ q.dev = NoDevice
            BY <1>0, <2>3, GoesTo DEF Phases
        <3>2. RequestSound(q, device, excused)
            BY <2>1, <3>1, HttpAgentAssumption DEF RequestSound
        <3> QED
            BY <2>1, <3>1, <3>2, RequestStepsAlone
    <2>4. CASE cache[k] \in Devices /\ Goes(r, "validate", cache[k])
        <3>1. PICK q \in AgentRequest :
                /\ request' = [request EXCEPT ![r] = q]
                /\ q.phase = "validate" /\ q.key = k /\ q.dev = cache[k]
                /\ q.seen = (cache[k] \in Devices /\ device[cache[k]] = "enabled")
            BY <1>0, <2>4, GoesTo DEF Phases
        <3>3. k \notin excused => cache[k] = k
            BY <2>1, <2>4, HttpAgentAssumption DEF AgentInv, KeysSound
        <3>4. RequestSound(q, device, excused)
            BY <2>1, <2>4, <3>1, <3>3 DEF RequestSound
        <3> QED
            BY <2>1, <3>1, <3>4, RequestStepsAlone
    <2> QED
        BY <1>2, <2>2, <2>3, <2>4 DEF CacheAnswers
<1>3. CASE AuthorityAnswers(r)
    <2> DEFINE k == request[r].key
    <2>1. /\ request[r].phase = "ask" /\ k \in Devices
          /\ UNCHANGED <<device, holder, known, sent, cache, excused>>
        BY <1>0, <1>3 DEF AuthorityAnswers, worldVars, tenantVars, RequestSound
    <2>2. PICK d \in Devices \cup {NoDevice} : Goes(r, "answered", d) /\ (k \notin excused => d = k)
        <3>1. Authority(k) \in Devices \cup {NoDevice}
            BY <1>0, <2>1 DEF Authority, AgentTyped
        <3>2. k \notin excused => known > 0 /\ Authority(k) = k
            BY <2>1 DEF AgentInv, KeysSound, Sound, Authority
        <3>3. k \notin excused => ~(known = 0)
            BY <3>2
        <3> QED
            BY <1>3, <3>1, <3>2, <3>3 DEF AuthorityAnswers
    <2>3. PICK q \in AgentRequest :
            /\ request' = [request EXCEPT ![r] = q]
            /\ q.phase = "answered" /\ q.key = k /\ q.dev = d
            /\ q.seen = (d \in Devices /\ device[d] = "enabled")
        BY <1>0, <2>2, GoesTo DEF Phases
    <2>4. RequestSound(q, device, excused)
        BY <2>1, <2>2, <2>3 DEF RequestSound
    <2> QED
        BY <2>1, <2>3, <2>4, RequestStepsAlone
<1> QED
    BY <1>1, <1>2, <1>3

\* The answer is cached, the device validated, the message sent, or one of them fails.
LEMMA ConclusionInv ==
    ASSUME AgentInv, NEW r \in Requests,
           Concludes(r) \/ Validates(r) \/ Sends(r) \/ IdentificationFails(r) \/ SendingFails(r)
    PROVE  AgentInv'
<1>0. request[r] \in AgentRequest /\ RequestSound(request[r], device, excused) /\ AgentTyped
    BY DEF AgentInv, AgentTyped
<1> DEFINE k == request[r].key
           d == request[r].dev
<1>1. CASE Concludes(r)
    <2>1. /\ request[r].phase = "answered" /\ k \in Devices /\ (k \notin excused => d = k)
          /\ UNCHANGED <<device, holder, known, sent, excused>>
        BY <1>0, <1>1 DEF Concludes, worldVars, tenantVars, RequestSound
    <2>2. CASE d = NoDevice
        <3>1. k \in excused
            BY <2>1, <2>2, HttpAgentAssumption
        <3>2. Goes(r, "refused", NoDevice) /\ (cache' = cache \/ cache' = [cache EXCEPT ![k] = "unknown"])
            BY <1>1, <2>2 DEF Concludes
        <3> QED
            BY <2>1, <3>1, <3>2, RefusalInv
    <2>3. CASE d # NoDevice
        <3>1. PICK q : q = [request[r] EXCEPT !.phase = "validate"]
            OBVIOUS
        <3>2. request' = [request EXCEPT ![r] = q] /\ cache' = [cache EXCEPT ![k] = d] /\ d \in Devices
            BY <1>0, <1>1, <2>3, <3>1 DEF Concludes, AgentTyped, AgentRequest
        <3>3. q \in AgentRequest /\ RequestSound(q, device, excused)
            BY <1>0, <2>1, <3>1, <3>2 DEF AgentRequest, Phases, RequestSound
        <3>4. cache' \in [Devices -> Entries] /\ \A x \in Devices \ excused : cache'[x] \in {"none", x}
            BY <2>1, <3>2 DEF AgentInv, AgentTyped, KeysSound, Entries
        <3> QED
            BY <2>1, <3>2, <3>3, <3>4, RequestSteps
    <2> QED
        BY <2>2, <2>3
<1>2. CASE Validates(r)
    <2>1. /\ request[r].phase = "validate" /\ k \in Devices /\ d \in Devices /\ (k \notin excused => d = k)
          /\ UNCHANGED <<device, holder, known, sent, cache, excused>>
        BY <1>0, <1>2 DEF Validates, worldVars, tenantVars, RequestSound
    <2>2. PICK phase : /\ phase = (IF known > 0 /\ device[d] = "enabled" THEN "send" ELSE "refused")
                       /\ request' = [request EXCEPT ![r].phase = phase]
        BY <1>2 DEF Validates
    <2>3. PICK q : q = [request[r] EXCEPT !.phase = phase]
        OBVIOUS
    <2>4. request' = [request EXCEPT ![r] = q] /\ q \in AgentRequest
        BY <1>0, <2>2, <2>3 DEF AgentTyped, AgentRequest, Phases
    <2>5. k \notin excused => phase = "send"
        BY <2>1, <2>2 DEF AgentInv, KeysSound, Sound
    <2>6. RequestSound(q, device, excused)
        BY <1>0, <2>1, <2>2, <2>3, <2>5 DEF AgentRequest, Phases, RequestSound
    <2> QED
        BY <2>1, <2>4, <2>6, RequestStepsAlone
<1>3. CASE Sends(r)
    <2>1. PICK q : q = [NoRequest EXCEPT !.phase = "done"]
        OBVIOUS
    <2>2. q \in AgentRequest /\ q.phase = "done" /\ q.dev = NoDevice
        BY <2>1 DEF NoRequest, AgentRequest, Phases
    <2>3. /\ request' = [request EXCEPT ![r] = q] /\ sent' = sent \cup {[dev |-> d, seen |-> request[r].seen]}
          /\ request[r].phase = "send" /\ UNCHANGED <<device, holder, known, cache, excused>>
        BY <1>3, <2>1 DEF Sends, worldVars, tenantVars
    <2>4. q \in AgentRequest /\ RequestSound(q, device, excused)
        BY <2>2, HttpAgentAssumption DEF RequestSound
    <2>5. SentWhileEnabled'
        BY <1>0, <2>3 DEF AgentInv, SentWhileEnabled, RequestSound
    <2>6. AgentTyped' /\ KeysSound'
        BY <2>3, <2>4 DEF AgentInv, AgentTyped, KeysSound, Sound
    <2>7. ASSUME NEW x \in Requests
          PROVE  RequestSound(request'[x], device', excused')
        BY <1>0, <2>3, <2>4 DEF AgentInv, AgentTyped
    <2> QED
        BY <2>5, <2>6, <2>7 DEF AgentInv
<1>4. CASE IdentificationFails(r)
    BY <1>0, <1>4, RefusalInv DEF IdentificationFails, worldVars, tenantVars, RequestSound
<1>5. CASE SendingFails(r)
    BY <1>0, <1>5, RefusalInv DEF SendingFails, worldVars, tenantVars, RequestSound
<1> QED
    BY <1>1, <1>2, <1>3, <1>4, <1>5

\* The world changes around the requests: the device, the holder of a key, a tenant.
LEMMA WorldInv ==
    ASSUME AgentInv,
           \/ \E d \in Devices : DeviceChanges(d) \/ HolderChanges(d)
           \/ TenantCreated \/ KeycloakSessionStarts \/ TenantDeleted
    PROVE  AgentInv'
<1>1. ASSUME NEW d \in Devices, DeviceChanges(d)
      PROVE  AgentInv'
    <2>1. PICK s \in {"absent", "enabled", "disabled"} :
            /\ device' = [device EXCEPT ![d] = s]
            /\ request' = [r \in Requests |-> IF request[r].dev = d /\ s = "enabled"
                                              THEN [request[r] EXCEPT !.seen = TRUE] ELSE request[r]]
            /\ excused' = excused \cup {k \in Devices : d \in {k, holder[k]}}
            /\ UNCHANGED <<holder, known, cache, sent>>
        BY <1>1 DEF DeviceChanges, tenantVars
    <2>2. \A r \in Requests : request[r] \in AgentRequest /\ RequestSound(request[r], device, excused)
        BY DEF AgentInv, AgentTyped
    <2>3. request' \in [Requests -> AgentRequest]
        BY <2>1, <2>2 DEF AgentRequest
    <2>4. AgentTyped' /\ KeysSound' /\ SentWhileEnabled'
        BY <2>1, <2>3 DEF AgentInv, AgentTyped, KeysSound, Sound, SentWhileEnabled
    <2>5. ASSUME NEW r \in Requests
          PROVE  RequestSound(request'[r], device', excused')
        <3>1. /\ request'[r].phase = request[r].phase /\ request'[r].key = request[r].key
              /\ request'[r].dev = request[r].dev
              /\ request'[r].seen = (request[r].seen \/ (request[r].dev = d /\ s = "enabled"))
            BY <2>1, <2>2 DEF AgentRequest
        <3> QED
            BY <2>1, <2>2, <3>1 DEF AgentInv, AgentTyped, RequestSound
    <2> QED
        BY <2>4, <2>5 DEF AgentInv
<1>2. ASSUME NEW d \in Devices, HolderChanges(d)
      PROVE  AgentInv'
    <2>1. /\ \E h \in Devices \cup {NoDevice} : holder' = [holder EXCEPT ![d] = h]
          /\ excused' = excused \cup {d} /\ UNCHANGED <<device, known, cache, request, sent>>
        BY <1>2 DEF HolderChanges, tenantVars
    <2> QED
        BY <2>1 DEF AgentInv, AgentTyped, KeysSound, Sound, SentWhileEnabled, RequestSound
<1>3. CASE TenantCreated \/ KeycloakSessionStarts \/ TenantDeleted
    <2>1. UNCHANGED <<device, holder, cache, request, sent, excused>> /\ (known' = known \/ known' = known + 1)
        BY <1>3 DEF TenantCreated, KeycloakSessionStarts, TenantDeleted, worldVars, tenantVars
    <2> QED
        BY <2>1 DEF AgentInv, AgentTyped, KeysSound, Sound, SentWhileEnabled, RequestSound
<1> QED
    BY <1>1, <1>2, <1>3

\* An entry of the cache goes, or a removal event fails to have it go.
LEMMA EntriesInv ==
    ASSUME AgentInv, \E d \in Devices : EntryExpires(d) \/ DeletesKey(d) \/ DeletionFails(d)
    PROVE  AgentInv'
<1>1. PICK d \in Devices : EntryExpires(d) \/ DeletesKey(d) \/ DeletionFails(d)
    OBVIOUS
<1>2. /\ UNCHANGED <<device, holder, known, request, sent>>
      /\ excused' = excused \/ excused' = excused \cup {d}
      /\ cache' = cache \/ cache' = [cache EXCEPT ![d] = "none"]
    BY <1>1 DEF EntryExpires, DeletesKey, DeletionFails, worldVars, tenantVars
<1> QED
    BY <1>2 DEF AgentInv, AgentTyped, KeysSound, Sound, SentWhileEnabled, RequestSound, Entries

LEMMA AgentInvStep == AgentInv /\ [HttpNext]_agentVars => AgentInv'
<1>1. AgentInv /\ UNCHANGED agentVars => AgentInv'
    BY DEF agentVars, worldVars, tenantVars, AgentInv, AgentTyped, KeysSound, Sound, SentWhileEnabled, RequestSound
<1>2. AgentInv /\ HttpNext => AgentInv'
    BY IdentificationInv, ConclusionInv, WorldInv, EntriesInv DEF HttpNext, Handles
<1> QED
    BY <1>1, <1>2

\* The agent's decisions are right on both sides, for any devices, requests, changes and failures: a
\* device sends only if it was enabled after the request knew it, and a refusal has a cause.
THEOREM DecisionsStaySound == HttpSpec => []DecisionsAreSound
<1>1. AgentInv => DecisionsAreSound
    BY DEF AgentInv, DecisionsAreSound, RefusedForCause, RequestSound
<1> QED
    BY <1>1, AgentInvStep, AgentInvInit, PTL DEF HttpSpec

\* What AgentInv leaves out: the tenants being started, and removals.
AgentRest ==
    /\ mode \in Modes /\ realm \in BOOLEAN /\ starting \in Nat
    /\ removals \in [Devices -> SUBSET {"tenant@id", "tenant:id"}]

LEMMA AgentRestInit == HttpInit => AgentRest
BY DEF HttpInit, AgentRest

LEMMA AgentRestStep == AgentRest /\ [HttpNext]_agentVars => AgentRest'
<1> SUFFICES ASSUME AgentRest, [HttpNext]_agentVars
             PROVE  AgentRest'
    OBVIOUS
<1> USE DEF AgentRest, worldVars, tenantVars
<1>1. ASSUME NEW d \in Devices, DeviceChanges(d) \/ HolderChanges(d) \/ EntryExpires(d) \/ DeletesKey(d) \/ DeletionFails(d)
      PROVE  AgentRest'
    <2>1. UNCHANGED <<mode, realm, starting>>
        BY <1>1 DEF DeviceChanges, HolderChanges, EntryExpires, DeletesKey, DeletionFails
    <2>2. removals' \in [Devices -> SUBSET {"tenant@id", "tenant:id"}]
        BY <1>1 DEF DeviceChanges, HolderChanges, EntryExpires, DeletesKey, DeletionFails
    <2> QED
        BY <2>1, <2>2
<1>2. CASE TenantCreated \/ KeycloakSessionStarts \/ TenantDeleted
    <2>1. UNCHANGED <<mode, removals>> /\ starting' \in Nat
        BY <1>2 DEF TenantCreated, KeycloakSessionStarts, TenantDeleted
    <2>2. realm' \in BOOLEAN
        BY <1>2 DEF TenantCreated, KeycloakSessionStarts, TenantDeleted
    <2> QED
        BY <2>1, <2>2
<1>5. CASE UNCHANGED agentVars
    BY <1>5 DEF agentVars
<1>3. ASSUME NEW r \in Requests, NEW k \in Devices, Begin(r, k)
      PROVE  AgentRest'
    BY <1>3 DEF Begin
<1>4. ASSUME NEW r \in Requests, Handles(r) \/ IdentificationFails(r) \/ SendingFails(r)
      PROVE  AgentRest'
    BY <1>4 DEF Handles, CacheAnswers, AuthorityAnswers, Concludes, Validates, Sends,
                IdentificationFails, SendingFails
<1> QED
    BY <1>1, <1>2, <1>3, <1>4, <1>5 DEF HttpNext

LEMMA HttpTypeFromInv == AgentInv /\ AgentRest => HttpTypeOK
BY DEF AgentInv, AgentTyped, AgentRest, RequestSound, AgentRequest, Phases, HttpTypeOK

\* A request that is past identification has a device, and the counts of sessions never go below zero,
\* however events of tenants, of devices and requests interleave (TenantService.js, ConsumerMessages.js).
THEOREM HttpTypeCorrect == HttpSpec => []HttpTypeOK
BY AgentInvInit, AgentInvStep, AgentRestInit, AgentRestStep, HttpTypeFromInv, PTL DEF HttpSpec

-----------------------------------------------------------------------------
(* influxdb retriever: the local copy of the devices *)

DeviceEvent == {"create", "remove"} \X DeviceIds
CopyLoad == [phase : {"none", "tenants", "save", "devices", "clear", "write", "end"},
             page : Nat, read : SUBSET DeviceIds]

\* The log has a removal of d behind its n-th event.
RemovedAfter(log, d, n) == \E i \in 1..Len(log) : i > n /\ log[i] = <<"remove", d>>

\* A device is created once, and once it is removed its removal is behind its creation.
LogTells ==
    \A i \in 1..Len(deviceLog) :
        /\ deviceLog[i][2] \in created
        /\ deviceLog[i][1] = "create" /\ deviceLog[i][2] \notin remote => RemovedAfter(deviceLog, deviceLog[i][2], i)

\* What is being written are the last events that were handled.
PointsWritten == position - Len(writing)
WritingFollowsLog ==
    /\ position \in 0..Len(deviceLog) /\ Len(writing) <= position
    /\ \A i \in 1..Len(writing) : writing[i] = deviceLog[PointsWritten + i]

\* While a load goes on no event is handled, so a device that was read and removed since has its
\* removal among the events to come.
LoadSound ==
    /\ load \in CopyLoad
    /\ load.phase = "none" => load.read = {}
    /\ load.phase # "none" => ~listening
    /\ \A d \in load.read : d \in remote \/ RemovedAfter(deviceLog, d, position)

\* A device that is in the copy and no longer in the device manager has its removal yet to be written.
CopySound ==
    healed \/ load.phase = "write" => \A d \in copied \ remote : RemovedAfter(deviceLog, d, PointsWritten)

RetrieverInv ==
    /\ deviceLog \in Seq(DeviceEvent) /\ writing \in Seq(DeviceEvent)
    /\ created \subseteq DeviceIds /\ remote \subseteq created
    /\ listening \in BOOLEAN
    /\ LogTells /\ WritingFollowsLog /\ LoadSound /\ CopySound

LEMMA RetrieverInvInit == RetrieverInit => RetrieverInv
<1> SUFFICES ASSUME RetrieverInit PROVE RetrieverInv
    OBVIOUS
<1>1. Len(deviceLog) = 0 /\ Len(writing) = 0 /\ deviceLog \in Seq(DeviceEvent) /\ writing \in Seq(DeviceEvent)
    BY DEF RetrieverInit
<1>2. load \in CopyLoad /\ load.phase = "tenants" /\ load.read = {}
    BY DEF RetrieverInit, NewLoad, CopyLoad
<1>3. LogTells /\ WritingFollowsLog
    BY <1>1 DEF RetrieverInit, LogTells, WritingFollowsLog
<1>4. LoadSound /\ CopySound
    BY <1>2 DEF RetrieverInit, LoadSound, CopySound
<1> QED
    BY <1>1, <1>3, <1>4 DEF RetrieverInit, RetrieverInv

\* The events being written are events of the log.
LEMMA WrittenInLog ==
    ASSUME RetrieverInv
    PROVE  /\ Len(deviceLog) \in Nat /\ Len(writing) \in Nat /\ position \in Nat /\ PointsWritten \in Nat
           /\ position <= Len(deviceLog) /\ PointsWritten + Len(writing) = position
           /\ \A i \in 1..Len(writing) : /\ PointsWritten + i \in 1..Len(deviceLog)
                                         /\ writing[i] = deviceLog[PointsWritten + i]
<1>1. /\ Len(deviceLog) \in Nat /\ Len(writing) \in Nat
      /\ position \in 0..Len(deviceLog) /\ Len(writing) <= position
    BY DEF RetrieverInv, WritingFollowsLog
<1>2. position \in Nat /\ position <= Len(deviceLog) /\ PointsWritten \in Nat /\ PointsWritten + Len(writing) = position
    BY <1>1 DEF PointsWritten
<1>3. \A i \in 1..Len(writing) : PointsWritten + i \in 1..Len(deviceLog)
    BY <1>1, <1>2
<1> QED
    BY <1>1, <1>2, <1>3 DEF RetrieverInv, WritingFollowsLog

\* An event more does not undo a removal.
LEMMA LongerLog ==
    ASSUME NEW S, NEW log \in Seq(S), NEW e \in S
    PROVE  /\ Append(log, e) \in Seq(S) /\ Len(Append(log, e)) = Len(log) + 1
           /\ Append(log, e)[Len(log) + 1] = e /\ \A i \in 1..Len(log) : Append(log, e)[i] = log[i]
           /\ \A d, n : RemovedAfter(log, d, n) => RemovedAfter(Append(log, e), d, n)
BY DEF RemovedAfter

\* The device manager creates or removes a device.
LEMMA DeviceManagerInv ==
    ASSUME RetrieverInv, NEW d \in DeviceIds, DeviceCreated(d) \/ DeviceRemoved(d)
    PROVE  RetrieverInv'
<1>1. /\ UNCHANGED <<position, writing, copied, listening, load, healed>>
      /\ created \subseteq created' /\ created' \subseteq DeviceIds /\ remote' \subseteq created'
    BY DEF DeviceCreated, DeviceRemoved, copyVars, tenantListVars, RetrieverInv
<1>2. PICK e \in DeviceEvent :
        /\ deviceLog' = Append(deviceLog, e) /\ e[2] = d /\ d \in created'
        /\ \/ e[1] = "create" /\ d \notin created /\ remote' = remote \cup {d}
           \/ e = <<"remove", d>> /\ remote' = remote \ {d}
    <2>1. <<"create", d>> \in DeviceEvent /\ <<"remove", d>> \in DeviceEvent
        BY DEF DeviceEvent
    <2> QED
        BY <2>1 DEF DeviceCreated, DeviceRemoved, RetrieverInv
<1>3. /\ deviceLog' \in Seq(DeviceEvent) /\ Len(deviceLog') = Len(deviceLog) + 1 /\ Len(deviceLog) \in Nat
      /\ deviceLog'[Len(deviceLog) + 1] = e /\ \A i \in 1..Len(deviceLog) : deviceLog'[i] = deviceLog[i]
      /\ \A x, n : RemovedAfter(deviceLog, x, n) => RemovedAfter(deviceLog', x, n)
    BY <1>2, LongerLog DEF RetrieverInv
\* What is gone from the device manager and has no removal yet is removed by this event.
<1>4. \A x, n : n \in Int /\ n <= Len(deviceLog) /\ x \in remote \ remote' => RemovedAfter(deviceLog', x, n)
    BY <1>2, <1>3 DEF RemovedAfter
<1>5. LogTells'
    <2> SUFFICES ASSUME NEW i \in 1..Len(deviceLog')
                 PROVE  /\ deviceLog'[i][2] \in created'
                        /\ deviceLog'[i][1] = "create" /\ deviceLog'[i][2] \notin remote'
                               => RemovedAfter(deviceLog', deviceLog'[i][2], i)
        BY DEF LogTells
    <2>1. CASE i = Len(deviceLog) + 1
        BY <1>2, <1>3, <2>1
    <2>2. CASE i \in 1..Len(deviceLog)
        BY <1>1, <1>3, <1>4, <2>2 DEF RetrieverInv, LogTells
    <2> QED
        BY <1>3, <2>1, <2>2
<1>6. WritingFollowsLog' /\ PointsWritten' = PointsWritten /\ PointsWritten \in Int /\ PointsWritten <= Len(deviceLog)
    <2>1. PointsWritten' = PointsWritten
        BY <1>1 DEF PointsWritten
    <2>2. position' \in 0..Len(deviceLog') /\ Len(writing') <= position'
        BY <1>1, <1>3, WrittenInLog
    <2>3. \A i \in 1..Len(writing) : writing[i] = deviceLog'[PointsWritten + i]
        BY <1>3, WrittenInLog
    <2>4. PointsWritten \in Int /\ PointsWritten <= Len(deviceLog)
        BY WrittenInLog
    <2> QED
        BY <1>1, <2>1, <2>2, <2>3, <2>4 DEF WritingFollowsLog
<1>7. LoadSound'
    <2>1. position \in Int /\ position <= Len(deviceLog)
        BY <1>3 DEF RetrieverInv, WritingFollowsLog
    <2> QED
        BY <1>1, <1>3, <1>4, <2>1 DEF RetrieverInv, LoadSound
<1>8. CopySound'
    BY <1>1, <1>3, <1>4, <1>6 DEF RetrieverInv, CopySound
<1> QED
    BY <1>1, <1>3, <1>5, <1>6, <1>7, <1>8 DEF RetrieverInv

\* An event is handled, its write begins; the oldest write is done.
LEMMA EventsInv ==
    ASSUME RetrieverInv, HandlesEvent \/ Dispatches
    PROVE  RetrieverInv'
<1>0. /\ Len(deviceLog) \in Nat /\ Len(writing) \in Nat /\ position \in Nat /\ PointsWritten \in Nat
      /\ position <= Len(deviceLog) /\ PointsWritten + Len(writing) = position
      /\ \A i \in 1..Len(writing) : /\ PointsWritten + i \in 1..Len(deviceLog)
                                    /\ writing[i] = deviceLog[PointsWritten + i]
    BY WrittenInLog
<1>1. CASE HandlesEvent
    <2>1. /\ listening /\ position < Len(deviceLog) /\ position' = position + 1
          /\ writing' = Append(writing, deviceLog[position + 1])
          /\ UNCHANGED <<created, remote, deviceLog, copied, listening, load, healed>>
        BY <1>1 DEF HandlesEvent, remoteVars, tenantListVars
    <2>2. deviceLog[position + 1] \in DeviceEvent
        BY <1>0, <2>1 DEF RetrieverInv
    <2>3. /\ writing' \in Seq(DeviceEvent) /\ Len(writing') = Len(writing) + 1
          /\ writing'[Len(writing) + 1] = deviceLog[position + 1]
          /\ \A i \in 1..Len(writing) : writing'[i] = writing[i]
        BY <2>1, <2>2, LongerLog DEF RetrieverInv
    <2>4. PointsWritten' = PointsWritten
        BY <1>0, <2>1, <2>3 DEF PointsWritten
    <2>5. WritingFollowsLog'
        <3>1. ASSUME NEW i \in 1..Len(writing')
              PROVE  writing'[i] = deviceLog[PointsWritten + i]
            <4>0. Len(writing) \in Nat /\ Len(writing') = Len(writing) + 1
                BY <1>0, <2>3
            <4>1. i = Len(writing) + 1 \/ i \in 1..Len(writing)
                BY <4>0
            <4>2. PointsWritten + (Len(writing) + 1) = position + 1
                <5>1. PointsWritten \in Nat /\ Len(writing) \in Nat /\ PointsWritten + Len(writing) = position
                    BY <1>0
                <5> QED
                    BY <5>1
            <4>3. CASE i = Len(writing) + 1
                BY <2>3, <4>2, <4>3
            <4>4. CASE i \in 1..Len(writing)
                BY <1>0, <2>3, <4>4
            <4> QED
                BY <4>1, <4>3, <4>4
        <3>2. position + 1 \in 0..Len(deviceLog) /\ Len(writing) + 1 <= position + 1
            BY <1>0, <2>1
        <3> QED
            BY <2>1, <2>3, <2>4, <3>1, <3>2 DEF WritingFollowsLog
    <2>6. LoadSound'
        BY <2>1 DEF RetrieverInv, LoadSound
    <2> QED
        BY <2>1, <2>3, <2>4, <2>5, <2>6 DEF RetrieverInv, LogTells, CopySound
<1>2. CASE Dispatches
    <2>1. /\ writing # << >> /\ writing' = Tail(writing)
          /\ copied' = IF Head(writing)[1] = "create" THEN copied \cup {Head(writing)[2]}
                                                     ELSE copied \ {Head(writing)[2]}
          /\ UNCHANGED <<created, remote, deviceLog, position, listening, load, healed>>
        BY <1>2 DEF Dispatches, remoteVars, tenantListVars
    <2>2. /\ writing' \in Seq(DeviceEvent) /\ Len(writing') = Len(writing) - 1 /\ Len(writing) > 0
          /\ Head(writing) = writing[1] /\ \A i \in 1..Len(writing') : writing'[i] = writing[i + 1]
        BY <2>1 DEF RetrieverInv
    <2>3. PICK n \in 1..Len(deviceLog) : n = PointsWritten + 1 /\ PointsWritten' = n /\ Head(writing) = deviceLog[n]
        <3>1. PointsWritten + 1 \in 1..Len(deviceLog) /\ writing[1] = deviceLog[PointsWritten + 1]
            BY <1>0, <2>2
        <3>2. PointsWritten' = PointsWritten + 1
            BY <1>0, <2>1, <2>2 DEF PointsWritten
        <3> QED
            BY <2>2, <3>1, <3>2
    <2>4. WritingFollowsLog'
        <3>1. ASSUME NEW i \in 1..Len(writing')
              PROVE  writing'[i] = deviceLog[n + i]
            <4>1. i + 1 \in 1..Len(writing) /\ PointsWritten + (i + 1) = n + i
                BY <1>0, <2>2, <2>3
            <4> QED
                BY <1>0, <2>2, <4>1
        <3>2. position \in 0..Len(deviceLog) /\ Len(writing') <= position
            BY <1>0, <2>2
        <3> QED
            BY <2>1, <2>3, <3>1, <3>2 DEF WritingFollowsLog
    <2>5. CopySound'
        <3> SUFFICES ASSUME healed \/ load.phase = "write", NEW d \in copied' \ remote
                     PROVE  RemovedAfter(deviceLog, d, n)
            BY <2>1, <2>3 DEF CopySound
        <3>0. PICK t \in {"create", "remove"}, x \in DeviceIds : deviceLog[n] = <<t, x>>
            BY <2>3 DEF RetrieverInv, DeviceEvent
        <3>1. CASE t = "create" /\ d = x
            BY <2>1, <2>3, <3>0, <3>1 DEF RetrieverInv, LogTells
        <3>2. CASE ~(t = "create" /\ d = x)
            <4>1. d \in copied
                BY <2>1, <2>3, <3>0, <3>2
            <4>2. d # x
                BY <2>1, <2>3, <3>0, <3>2, <4>1
            <4>3. RemovedAfter(deviceLog, d, PointsWritten)
                BY <4>1 DEF RetrieverInv, CopySound
            <4>4. PICK i \in 1..Len(deviceLog) : i > PointsWritten /\ deviceLog[i] = <<"remove", d>>
                BY <4>3 DEF RemovedAfter
            <4>5. i # n
                BY <3>0, <4>2, <4>4
            <4>6. i > n
                BY <1>0, <2>3, <4>4, <4>5
            <4> QED
                BY <4>4, <4>6 DEF RemovedAfter
        <3> QED
            BY <3>1, <3>2
    <2>6. LoadSound'
        BY <2>1 DEF RetrieverInv, LoadSound
    <2> QED
        BY <2>1, <2>2, <2>4, <2>5, <2>6 DEF RetrieverInv, LogTells
<1> QED
    BY <1>1, <1>2

\* A load begins, after which no event is handled, or goes on to another phase without reading.
LEMMA LoadStepsInv ==
    ASSUME RetrieverInv, CronTicks \/ LoadsTenants \/ SavesTenants \/ Clears \/ Resumes
    PROVE  RetrieverInv'
<1>0. UNCHANGED <<created, remote, deviceLog, position, writing>>
    BY DEF CronTicks, LoadsTenants, SavesTenants, Clears, Resumes, remoteVars, copyVars, Loses
<1>1. PointsWritten' = PointsWritten /\ WritingFollowsLog'
    BY <1>0 DEF PointsWritten, RetrieverInv, WritingFollowsLog
<1>2. CASE CronTicks
    <2>1. /\ load'.phase = "tenants" /\ load'.read = {} /\ load' \in CopyLoad /\ listening' = FALSE
          /\ UNCHANGED <<copied, healed>>
        BY <1>2 DEF CronTicks, copyVars, NewLoad, CopyLoad
    <2> QED
        BY <1>0, <1>1, <2>1 DEF RetrieverInv, LogTells, LoadSound, CopySound
<1>3. CASE LoadsTenants \/ SavesTenants
    <2>1. /\ load.phase # "none" /\ load'.phase \in {"save", "devices"} /\ load'.read = load.read
          /\ load' \in CopyLoad /\ UNCHANGED <<copied, healed, listening>>
        BY <1>3 DEF LoadsTenants, SavesTenants, copyVars, RetrieverInv, LoadSound, CopyLoad
    <2> QED
        BY <1>0, <1>1, <2>1 DEF RetrieverInv, LogTells, LoadSound, CopySound
<1>4. CASE Clears
    <2>1. /\ load.phase # "none" /\ load'.phase = "write" /\ load'.read = load.read
          /\ load' \in CopyLoad /\ copied' = {} /\ UNCHANGED <<healed, listening>>
        BY <1>4 DEF Clears, tenantListVars, RetrieverInv, LoadSound, CopyLoad
    <2> QED
        BY <1>0, <1>1, <2>1 DEF RetrieverInv, LogTells, LoadSound, CopySound
<1>5. CASE Resumes
    <2>1. /\ load'.phase = "none" /\ load'.read = {} /\ load' \in CopyLoad /\ listening' = TRUE
          /\ UNCHANGED copied /\ (healed' = healed \/ load.phase = "write")
        BY <1>5 DEF Resumes, copyVars, NoLoad, CopyLoad
    <2> QED
        BY <1>0, <1>1, <2>1 DEF RetrieverInv, LogTells, LoadSound, CopySound
<1> QED
    BY <1>2, <1>3, <1>4, <1>5

\* A load reads a page, or writes a device; or the process starts again.
LEMMA LoadReadsInv ==
    ASSUME RetrieverInv, GetsPage \/ WritesDevice \/ RetrieverRestarts
    PROVE  RetrieverInv'
<1>0. UNCHANGED <<created, remote, deviceLog>>
    BY DEF GetsPage, WritesDevice, RetrieverRestarts, remoteVars
<1>1. CASE GetsPage
    <2>1. UNCHANGED <<position, writing, copied, healed, listening>> /\ load.phase = "devices"
        BY <1>1 DEF GetsPage, copyVars
    <2>2. /\ load'.phase \in {"devices", "clear", "end"} /\ load' \in CopyLoad
          /\ load'.read \subseteq load.read \cup remote
        <3>1. CASE /\ load' = [phase |-> IF Cardinality(Page(load.page)) = PageSize THEN "devices" ELSE "clear",
                               page |-> load.page + 1, read |-> load.read \cup Page(load.page)]
            <4>1. Page(load.page) \subseteq remote
                BY DEF Page
            <4> QED
                BY <3>1, <4>1 DEF RetrieverInv, LoadSound, CopyLoad
        <3>2. CASE load' = [load EXCEPT !.phase = "end"]
            BY <3>2 DEF RetrieverInv, LoadSound, CopyLoad
        <3> QED
            BY <1>1, <3>1, <3>2 DEF GetsPage
    <2>3. PointsWritten' = PointsWritten /\ WritingFollowsLog'
        BY <1>0, <2>1 DEF PointsWritten, RetrieverInv, WritingFollowsLog
    <2> QED
        BY <1>0, <2>1, <2>2, <2>3 DEF RetrieverInv, LogTells, LoadSound, CopySound
<1>2. CASE WritesDevice
    <2>1. PICK d \in load.read : copied' = copied \cup {d} /\ load' = [load EXCEPT !.read = @ \ {d}]
        BY <1>2 DEF WritesDevice
    <2>2. UNCHANGED <<position, writing, healed, listening>> /\ load.phase = "write"
        BY <1>2 DEF WritesDevice, tenantListVars
    <2>3. load' \in CopyLoad /\ load'.phase = "write" /\ load'.read \subseteq load.read
        BY <2>1, <2>2 DEF RetrieverInv, LoadSound, CopyLoad
    <2>4. PointsWritten' = PointsWritten /\ WritingFollowsLog'
        BY <1>0, <2>2 DEF PointsWritten, RetrieverInv, WritingFollowsLog
    <2>5. d \in remote \/ RemovedAfter(deviceLog, d, PointsWritten)
        <3>1. PointsWritten <= position /\ PointsWritten \in Int
            BY WrittenInLog
        <3>2. d \in remote \/ RemovedAfter(deviceLog, d, position)
            BY DEF RetrieverInv, LoadSound
        <3> QED
            BY <3>1, <3>2, WrittenInLog DEF RemovedAfter
    <2> QED
        BY <1>0, <2>1, <2>2, <2>3, <2>4, <2>5 DEF RetrieverInv, LogTells, LoadSound, CopySound
<1>3. CASE RetrieverRestarts
    <2>1. /\ position' \in 0..position /\ writing' = << >> /\ listening' = FALSE /\ healed' = FALSE
          /\ load' \in CopyLoad /\ load'.phase = "tenants" /\ load'.read = {}
        BY <1>3 DEF RetrieverRestarts, NewLoad, CopyLoad
    <2>2. writing' \in Seq(DeviceEvent) /\ Len(writing') = 0
        BY <2>1
    <2>3. WritingFollowsLog'
        BY <1>0, <2>1, <2>2, WrittenInLog DEF WritingFollowsLog
    <2>4. LoadSound' /\ CopySound'
        BY <2>1 DEF LoadSound, CopySound
    <2>5. LogTells' /\ listening' \in BOOLEAN
        BY <1>0, <2>1 DEF RetrieverInv, LogTells
    <2> QED
        BY <1>0, <2>1, <2>2, <2>3, <2>4, <2>5 DEF RetrieverInv
<1> QED
    BY <1>1, <1>2, <1>3

LEMMA RetrieverInvStep == RetrieverInv /\ [RetrieverNext]_retrieverVars => RetrieverInv'
<1>1. RetrieverInv /\ UNCHANGED retrieverVars => RetrieverInv'
    BY DEF retrieverVars, remoteVars, copyVars, RetrieverInv, LogTells, WritingFollowsLog, PointsWritten, LoadSound, CopySound
<1>2. RetrieverInv /\ RetrieverNext => RetrieverInv'
    BY DeviceManagerInv, EventsInv, LoadStepsInv, LoadReadsInv DEF RetrieverNext
<1> QED
    BY <1>1, <1>2

\* Once a load went through and every event is written, the copy has no device that the device manager
\* removed, for any devices, page size, loads, restarts and failed requests.
THEOREM RemovedStayForgotten == RetrieverSpec => []RemovedDevicesForgotten
<1>1. RetrieverInv => RemovedDevicesForgotten
    <2> SUFFICES ASSUME RetrieverInv, healed, position = Len(deviceLog), writing = << >>, NEW d \in copied
                 PROVE  d \in remote
        BY DEF RemovedDevicesForgotten
    <2>1. PointsWritten = Len(deviceLog)
        BY DEF PointsWritten, RetrieverInv
    <2> QED
        BY <2>1 DEF RetrieverInv, CopySound, RemovedAfter
<1> QED
    BY <1>1, RetrieverInvStep, RetrieverInvInit, PTL DEF RetrieverSpec

\* What RetrieverInv leaves out: the copy and what is read for it are of devices created, and the bounds.
RetrieverRest ==
    /\ copied \subseteq created /\ load.read \subseteq created
    /\ {listing, persisted, healed} \subseteq BOOLEAN
    /\ loads \in 0..MaxLoads /\ restarts \in 0..MaxRestarts /\ lostRequests \in 0..MaxLost

LEMMA RetrieverRestInit == RetrieverInit => RetrieverRest
<1> SUFFICES ASSUME RetrieverInit
             PROVE  RetrieverRest
    OBVIOUS
<1>1. listing \in BOOLEAN /\ persisted \in BOOLEAN /\ healed \in BOOLEAN
    BY DEF RetrieverInit
<1>2. copied = {} /\ load.read = {} /\ loads = 1 /\ restarts = 0 /\ lostRequests = 0
    BY DEF RetrieverInit, NewLoad
<1> QED
    BY <1>1, <1>2, RetrieverAssumption DEF RetrieverRest

LEMMA RetrieverRestStep == RetrieverInv /\ RetrieverRest /\ [RetrieverNext]_retrieverVars => RetrieverRest'
<1> SUFFICES ASSUME RetrieverInv, RetrieverRest, [RetrieverNext]_retrieverVars
             PROVE  RetrieverRest'
    OBVIOUS
<1> USE RetrieverAssumption DEF RetrieverRest, remoteVars, copyVars, tenantListVars
<1>1. ASSUME NEW d \in DeviceIds, DeviceCreated(d) \/ DeviceRemoved(d)
      PROVE  RetrieverRest'
    BY <1>1 DEF DeviceCreated, DeviceRemoved
<1>2. CASE HandlesEvent \/ UNCHANGED retrieverVars
    BY <1>2 DEF HandlesEvent, retrieverVars
<1>3. CASE Dispatches
    <2>1. Head(writing)[2] \in created
        <3>1. 1 \in 1..Len(writing) /\ Head(writing) = writing[1]
            BY <1>3 DEF Dispatches, RetrieverInv
        <3>2. PointsWritten + 1 \in 1..Len(deviceLog) /\ writing[1] = deviceLog[PointsWritten + 1]
            BY <3>1, WrittenInLog
        <3> QED
            BY <3>1, <3>2 DEF RetrieverInv, LogTells
    <2> QED
        BY <1>3, <2>1 DEF Dispatches
<1>4. CASE CronTicks \/ SavesTenants \/ Clears \/ Resumes
    <2>1. load'.read = load.read \/ load'.read = {}
        BY <1>4 DEF CronTicks, SavesTenants, Clears, Resumes, NewLoad, NoLoad, RetrieverInv, LoadSound, CopyLoad
    <2>2. /\ UNCHANGED <<created, listing, restarts, lostRequests>>
          /\ persisted' = persisted \/ persisted' = TRUE
          /\ healed' = healed \/ healed' = TRUE
          /\ copied' = copied \/ copied' = {}
          /\ loads' = loads \/ (loads < MaxLoads /\ loads' = loads + 1)
        BY <1>4 DEF CronTicks, SavesTenants, Clears, Resumes
    <2>3. {listing', persisted', healed'} \subseteq BOOLEAN
        BY <2>2
    <2> QED
        BY <2>1, <2>2, <2>3
<1>5. CASE LoadsTenants
    <2>1. load'.read = load.read
        BY <1>5 DEF LoadsTenants, RetrieverInv, LoadSound, CopyLoad
    <2>2. /\ UNCHANGED <<created, copied, healed, loads, restarts>>
          /\ lostRequests' = lostRequests \/ (lostRequests < MaxLost /\ lostRequests' = lostRequests + 1)
          /\ listing' = TRUE \/ listing' = (listing \/ persisted)
          /\ persisted' = FALSE \/ persisted' = persisted
        BY <1>5 DEF LoadsTenants, Loses
    <2>3. {listing', persisted', healed'} \subseteq BOOLEAN
        BY <2>2
    <2> QED
        BY <2>1, <2>2, <2>3
<1>6. CASE GetsPage
    <2>1. Page(load.page) \subseteq created
        BY DEF Page, RetrieverInv
    <2>2. load'.read \subseteq created
        BY <1>6, <2>1 DEF GetsPage, RetrieverInv, LoadSound, CopyLoad
    <2> QED
        BY <1>6, <2>2 DEF GetsPage, Loses
<1>7. CASE WritesDevice
    <2>1. load'.read \subseteq load.read
        BY <1>7 DEF WritesDevice, RetrieverInv, LoadSound, CopyLoad
    <2> QED
        BY <1>7, <2>1 DEF WritesDevice
<1>8. CASE RetrieverRestarts
    <2>1. load'.read = {} /\ UNCHANGED <<created, copied, persisted, loads, lostRequests>>
        BY <1>8 DEF RetrieverRestarts, NewLoad
    <2>2. listing' = FALSE /\ healed' = FALSE /\ restarts < MaxRestarts /\ restarts' = restarts + 1
        BY <1>8 DEF RetrieverRestarts
    <2>3. {listing', persisted', healed'} \subseteq BOOLEAN
        BY <2>1, <2>2
    <2>4. restarts' \in 0..MaxRestarts
        BY <2>2
    <2>5. /\ copied' \subseteq created' /\ load'.read \subseteq created'
          /\ loads' \in 0..MaxLoads /\ lostRequests' \in 0..MaxLost
        BY <2>1
    <2> QED
        BY <2>3, <2>4, <2>5
<1> QED
    BY <1>1, <1>2, <1>3, <1>4, <1>5, <1>6, <1>7, <1>8 DEF RetrieverNext

LEMMA RetrieverTypeFromInv == RetrieverInv /\ RetrieverRest => RetrieverTypeOK
<1> SUFFICES ASSUME RetrieverInv, RetrieverRest
             PROVE  RetrieverTypeOK
    OBVIOUS
<1>1. remote \subseteq created /\ created \subseteq DeviceIds /\ copied \subseteq created
    BY DEF RetrieverInv, RetrieverRest
<1>2. deviceLog \in Seq({"create", "remove"} \X DeviceIds) /\ writing \in Seq({"create", "remove"} \X DeviceIds)
    BY DEF RetrieverInv, DeviceEvent
<1>3. position \in 0..Len(deviceLog)
    BY DEF RetrieverInv, WritingFollowsLog
<1>4. {listing, persisted, listening, healed} \subseteq BOOLEAN
    <2>1. listening \in BOOLEAN
        BY DEF RetrieverInv
    <2>2. listing \in BOOLEAN /\ persisted \in BOOLEAN /\ healed \in BOOLEAN
        BY DEF RetrieverRest
    <2> QED
        BY <2>1, <2>2
<1>5. load \in [phase : {"none", "tenants", "save", "devices", "clear", "write", "end"},
               page : Nat, read : SUBSET DeviceIds]
    BY DEF RetrieverInv, LoadSound, CopyLoad
<1>6. loads \in 0..MaxLoads /\ restarts \in 0..MaxRestarts /\ lostRequests \in 0..MaxLost
    BY DEF RetrieverRest
<1> QED
    BY <1>1, <1>2, <1>3, <1>4, <1>5, <1>6 DEF RetrieverTypeOK

\* The two sides of the copy are well typed, and every bound is kept: nothing is in the copy that was never
\* a device, and the retriever is never ahead of the device manager (SyncLoader.js, RetrieverConsumer.js).
THEOREM RetrieverTypeCorrect == RetrieverSpec => []RetrieverTypeOK
BY RetrieverInvInit, RetrieverInvStep, RetrieverRestInit, RetrieverRestStep, RetrieverTypeFromInv,
   PTL DEF RetrieverSpec

-----------------------------------------------------------------------------
(* retriever: ranks in an order of times *)

InOrder(order, s, t) == IF order = "desc" THEN s > t ELSE s < t

\* The times of T that a walk shows before it comes to t.
Ahead(T, order, t) == {s \in T : InOrder(order, s, t)}
RankIn(T, order, t) == Cardinality(Ahead(T, order, t))

LEMMA RankIsNat ==
    ASSUME NEW T, IsFiniteSet(T), NEW order, NEW t
    PROVE  RankIn(T, order, t) \in Nat /\ IsFiniteSet(Ahead(T, order, t))
<1>1. Ahead(T, order, t) \in SUBSET T
    BY DEF Ahead
<1>2. IsFiniteSet(Ahead(T, order, t))
    BY <1>1, FS_Subset
<1> QED
    BY <1>2, FS_CardinalityType DEF RankIn

\* With more times there is more to show before t.
LEMMA RankGrows ==
    ASSUME NEW T, NEW U, IsFiniteSet(U), T \subseteq U, NEW order, NEW t
    PROVE  RankIn(T, order, t) <= RankIn(U, order, t)
<1>1. Ahead(T, order, t) \in SUBSET Ahead(U, order, t)
    BY DEF Ahead
<1> QED
    BY <1>1, RankIsNat, FS_Subset DEF RankIn

\* What comes earlier has the smaller rank.
LEMMA RankOrders ==
    ASSUME NEW T \in SUBSET Nat, IsFiniteSet(T), NEW order, NEW s \in T, NEW t \in Nat,
           InOrder(order, s, t)
    PROVE  RankIn(T, order, s) < RankIn(T, order, t)
<1> DEFINE S == Ahead(T, order, s)
<1>1. IsFiniteSet(S) /\ IsFiniteSet(Ahead(T, order, t)) /\ Cardinality(S) \in Nat
      /\ Cardinality(Ahead(T, order, t)) \in Nat
    BY RankIsNat DEF RankIn
<1>2. s \notin S
    BY DEF Ahead, InOrder
<1>3. \A u \in S : InOrder(order, u, t)
    BY DEF Ahead, InOrder
<1>4. S \cup {s} \in SUBSET Ahead(T, order, t)
    BY <1>3 DEF Ahead
<1>5. Cardinality(S \cup {s}) = Cardinality(S) + 1
    BY <1>1, <1>2, FS_AddElement
<1>6. Cardinality(S \cup {s}) <= Cardinality(Ahead(T, order, t))
    BY <1>1, <1>4, FS_Subset
<1> QED
    BY <1>1, <1>5, <1>6 DEF RankIn

LEMMA RankBounded ==
    ASSUME NEW T \in SUBSET Nat, IsFiniteSet(T), NEW order, NEW t \in T
    PROVE  RankIn(T, order, t) \in 0..(Cardinality(T) - 1)
<1>1. Ahead(T, order, t) \in SUBSET (T \ {t})
    BY DEF Ahead, InOrder
<1>2. IsFiniteSet(T \ {t}) /\ Cardinality(T \ {t}) = Cardinality(T) - 1
    BY FS_RemoveElement
<1>3. RankIn(T, order, t) <= Cardinality(T) - 1
    BY <1>1, <1>2, FS_Subset DEF RankIn
<1> QED
    BY <1>3, RankIsNat, FS_CardinalityType

\* Two times have two ranks.
LEMMA RankTells ==
    ASSUME NEW T \in SUBSET Nat, IsFiniteSet(T), NEW order, NEW s \in T, NEW t \in T,
           RankIn(T, order, s) = RankIn(T, order, t)
    PROVE  s = t
<1>1. RankIn(T, order, s) \in Nat /\ RankIn(T, order, t) \in Nat
    BY RankIsNat
<1>2. s # t => InOrder(order, s, t) \/ InOrder(order, t, s)
    BY DEF InOrder
<1>3. ~InOrder(order, s, t) /\ ~InOrder(order, t, s)
    BY <1>1, RankOrders
<1> QED
    BY <1>2, <1>3

\* Every rank below their number is the rank of one of the times.
LEMMA RankIsTaken ==
    ASSUME NEW T \in SUBSET Nat, IsFiniteSet(T), NEW order, NEW k \in 0..(Cardinality(T) - 1)
    PROVE  \E t \in T : RankIn(T, order, t) = k
<1> DEFINE n == Cardinality(T)
           K == 0..(n - 1)
           f == [t \in T |-> RankIn(T, order, t)]
<1>1. n \in Nat
    BY FS_CardinalityType
<1>2. f \in [T -> K]
    BY RankBounded
<1>3. \A s, t \in T : f[s] = f[t] => s = t
    BY RankTells
<1>4. f \in Injection(T, K)
    BY <1>2, <1>3 DEF Injection, IsInjective
<1>5. IsFiniteSet(K) /\ Cardinality(K) = n
    BY <1>1, FS_Interval
<1> HIDE DEF f
<1>6. f \in Surjection(T, K)
    BY <1>4, <1>5, FS_Injection
<1>7. \E t \in T : f[t] = k
    BY <1>6 DEF Surjection
<1> QED
    BY <1>7 DEF f

\* Sorted lists the times by their rank.
LEMMA SortedByRank ==
    ASSUME NEW T \in SUBSET Nat, IsFiniteSet(T), NEW order
    PROVE  /\ Cardinality(T) \in Nat
           /\ Sorted(T, order) \in [1..Cardinality(T) -> T]
           /\ \A i \in 1..Cardinality(T) : RankIn(T, order, Sorted(T, order)[i]) = i - 1
<1> DEFINE pick(i) == CHOOSE t \in T : RankIn(T, order, t) = i - 1
<1>1. Cardinality(T) \in Nat
    BY FS_CardinalityType
<1>2. Sorted(T, order) = [i \in 1..Cardinality(T) |-> pick(i)]
    BY DEF Sorted, RankIn, Ahead, InOrder
<1>3. ASSUME NEW i \in 1..Cardinality(T)
      PROVE  pick(i) \in T /\ RankIn(T, order, pick(i)) = i - 1
  <2>1. i - 1 \in 0..(Cardinality(T) - 1)
    BY <1>1
  <2>2. \E t \in T : RankIn(T, order, t) = i - 1
    BY <2>1, RankIsTaken
  <2> QED
    BY <2>2
<1> QED
    BY <1>1, <1>2, <1>3

-----------------------------------------------------------------------------
(* retriever: a page *)

\* The times a walk shows.
TimesIn(pts, kind, from, to) ==
    {t \in Times : InRange(t, from, to) /\ \E a \in Attributes : <<t, a>> \in pts /\ kind \in {"device", a}}

Row == [ts : Times, attrs : SUBSET Attributes]

\* A row for each time of T, with the attributes that "at" gives it.
Table(T, order, at) ==
    [i \in 1..Len(Sorted(T, order)) |-> [ts |-> Sorted(T, order)[i], attrs |-> at[Sorted(T, order)[i]]]]

\* The rows are those of T from the rank offset on, as many as there are up to the limit.
Lists(rows, T, order, limit, offset) ==
    /\ rows \in Seq(Row)
    /\ Len(rows) <= limit
    /\ \A i \in 1..Len(rows) : rows[i].ts \in T /\ RankIn(T, order, rows[i].ts) = offset + i - 1
    /\ Len(rows) = limit \/ Cardinality(T) <= offset + Len(rows)

LEMMA TimesAreFinite ==
    ASSUME NEW T \in SUBSET Times
    PROVE  T \in SUBSET Nat /\ IsFiniteSet(T) /\ Cardinality(T) \in Nat
<1>1. MaxTime \in Nat /\ IsFiniteSet(Times)
    BY DeviceDataAssumption, FS_Interval DEF Times
<1>2. IsFiniteSet(T)
    BY <1>1, FS_Subset
<1>3. T \in SUBSET Nat
    BY DEF Times
<1> QED
    BY <1>2, <1>3, FS_CardinalityType

\* limit and offset cut a page out of the rows.
LEMMA LimitedRows ==
    ASSUME NEW S, NEW rows \in Seq(S), NEW limit \in Nat, NEW offset \in Nat
    PROVE  LET page == Limited(rows, limit, offset)
           IN  /\ page \in Seq(S) /\ Len(page) <= limit
               /\ \A i \in 1..Len(page) : offset + i \in 1..Len(rows) /\ page[i] = rows[offset + i]
               /\ Len(page) = limit \/ Len(rows) <= offset + Len(page)
<1> DEFINE page == Limited(rows, limit, offset)
           k == Smaller(offset + limit, Len(rows))
           m == offset + 1
<1>1. Len(rows) \in Nat /\ \A i \in 1..Len(rows) : rows[i] \in S
    BY ElementOfSeq
<1>2. k \in Nat /\ k <= Len(rows) /\ k <= offset + limit /\ (k = Len(rows) \/ k = offset + limit)
    BY <1>1 DEF Smaller
<1>3. page = SubSeq(rows, m, k)
    BY DEF Limited
<1> HIDE DEF k, page
<1>4. \A i \in m..k : rows[i] \in S
  <2>1. SUFFICES ASSUME NEW i \in m..k PROVE rows[i] \in S
    OBVIOUS
  <2>2. i \in 1..Len(rows)
    BY <1>1, <1>2
  <2> QED
    BY <1>1, <2>2
<1>5. /\ page \in Seq(S) /\ Len(page) = IF m <= k THEN k - m + 1 ELSE 0
      /\ \A i \in 1..(k - m + 1) : page[i] = rows[m + i - 1]
  <2>1. m \in Int /\ k \in Int
    BY <1>2
  <2> HIDE DEF m
  <2> QED
    BY <1>3, <1>4, <2>1, SubSeqProperties
<1>6. ASSUME NEW i \in 1..Len(page)
      PROVE  offset + i \in 1..Len(rows) /\ page[i] = rows[offset + i]
  <2>1. i \in 1..(k - m + 1) /\ m + i - 1 = offset + i
    BY <1>2, <1>5
  <2>2. page[i] = rows[m + i - 1]
    BY <1>5, <2>1
  <2>3. offset + i \in 1..Len(rows)
    BY <1>1, <1>2, <2>1
  <2> QED
    BY <2>1, <2>2, <2>3
<1>7. Len(page) <= limit /\ (Len(page) = limit \/ Len(rows) <= offset + Len(page))
    BY <1>1, <1>2, <1>5
<1> QED
    BY <1>5, <1>6, <1>7 DEF page

\* A page of the rows of T lists them by their rank.
LEMMA PageLists ==
    ASSUME NEW T \in SUBSET Times, NEW order, NEW limit \in Nat, NEW offset \in Nat,
           NEW at \in [Times -> SUBSET Attributes]
    PROVE  LET page == Limited(Table(T, order, at), limit, offset)
           IN  /\ Lists(page, T, order, limit, offset)
               /\ \A i \in 1..Len(page) : page[i].attrs = at[page[i].ts]
<1> DEFINE n == Cardinality(T)
           sorted == Sorted(T, order)
           rows == Table(T, order, at)
           page == Limited(rows, limit, offset)
<1>1. n \in Nat /\ sorted \in [1..n -> T] /\ \A i \in 1..n : RankIn(T, order, sorted[i]) = i - 1
    BY TimesAreFinite, SortedByRank
<1>2. Len(sorted) = n
    BY <1>1
<1>3. rows = [i \in 1..n |-> [ts |-> sorted[i], attrs |-> at[sorted[i]]]]
    BY <1>2 DEF Table
<1> HIDE DEF sorted, rows
<1>4. \A i \in 1..n : rows[i] \in Row /\ rows[i].ts = sorted[i] /\ rows[i].attrs = at[rows[i].ts]
    BY <1>1, <1>3 DEF Row
<1>5. rows \in Seq(Row) /\ Len(rows) = n
  <2>1. rows \in [1..n -> Row]
    BY <1>3, <1>4
  <2> HIDE DEF n
  <2> QED
    BY <1>1, <2>1, SeqDef
<1>6. /\ page \in Seq(Row) /\ Len(page) <= limit
      /\ \A i \in 1..Len(page) : offset + i \in 1..n /\ page[i] = rows[offset + i]
      /\ Len(page) = limit \/ n <= offset + Len(page)
    BY <1>5, LimitedRows
<1> HIDE DEF page
<1>7. ASSUME NEW i \in 1..Len(page)
      PROVE  /\ page[i].ts \in T /\ RankIn(T, order, page[i].ts) = offset + i - 1
             /\ page[i].attrs = at[page[i].ts]
  <2>1. offset + i \in 1..n /\ page[i] = rows[offset + i]
    BY <1>6
  <2>2. page[i].ts = sorted[offset + i] /\ page[i].attrs = at[page[i].ts]
    BY <1>4, <2>1
  <2>3. sorted[offset + i] \in T /\ RankIn(T, order, sorted[offset + i]) = (offset + i) - 1
    BY <1>1, <2>1
  <2> QED
    BY <2>2, <2>3
<1> QED
    BY <1>6, <1>7 DEF Lists, page, rows

\* A page shows every time whose rank it spans, and a short page all that are left.
LEMMA PageShows ==
    ASSUME NEW T \in SUBSET Times, NEW order, NEW limit \in Nat, NEW offset \in Nat, NEW rows,
           Lists(rows, T, order, limit, offset), NEW t \in T, RankIn(T, order, t) >= offset,
           RankIn(T, order, t) < offset + limit \/ Len(rows) < limit
    PROVE  \E i \in 1..Len(rows) : rows[i].ts = t
<1> DEFINE i == RankIn(T, order, t) - offset + 1
<1>1. RankIn(T, order, t) \in 0..(Cardinality(T) - 1) /\ Cardinality(T) \in Nat
    BY TimesAreFinite, RankBounded
<1>2. Len(rows) \in Nat
    BY LenProperties DEF Lists
<1>3. i \in 1..Len(rows)
    BY <1>1, <1>2 DEF Lists
<1>4. rows[i].ts \in T /\ RankIn(T, order, rows[i].ts) = offset + i - 1
    BY <1>3 DEF Lists
<1>5. RankIn(T, order, rows[i].ts) = RankIn(T, order, t)
    BY <1>1, <1>4
<1>6. rows[i].ts = t
    BY <1>4, <1>5, TimesAreFinite, RankTells
<1> QED
    BY <1>3, <1>6

\* What AnswersPage reads: the rows of the walk's times that its page spans.
LEMMA RowsOfPage ==
    ASSUME NEW q, q.kind \in {"device"} \cup Attributes, q.to # 0, q.limit \in Nat,
           Offset(q.page, q.limit) \in Nat, points \subseteq Times \X Attributes
    PROVE  /\ Lists(RowsOf(q), TimesIn(points, q.kind, q.from, q.to), q.order, q.limit,
                    Offset(q.page, q.limit))
           /\ \A i \in 1..Len(RowsOf(q)), a \in Attributes :
                 <<RowsOf(q)[i].ts, a>> \in points /\ q.kind \in {"device", a} => a \in RowsOf(q)[i].attrs
<1> DEFINE T == TimesIn(points, q.kind, q.from, q.to)
           at == [t \in Times |-> IF q.kind = "device" THEN {a \in Attributes : <<t, a>> \in points}
                                                       ELSE {q.kind}]
           sorted == Sorted(T, q.order)
           offset == Offset(q.page, q.limit)
<1>1. T \in SUBSET Times /\ EndOf(q) = q.to
    BY DEF TimesIn, EndOf
<1>2. sorted \in [1..Cardinality(T) -> T] /\ Cardinality(T) \in Nat
    BY <1>1, TimesAreFinite, SortedByRank
<1>3. Len(sorted) = Cardinality(T) /\ \A i \in 1..Len(sorted) : sorted[i] \in Times
    BY <1>1, <1>2
<1>p. \A p \in points : p = <<p[1], p[2]>> /\ p[1] \in Times /\ p[2] \in Attributes
    OBVIOUS
<1>4. RowsOf(q) = Limited(Table(T, q.order, at), q.limit, offset)
  <2>1. CASE q.kind = "device"
    <3>1. T = {p[1] : p \in {o \in points : InRange(o[1], q.from, q.to)}}
      <4>1. \A t \in T : \E p \in points : p[1] = t /\ InRange(p[1], q.from, q.to)
        BY DEF TimesIn
      <4>2. \A p \in points : InRange(p[1], q.from, q.to) => p[1] \in T
        BY <1>p, <2>1 DEF TimesIn
      <4> HIDE DEF T
      <4> QED
        BY <4>1, <4>2
    <3>2. Table(T, q.order, at) =
             [i \in 1..Len(sorted) |->
                 [ts |-> sorted[i], attrs |-> {a \in Attributes : <<sorted[i], a>> \in points}]]
        BY <1>3, <2>1 DEF Table
    <3> HIDE DEF T, at
    <3>3. ByMeasurement(q, q.to) = Limited(Table(T, q.order, at), q.limit, offset)
        BY <3>1, <3>2 DEF ByMeasurement
    <3> QED
        BY <1>1, <2>1, <3>3 DEF RowsOf
  <2>2. CASE q.kind # "device"
    <3>1. T = {p[1] : p \in {o \in points : o[2] = q.kind /\ InRange(o[1], q.from, q.to)}}
      <4>1. \A t \in T : \E p \in points : p[1] = t /\ p[2] = q.kind /\ InRange(p[1], q.from, q.to)
        BY <2>2 DEF TimesIn
      <4>2. \A p \in points : p[2] = q.kind /\ InRange(p[1], q.from, q.to) => p[1] \in T
        BY <1>p DEF TimesIn
      <4> HIDE DEF T
      <4> QED
        BY <4>1, <4>2
    <3>2. Table(T, q.order, at) = [i \in 1..Len(sorted) |-> [ts |-> sorted[i], attrs |-> {q.kind}]]
        BY <1>3, <2>2 DEF Table
    <3> HIDE DEF T, at
    <3>3. ByField(q.kind, q, q.to) = Limited(Table(T, q.order, at), q.limit, offset)
        BY <3>1, <3>2 DEF ByField
    <3> QED
        BY <1>1, <2>2, <3>3 DEF RowsOf
  <2> QED
    BY <2>1, <2>2
<1>5. at \in [Times -> SUBSET Attributes]
    OBVIOUS
<1> HIDE DEF T, at
<1>6. /\ Lists(RowsOf(q), T, q.order, q.limit, offset)
      /\ \A i \in 1..Len(RowsOf(q)) : RowsOf(q)[i].attrs = at[RowsOf(q)[i].ts]
  <2>1. q.limit \in Nat /\ offset \in Nat
    OBVIOUS
  <2> HIDE DEF offset
  <2> QED
    BY <1>1, <1>4, <1>5, <2>1, PageLists
<1>7. \A t \in Times, a \in Attributes : <<t, a>> \in points /\ q.kind \in {"device", a} => a \in at[t]
    BY DEF at
<1>8. \A i \in 1..Len(RowsOf(q)) : RowsOf(q)[i].ts \in Times
    BY <1>1, <1>6 DEF Lists
<1> QED
    BY <1>6, <1>7, <1>8 DEF T

-----------------------------------------------------------------------------
(* retriever: a walk *)

LEMMA OffsetGrows ==
    ASSUME NEW page \in Nat \ {0}, NEW limit \in Nat
    PROVE  /\ Offset(page, limit) \in Nat /\ Offset(1, limit) = 0
           /\ Offset(page + 1, limit) = Offset(page, limit) + limit
<1>1. \A k \in Nat : k * limit \in Nat /\ (k + 1) * limit = k * limit + limit
    OBVIOUS
<1>2. page - 1 \in Nat /\ (page + 1) - 1 = (page - 1) + 1
    OBVIOUS
<1> QED
    BY <1>1, <1>2 DEF Offset

ReaderWith(g) ==
    [phase : {"idle", "reading", "read"}, kind : Kinds, from : Nat, to : Nat, order : Orders,
     limit : Nat \ {0}, page : Nat \ {0}, got : {g}, before : SUBSET (Times \X Attributes),
     overtaken : BOOLEAN, shrunk : BOOLEAN]

Ranked(q, pts, t) == RankIn(TimesIn(pts, q.kind, q.from, q.to), q.order, t)

DueTo(q) == {p \in q.before : InRange(p[1], q.from, q.to) /\ q.kind \in {"device", p[2]}}

ShownIn(g, p) == \E i \in 1..Len(g) : g[i].ts = p[1] /\ p[2] \in g[i].attrs

NoneTwice(g) == \A i, j \in 1..Len(g) : g[i].ts = g[j].ts => i = j

\* What is due has been shown or is still to come, from the rank k on.
ToCome(q, pts, g, k) ==
    \/ q.shrunk /\ q.order = "asc"
    \/ \A p \in DueTo(q) : ShownIn(g, p) \/ Ranked(q, pts, p[1]) >= k

\* Nothing that has been shown, each row once, comes at the rank k or later.
Passed(q, pts, g, k) ==
    \/ q.overtaken
    \/ NoneTwice(g) /\ \A i \in 1..Len(g) : Ranked(q, pts, g[i].ts) < k

\* A reader that is reading, of the points pts at the time n.
Walks(q, pts, n) ==
    /\ q.kind # "graphql" /\ q.to # 0
    /\ q.before \subseteq pts
    /\ q.got \in Seq(Row) /\ \A i \in 1..Len(q.got) : q.got[i].ts <= n
    /\ ToCome(q, pts, q.got, Offset(q.page, q.limit))
    /\ Passed(q, pts, q.got, Offset(q.page, q.limit))

\* A reader that has followed the links to the end.
HasWalked(q) ==
    /\ q.to # 0 /\ q.got \in Seq(Row)
    /\ \/ q.shrunk /\ q.order = "asc"
       \/ \A p \in DueTo(q) : ShownIn(q.got, p)
    /\ q.overtaken \/ NoneTwice(q.got)

ReaderOK(q, pts, n) ==
    /\ q \in ReaderWith(q.got)
    /\ q.phase = "reading" => Walks(q, pts, n)
    /\ q.phase = "read" /\ q.kind # "graphql" => HasWalked(q)

\* What a walk has shown and what it has yet to show, by their ranks among what is stored.
PagesInv ==
    /\ now \in Times
    /\ points \subseteq Times \X Attributes /\ \A p \in points : p[1] <= now
    /\ reader = [r \in Readers |-> reader[r]]
    /\ \A r \in Readers : ReaderOK(reader[r], points, now)

LEMMA TimesInTimes == \A pts, kind, from, to : TimesIn(pts, kind, from, to) \in SUBSET Times
BY DEF TimesIn

LEMMA RankedIsNat == \A q, pts, t : Ranked(q, pts, t) \in Nat
BY TimesInTimes, TimesAreFinite, RankIsNat DEF Ranked

\* The next page: what was to come at its offset is on it, or comes after it on a further page.
LEMMA PageAdds ==
    ASSUME PagesInv, NEW q, q \in ReaderWith(q.got), Walks(q, points, now)
    PROVE  LET rows == RowsOf(q)
               g == q.got \o rows
               k == Offset(q.page, q.limit) + q.limit
           IN  /\ g \in Seq(Row) /\ \A i \in 1..Len(g) : g[i].ts <= now
               /\ ToCome(q, points, g, k) /\ Passed(q, points, g, k)
               /\ Len(rows) \in Nat
               /\ Len(rows) < q.limit => \/ q.shrunk /\ q.order = "asc"
                                         \/ \A p \in DueTo(q) : ShownIn(g, p)
<1> DEFINE rows == RowsOf(q)
           g == q.got \o rows
           offset == Offset(q.page, q.limit)
           T == TimesIn(points, q.kind, q.from, q.to)
<1>1. /\ q.limit \in Nat /\ offset \in Nat /\ q.kind \in {"device"} \cup Attributes /\ q.to # 0
      /\ q.order \in Orders /\ points \subseteq Times \X Attributes
  <2>1. q.limit \in Nat \ {0} /\ q.page \in Nat \ {0} /\ q.kind \in Kinds /\ q.order \in Orders
    BY DEF ReaderWith
  <2> QED
    BY <2>1, OffsetGrows DEF Walks, PagesInv, Kinds
<1>2. /\ Lists(rows, T, q.order, q.limit, offset)
      /\ \A i \in 1..Len(rows), a \in Attributes :
            <<rows[i].ts, a>> \in points /\ q.kind \in {"device", a} => a \in rows[i].attrs
    BY <1>1, RowsOfPage
<1> HIDE DEF rows, offset
<1>3. q.got \in Seq(Row) /\ rows \in Seq(Row) /\ Len(q.got) \in Nat /\ Len(rows) \in Nat
    BY <1>2, LenProperties DEF Lists, Walks
<1>4. /\ g \in Seq(Row) /\ Len(g) = Len(q.got) + Len(rows)
      /\ \A i \in 1..(Len(q.got) + Len(rows)) :
            g[i] = IF i <= Len(q.got) THEN q.got[i] ELSE rows[i - Len(q.got)]
    BY <1>3, ConcatProperties
<1> HIDE DEF g
<1>5. \A i \in 1..Len(q.got) : i \in 1..Len(g) /\ g[i] = q.got[i]
    BY <1>3, <1>4
<1>6. \A i \in 1..Len(rows) : Len(q.got) + i \in 1..Len(g) /\ g[Len(q.got) + i] = rows[i]
  <2>1. SUFFICES ASSUME NEW i \in 1..Len(rows)
                 PROVE  Len(q.got) + i \in 1..Len(g) /\ g[Len(q.got) + i] = rows[i]
    OBVIOUS
  <2>2. /\ Len(q.got) + i \in 1..(Len(q.got) + Len(rows)) /\ ~(Len(q.got) + i <= Len(q.got))
        /\ (Len(q.got) + i) - Len(q.got) = i
    BY <1>3
  <2>3. g[Len(q.got) + i] = rows[(Len(q.got) + i) - Len(q.got)]
    BY <1>4, <2>2
  <2> QED
    BY <1>4, <2>2, <2>3
<1>7. \A i \in 1..Len(g) : \/ i \in 1..Len(q.got) /\ g[i] = q.got[i]
                           \/ i - Len(q.got) \in 1..Len(rows) /\ g[i] = rows[i - Len(q.got)]
    BY <1>3, <1>4
<1>8. T \in SUBSET Times /\ \A t \in T : t <= now
    BY TimesInTimes DEF TimesIn, PagesInv
<1>9. \A i \in 1..Len(rows) : rows[i].ts \in T /\ Ranked(q, points, rows[i].ts) = offset + i - 1
    BY <1>2 DEF Lists, Ranked
<1>10. \A i \in 1..Len(g) : g[i].ts <= now
    BY <1>7, <1>8, <1>9 DEF Walks
<1>11. \A p \in DueTo(q) : <<p[1], p[2]>> = p /\ p[1] \in T /\ p[2] \in Attributes /\ p \in points
                           /\ q.kind \in {"device", p[2]}
    BY <1>1 DEF DueTo, Walks, TimesIn
<1>12. ASSUME NEW p \in DueTo(q), ShownIn(q.got, p) \/ Ranked(q, points, p[1]) >= offset
       PROVE  \/ ShownIn(g, p)
              \/ Ranked(q, points, p[1]) >= offset + q.limit /\ ~(Len(rows) < q.limit)
  <2>1. CASE ShownIn(q.got, p)
    BY <1>5, <2>1 DEF ShownIn
  <2>2. CASE /\ Ranked(q, points, p[1]) >= offset
             /\ Ranked(q, points, p[1]) < offset + q.limit \/ Len(rows) < q.limit
    <3>1. PICK i \in 1..Len(rows) : rows[i].ts = p[1]
      <4>1. p[1] \in T
        BY <1>11
      <4>2. /\ RankIn(T, q.order, p[1]) >= offset
            /\ RankIn(T, q.order, p[1]) < offset + q.limit \/ Len(rows) < q.limit
        BY <2>2 DEF Ranked
      <4>3. Lists(rows, T, q.order, q.limit, offset) /\ T \in SUBSET Times
        BY <1>2, <1>8
      <4> DEFINE t == p[1]
                 order == q.order
                 limit == q.limit
      <4>4. limit \in Nat /\ offset \in Nat
        BY <1>1
      <4>5. /\ Lists(rows, T, order, limit, offset) /\ t \in T /\ RankIn(T, order, t) >= offset
            /\ RankIn(T, order, t) < offset + limit \/ Len(rows) < limit
        BY <4>1, <4>2, <4>3
      <4> HIDE DEF T, t, order, limit
      <4>6. \E i \in 1..Len(rows) : rows[i].ts = t
        BY <4>3, <4>4, <4>5, PageShows
      <4> QED
        BY <4>6 DEF t
    <3>2. p[2] \in rows[i].attrs
      <4>1. <<rows[i].ts, p[2]>> \in points /\ q.kind \in {"device", p[2]} /\ p[2] \in Attributes
        BY <1>11, <3>1
      <4> QED
        BY <1>2, <4>1
    <3> QED
        BY <1>6, <3>1, <3>2 DEF ShownIn
  <2>3. Ranked(q, points, p[1]) \in Nat
    BY RankedIsNat
  <2> QED
    BY <1>1, <1>12, <2>1, <2>2, <2>3
<1>13. ToCome(q, points, g, offset + q.limit)
    BY <1>12 DEF ToCome, Walks, offset
<1>14. Len(rows) < q.limit => (q.shrunk /\ q.order = "asc") \/ \A p \in DueTo(q) : ShownIn(g, p)
    BY <1>12 DEF ToCome, Walks, offset
<1>15. ASSUME ~q.overtaken PROVE Passed(q, points, g, offset + q.limit)
  <2>1. NoneTwice(q.got) /\ \A i \in 1..Len(q.got) : Ranked(q, points, q.got[i].ts) < offset
    BY <1>15 DEF Walks, Passed, offset
  <2>2. \A i \in 1..Len(rows) : /\ Ranked(q, points, rows[i].ts) >= offset
                                /\ Ranked(q, points, rows[i].ts) < offset + q.limit
    BY <1>1, <1>2, <1>3, <1>9 DEF Lists
  <2>3. ASSUME NEW i \in 1..Len(g) PROVE Ranked(q, points, g[i].ts) < offset + q.limit
    <3>1. CASE i \in 1..Len(q.got) /\ g[i] = q.got[i]
      <4>1. Ranked(q, points, q.got[i].ts) < offset
        BY <2>1, <3>1
      <4> QED
        BY <1>1, <3>1, <4>1, RankedIsNat
    <3>2. CASE i - Len(q.got) \in 1..Len(rows) /\ g[i] = rows[i - Len(q.got)]
      BY <2>2, <3>2
    <3> QED
      BY <1>7, <3>1, <3>2
  <2>4. ASSUME NEW i \in 1..Len(g), NEW j \in 1..Len(g), g[i].ts = g[j].ts PROVE i = j
    <3> DEFINE R(x) == Ranked(q, points, x)
    <3>1. CASE i \in 1..Len(q.got) /\ j \in 1..Len(q.got)
      BY <1>5, <2>1, <2>4, <3>1 DEF NoneTwice
    <3>2. CASE i - Len(q.got) \in 1..Len(rows) /\ j - Len(q.got) \in 1..Len(rows)
      <4>1. /\ g[i] = rows[i - Len(q.got)] /\ g[j] = rows[j - Len(q.got)]
        BY <1>3, <1>4, <3>2
      <4>2. /\ R(g[i].ts) = offset + (i - Len(q.got)) - 1
            /\ R(g[j].ts) = offset + (j - Len(q.got)) - 1
        BY <1>9, <3>2, <4>1
      <4>3. R(g[i].ts) = R(g[j].ts)
        BY <2>4
      <4>4. i \in Int /\ j \in Int /\ offset \in Nat /\ Len(q.got) \in Nat
        BY <1>1, <1>3, <1>4
      <4> HIDE DEF R
      <4>5. offset + (i - Len(q.got)) - 1 = offset + (j - Len(q.got)) - 1
        BY <4>2, <4>3
      <4> QED
        BY <4>4, <4>5
    <3>3. ASSUME NEW x \in 1..Len(q.got), NEW y \in 1..Len(rows) PROVE q.got[x].ts # rows[y].ts
      <4>1. R(q.got[x].ts) < offset /\ R(rows[y].ts) >= offset
        BY <2>1, <2>2
      <4>2. R(q.got[x].ts) \in Nat /\ R(rows[y].ts) \in Nat
        BY RankedIsNat
      <4> HIDE DEF R
      <4> QED
        BY <1>1, <4>1, <4>2
    <3> QED
      BY <1>7, <2>4, <3>1, <3>2, <3>3
  <2> QED
    BY <2>3, <2>4 DEF Passed, NoneTwice
<1>16. Passed(q, points, g, offset + q.limit)
    BY <1>15 DEF Passed
<1> QED
    BY <1>3, <1>4, <1>10, <1>13, <1>14, <1>16 DEF g, rows, offset

-----------------------------------------------------------------------------
(* retriever: what each action leaves of the walks *)

LEMMA NoReadingOK ==
    /\ NoReading \in ReaderWith(NoReading.got)
    /\ \A pts, n : ReaderOK(NoReading, pts, n)
    /\ NoReading.got = <<>>
<1>1. NoReading \in ReaderWith(<<>>) /\ NoReading.got = <<>> /\ NoReading.phase = "idle"
    BY DEF NoReading, ReaderWith, Kinds, Orders
<1> QED
    BY <1>1 DEF ReaderOK

\* The request of a client makes its reader anew.
LEMMA ReaderAsks ==
    ASSUME NEW q, NEW h, q \in ReaderWith(h), NEW phase \in {"idle", "reading", "read"}, NEW kind \in Kinds,
           NEW from \in Nat, NEW to \in Nat, NEW order \in Orders, NEW limit \in Nat \ {0},
           NEW before \in SUBSET (Times \X Attributes)
    PROVE  [q EXCEPT !.phase = phase, !.kind = kind, !.from = from, !.to = to, !.order = order,
                     !.limit = limit, !.before = before] \in ReaderWith(h)
BY DEF ReaderWith

LEMMA PagesInvInit == DataInit => PagesInv
<1> SUFFICES ASSUME DataInit PROVE PagesInv
    OBVIOUS
<1>1. now \in Times /\ points = {} /\ reader = [r \in Readers |-> NoReading]
    BY DeviceDataAssumption DEF DataInit, Times
<1> QED
    BY <1>1, NoReadingOK DEF PagesInv

\* A step of one reader, which finds what is stored and the clock as they are.
LEMMA OneReader ==
    ASSUME PagesInv, NEW r \in Readers, NEW v, ReaderOK(v, points, now),
           reader' = [reader EXCEPT ![r] = v], points' = points, now' = now
    PROVE  PagesInv'
<1>1. reader' = [x \in Readers |-> IF x = r THEN v ELSE reader[x]]
    BY DEF PagesInv
<1>2. \A x \in Readers : reader'[x] = v \/ reader'[x] = reader[x]
    BY <1>1
<1>3. reader' = [x \in Readers |-> reader'[x]]
    BY <1>1
<1>4. \A x \in Readers : ReaderOK(reader'[x], points', now')
    BY <1>2 DEF PagesInv
<1> QED
    BY <1>3, <1>4 DEF PagesInv

LEMMA AsksDataOK ==
    ASSUME PagesInv, NEW r \in Readers, NEW kind \in Kinds, NEW from \in Nat, NEW to \in Nat,
           NEW order \in Orders, NEW limit \in Nat, AsksData(r, kind, from, to, order, limit)
    PROVE  PagesInv'
<1> DEFINE v == [NoReading EXCEPT !.phase = "reading", !.kind = kind, !.from = from, !.to = CheckDateTo(to),
                      !.order = order, !.limit = PageLimit(limit), !.before = points]
<1>1. CheckDateTo(to) \in Nat \ {0} /\ PageLimit(limit) \in Nat \ {0}
    BY DeviceDataAssumption DEF CheckDateTo, PageLimit, PagesInv, Times
<1>2. points \in SUBSET (Times \X Attributes)
    BY DEF PagesInv
<1>3. /\ v.phase = "reading" /\ v.kind = kind /\ v.to = CheckDateTo(to) /\ v.limit = PageLimit(limit)
      /\ v.page = 1 /\ v.got = <<>> /\ v.before = points
    BY DEF NoReading
<1>4. v \in ReaderWith(<<>>)
  <2>1. NoReading \in ReaderWith(<<>>)
    BY NoReadingOK
  <2>2. CheckDateTo(to) \in Nat
    BY <1>1
  <2> QED
    BY <1>1, <1>2, <2>1, <2>2, ReaderAsks
<1> HIDE DEF v
<1>5. Offset(v.page, v.limit) = 0
    BY <1>1, <1>3, OffsetGrows
<1>6. v.got \in Seq(Row) /\ Len(v.got) = 0
    BY <1>3, EmptySeq
<1>7. \A p \in DueTo(v) : Ranked(v, points, p[1]) >= 0
    BY RankedIsNat
<1>8. ToCome(v, points, v.got, 0) /\ Passed(v, points, v.got, 0)
    BY <1>6, <1>7 DEF ToCome, Passed, NoneTwice
<1>9. Walks(v, points, now)
    BY <1>1, <1>3, <1>5, <1>6, <1>8 DEF Walks, AsksData
<1>10. ReaderOK(v, points, now)
    BY <1>3, <1>4, <1>9 DEF ReaderOK
<1>11. reader' = [reader EXCEPT ![r] = v] /\ points' = points /\ now' = now
    BY DEF AsksData, v
<1> QED
    BY <1>10, <1>11, OneReader

LEMMA AnswersPageOK ==
    ASSUME PagesInv, NEW r \in Readers, AnswersPage(r)
    PROVE  PagesInv'
<1> DEFINE q == reader[r]
           rows == RowsOf(q)
           g == q.got \o rows
           k == Offset(q.page, q.limit) + q.limit
           full == HasNext(rows, q.limit)
           phase == IF full THEN "reading" ELSE "read"
           page == IF full THEN q.page + 1 ELSE q.page
           v == [q EXCEPT !.got = g, !.phase = phase, !.page = page]
<1>1. q \in ReaderWith(q.got) /\ q.phase = "reading" /\ Walks(q, points, now)
    BY DEF PagesInv, ReaderOK, AnswersPage, Reading
<1>2. q.page \in Nat \ {0} /\ q.limit \in Nat \ {0}
    BY <1>1 DEF ReaderWith
<1>3. /\ g \in Seq(Row) /\ \A i \in 1..Len(g) : g[i].ts <= now
      /\ ToCome(q, points, g, k) /\ Passed(q, points, g, k) /\ Len(rows) \in Nat
      /\ Len(rows) < q.limit => \/ q.shrunk /\ q.order = "asc"
                                \/ \A p \in DueTo(q) : ShownIn(g, p)
    BY <1>1, PageAdds
<1>4. reader' = [reader EXCEPT ![r] = v] /\ points' = points /\ now' = now
  <2>1. reader' = [reader EXCEPT ![r].got = @ \o rows,
                                 ![r].phase = IF full THEN "reading" ELSE "read",
                                 ![r].page = IF full THEN @ + 1 ELSE @]
    BY DEF AnswersPage
  <2> HIDE DEF rows, full
  <2> QED
    BY <1>1, <2>1 DEF PagesInv, AnswersPage
<1> HIDE DEF g, rows, full
<1>5. /\ v.kind = q.kind /\ v.from = q.from /\ v.to = q.to /\ v.order = q.order /\ v.limit = q.limit
      /\ v.before = q.before /\ v.overtaken = q.overtaken /\ v.shrunk = q.shrunk
      /\ v.got = g /\ v.phase = (IF full THEN "reading" ELSE "read")
      /\ v.page = (IF full THEN q.page + 1 ELSE q.page)
      /\ v \in ReaderWith(g)
  <2>1. phase \in {"idle", "reading", "read"} /\ page \in Nat \ {0}
    BY <1>2
  <2> HIDE DEF phase, page, q
  <2>2. /\ v \in ReaderWith(g)
        /\ v.kind = q.kind /\ v.from = q.from /\ v.to = q.to /\ v.order = q.order /\ v.limit = q.limit
        /\ v.before = q.before /\ v.overtaken = q.overtaken /\ v.shrunk = q.shrunk
        /\ v.got = g /\ v.phase = phase /\ v.page = page
    BY <1>1, <2>1 DEF ReaderWith
  <2> QED
    BY <2>2 DEF phase, page
<1> HIDE DEF v
<1>6. DueTo(v) = DueTo(q) /\ \A t : Ranked(v, points, t) = Ranked(q, points, t)
    BY <1>5 DEF DueTo, Ranked
<1>7. CASE full
  <2>1. Offset(v.page, v.limit) = k
    BY <1>2, <1>5, <1>7, OffsetGrows
  <2>2. ToCome(v, points, g, k) /\ Passed(v, points, g, k)
    BY <1>3, <1>5, <1>6 DEF ToCome, Passed
  <2>3. Walks(v, points, now)
    BY <1>1, <1>3, <1>5, <2>1, <2>2 DEF Walks
  <2> QED
    BY <1>4, <1>5, <1>7, <2>3, OneReader DEF ReaderOK
<1>8. CASE ~full
  <2>1. Len(rows) < q.limit
    BY <1>2, <1>3, <1>8 DEF full, HasNext
  <2>2. HasWalked(v)
    BY <1>1, <1>3, <1>5, <1>6, <2>1 DEF HasWalked, Walks, Passed
  <2> QED
    BY <1>4, <1>5, <1>8, <2>2, OneReader DEF ReaderOK
<1> QED
    BY <1>7, <1>8

LEMMA QueryFailsOK ==
    ASSUME PagesInv, NEW r \in Readers, QueryFails(r)
    PROVE  PagesInv'
BY NoReadingOK, OneReader DEF QueryFails

LEMMA AsksGraphqlOK ==
    ASSUME PagesInv, NEW r \in Readers, NEW as \in SUBSET Attributes, NEW from \in Nat,
           NEW limit \in Nat \ {0}, NEW isDesc \in BOOLEAN, AsksGraphql(r, as, from, limit, isDesc)
    PROVE  PagesInv'
<1> DEFINE order == IF isDesc THEN "desc" ELSE "asc"
           q == [NoReading EXCEPT !.phase = "read", !.kind = "graphql", !.from = from, !.limit = limit,
                             !.order = order, !.before = points]
           rows == ByGraphql(as, q, now)
           v == [q EXCEPT !.got = rows]
<1>1. reader' = [reader EXCEPT ![r] = v] /\ points' = points /\ now' = now
    BY DEF AsksGraphql
<1> HIDE DEF rows
<1>2. points \in SUBSET (Times \X Attributes)
    BY DEF PagesInv
<1>3. v.phase = "read" /\ v.kind = "graphql" /\ v.got = rows
    BY DEF NoReading
<1>4. v \in ReaderWith(rows)
  <2>1. NoReading \in ReaderWith(<<>>) /\ NoReading.to = 0
    BY NoReadingOK DEF NoReading
  <2>2. "graphql" \in Kinds /\ order \in Orders
    BY DEF Kinds, Orders
  <2> HIDE DEF order
  <2>3. q \in ReaderWith(<<>>)
    BY <1>2, <2>1, <2>2 DEF ReaderWith
  <2> HIDE DEF q
  <2> QED
    BY <2>3 DEF ReaderWith
<1> HIDE DEF v
<1>5. ReaderOK(v, points, now)
    BY <1>3, <1>4 DEF ReaderOK
<1> QED
    BY <1>1, <1>5, OneReader

\* A walk goes on, over other points: what is due and stored has no smaller rank, unless ascending
\* over expired ones; and what it has shown no greater one, unless a point has overtaken it.
LEMMA WalkGoesOn ==
    ASSUME NEW q, NEW v, NEW pts, NEW n \in Nat, Walks(q, points, now), now <= n, now \in Nat,
           v.kind = q.kind, v.from = q.from, v.to = q.to, v.order = q.order, v.limit = q.limit,
           v.page = q.page, v.got = q.got, q.limit \in Nat \ {0}, q.page \in Nat \ {0},
           v.before \subseteq q.before \cap pts,
           q.shrunk => v.shrunk, q.overtaken => v.overtaken,
           \/ v.shrunk /\ v.order = "asc"
           \/ \A p \in DueTo(v) : Ranked(q, points, p[1]) <= Ranked(q, pts, p[1]),
           \/ v.overtaken
           \/ \A t \in Times : t <= now => Ranked(q, pts, t) <= Ranked(q, points, t)
    PROVE  Walks(v, pts, n)
<1> DEFINE k == Offset(q.page, q.limit)
<1>1. k \in Nat
    BY OffsetGrows
<1>2. \A pt, t : Ranked(v, pt, t) = Ranked(q, pt, t)
    BY DEF Ranked
<1>3. DueTo(v) \subseteq DueTo(q)
    BY DEF DueTo
<1>4. q.got \in Seq(Row) /\ \A i \in 1..Len(q.got) : q.got[i].ts <= now /\ q.got[i].ts \in Times
  <2>1. q.got \in Seq(Row) /\ \A i \in 1..Len(q.got) : q.got[i].ts <= now
    BY DEF Walks
  <2>2. \A i \in 1..Len(q.got) : q.got[i] \in Row
    BY <2>1, ElementOfSeq
  <2> QED
    BY <2>1, <2>2 DEF Row
<1>5. \A i \in 1..Len(q.got) : q.got[i].ts <= n
  <2>1. \A t \in Times : t \in Nat
    BY TimesAreFinite
  <2> QED
    BY <1>4, <2>1
<1>6. ToCome(q, points, q.got, k) /\ Passed(q, points, q.got, k)
    BY DEF Walks
<1> HIDE DEF k
<1>7. ToCome(v, pts, q.got, k)
  <2>1. SUFFICES ASSUME ~(v.shrunk /\ v.order = "asc"), NEW p \in DueTo(v), ~ShownIn(q.got, p)
                 PROVE  Ranked(q, pts, p[1]) >= k
    BY <1>2 DEF ToCome
  <2>2. ~(q.shrunk /\ q.order = "asc")
    BY <2>1
  <2>3. Ranked(q, points, p[1]) >= k
    BY <1>3, <1>6, <2>1, <2>2 DEF ToCome
  <2>4. Ranked(q, points, p[1]) <= Ranked(q, pts, p[1])
    BY <2>1
  <2>5. Ranked(q, points, p[1]) \in Nat /\ Ranked(q, pts, p[1]) \in Nat
    BY RankedIsNat
  <2> QED
    BY <1>1, <2>3, <2>4, <2>5
<1>8. Passed(v, pts, q.got, k)
  <2>1. SUFFICES ASSUME ~v.overtaken
                 PROVE  NoneTwice(q.got) /\ \A i \in 1..Len(q.got) : Ranked(q, pts, q.got[i].ts) < k
    BY <1>2 DEF Passed
  <2>2. NoneTwice(q.got) /\ \A i \in 1..Len(q.got) : Ranked(q, points, q.got[i].ts) < k
    BY <1>6, <2>1 DEF Passed
  <2>3. ASSUME NEW i \in 1..Len(q.got) PROVE Ranked(q, pts, q.got[i].ts) < k
    <3> DEFINE t == q.got[i].ts
    <3>1. t \in Times /\ t <= now /\ Ranked(q, points, t) < k
      BY <1>4, <2>2
    <3> HIDE DEF t
    <3>2. Ranked(q, pts, t) <= Ranked(q, points, t)
      BY <2>1, <3>1
    <3>3. Ranked(q, points, t) \in Nat /\ Ranked(q, pts, t) \in Nat
      BY RankedIsNat
    <3>4. Ranked(q, pts, t) < k
      BY <1>1, <3>1, <3>2, <3>3
    <3> QED
      BY <3>4 DEF t
  <2> QED
    BY <2>2, <2>3
<1> QED
    BY <1>4, <1>5, <1>7, <1>8 DEF Walks, k

LEMMA WalkedStays ==
    ASSUME NEW q, NEW v, HasWalked(q), v.kind = q.kind, v.from = q.from, v.to = q.to, v.order = q.order,
           v.got = q.got, v.before = q.before, q.shrunk => v.shrunk, q.overtaken => v.overtaken
    PROVE  HasWalked(v)
BY DEF HasWalked, DueTo

LEMMA PassesOK == ASSUME PagesInv, Passes PROVE PagesInv'
<1>1. now' \in Times /\ now' = now + 1 /\ points' = points /\ reader' = reader
    BY DeviceDataAssumption DEF Passes, PagesInv, Times
<1>2. \A p \in points : p[1] \in Nat
    BY DEF PagesInv, Times
<1>3. \A p \in points : p[1] <= now'
    BY <1>1, <1>2 DEF PagesInv, Times
<1>4. ASSUME NEW r \in Readers PROVE ReaderOK(reader[r], points, now')
  <2> DEFINE q == reader[r]
  <2>1. ReaderOK(q, points, now) /\ now \in Nat /\ now' \in Nat /\ now <= now'
    BY <1>1 DEF PagesInv, Times
  <2> HIDE DEF q
  <2>2. q.limit \in Nat \ {0} /\ q.page \in Nat \ {0}
    BY <2>1 DEF ReaderOK, ReaderWith
  <2>3. ASSUME Walks(q, points, now) PROVE Walks(q, points, now')
    <3>1. \A t : Ranked(q, points, t) <= Ranked(q, points, t)
      BY RankedIsNat
    <3>2. q.before \subseteq q.before \cap points
      BY <2>3 DEF Walks
    <3> QED
      BY <2>1, <2>2, <2>3, <3>1, <3>2, WalkGoesOn
  <2>4. ReaderOK(q, points, now')
    BY <2>1, <2>3 DEF ReaderOK
  <2> QED
    BY <2>4 DEF q
<1> QED
    BY <1>1, <1>3, <1>4 DEF PagesInv

LEMMA StoresOK ==
    ASSUME PagesInv, NEW t \in Times, NEW a \in Attributes, Stores(t, a)
    PROVE  PagesInv'
<1> DEFINE pts == points \cup {<<t, a>>}
<1>1. points' = pts /\ now' = now /\ t <= now /\ now \in Nat /\ now \in Times
    BY DEF Stores, PagesInv, Times
<1>2. reader' = [r \in Readers |-> [reader[r] EXCEPT !.overtaken = @ \/ Overtakes(t, r)]]
    BY DEF Stores
<1>3. pts \subseteq Times \X Attributes /\ \A p \in pts : p[1] <= now
    BY <1>1 DEF PagesInv
<1> HIDE DEF pts
<1>4. ASSUME NEW r \in Readers PROVE ReaderOK(reader'[r], pts, now)
  <2> DEFINE q == reader[r]
             over == q.overtaken \/ Overtakes(t, r)
             v == [q EXCEPT !.overtaken = over]
             T == TimesIn(points, q.kind, q.from, q.to)
             U == TimesIn(pts, q.kind, q.from, q.to)
  <2>1. ReaderOK(q, points, now) /\ q \in ReaderWith(q.got)
    BY DEF PagesInv, ReaderOK
  <2>2. reader'[r] = v
    BY <1>2
  <2>3. over \in BOOLEAN /\ (q.overtaken => over)
    BY DEF Overtakes
  <2>4. q.phase = "reading" /\ ~over => ~(t < q.to /\ (t < now \/ q.order = "desc"))
    BY DEF Overtakes, Reading
  <2> HIDE DEF q, over
  <2>5. /\ v.phase = q.phase /\ v.kind = q.kind /\ v.from = q.from /\ v.to = q.to /\ v.order = q.order
        /\ v.limit = q.limit /\ v.page = q.page /\ v.got = q.got /\ v.before = q.before
        /\ v.overtaken = over /\ v.shrunk = q.shrunk
        /\ v \in ReaderWith(q.got) /\ q.limit \in Nat \ {0} /\ q.page \in Nat \ {0} /\ q.to \in Nat
        /\ q.order \in Orders
    <3>1. CASE over = TRUE
      BY <2>1, <3>1 DEF ReaderWith
    <3>2. CASE over = FALSE
      BY <2>1, <3>2 DEF ReaderWith
    <3> QED
      BY <2>3, <3>1, <3>2
  <2> HIDE DEF v
  <2>5a. (q.overtaken => v.overtaken) /\ (q.shrunk => v.shrunk)
    BY <2>3, <2>5
  <2>6. CASE q.phase = "reading"
    <3>1. Walks(q, points, now)
      BY <2>1, <2>6 DEF ReaderOK
    <3>2. T \subseteq U /\ U \subseteq T \cup {t} /\ (t >= q.to => U = T)
          /\ T \in SUBSET Nat /\ U \in SUBSET Nat /\ IsFiniteSet(T) /\ IsFiniteSet(U)
      <4>1. U \subseteq T \cup {t} /\ T \subseteq U
        BY DEF TimesIn, pts
      <4>2. t >= q.to => t \notin U
        BY <1>1, <2>5 DEF TimesIn, InRange, Times
      <4>3. T \in SUBSET Times /\ U \in SUBSET Times
        BY TimesInTimes
      <4> HIDE DEF T, U
      <4> QED
        BY <4>1, <4>2, <4>3, TimesAreFinite
    <3>3. \A s : Ranked(q, points, s) <= Ranked(q, pts, s)
      BY <3>2, RankGrows DEF Ranked
    <3>4. ~over => \A s \in Times : s <= now => Ranked(q, pts, s) <= Ranked(q, points, s)
      <4>1. SUFFICES ASSUME ~over, NEW s \in Times, s <= now
                     PROVE  Ranked(q, pts, s) <= Ranked(q, points, s)
        OBVIOUS
      <4>2. t \in Nat /\ s \in Nat /\ now \in Nat
        BY <1>1 DEF Times
      <4>3. t >= q.to \/ (t = now /\ q.order = "asc")
        BY <1>1, <2>4, <2>5, <2>6, <4>1, <4>2 DEF Orders
      <4>4. Ahead(U, q.order, s) \subseteq Ahead(T, q.order, s)
        <5>1. CASE t >= q.to
          BY <3>2, <5>1
        <5>2. CASE t = now /\ q.order = "asc"
          <6>1. ~InOrder(q.order, t, s)
            BY <4>1, <4>2, <5>2 DEF InOrder
          <6> HIDE DEF T, U
          <6> QED
            BY <3>2, <6>1 DEF Ahead
        <5> QED
          BY <4>3, <5>1, <5>2
      <4>5. Ahead(T, q.order, s) \subseteq Ahead(U, q.order, s)
        BY <3>2 DEF Ahead
      <4>6. Ahead(U, q.order, s) = Ahead(T, q.order, s)
        BY <4>4, <4>5
      <4>7. Ranked(q, pts, s) = Ranked(q, points, s)
        BY <4>6 DEF Ranked, RankIn
      <4> QED
        BY <4>7, RankedIsNat
    <3>5. v.before \subseteq q.before \cap pts
      BY <2>5, <3>1 DEF Walks, pts
    <3>6. \/ v.overtaken
          \/ \A s \in Times : s <= now => Ranked(q, pts, s) <= Ranked(q, points, s)
      BY <2>5, <3>4
    <3>7. \A p \in DueTo(v) : Ranked(q, points, p[1]) <= Ranked(q, pts, p[1])
      BY <3>3
    <3>8. now <= now
      BY <1>1
    <3>9. Walks(v, pts, now)
      BY <1>1, <2>5, <2>5a, <3>1, <3>5, <3>6, <3>7, <3>8, WalkGoesOn
    <3> QED
      BY <2>2, <2>5, <2>6, <3>9 DEF ReaderOK
  <2>7. CASE q.phase # "reading"
    <3>1. ASSUME HasWalked(q) PROVE HasWalked(v)
      BY <2>5, <2>5a, <3>1, WalkedStays
    <3> QED
      BY <2>1, <2>2, <2>5, <2>7, <3>1 DEF ReaderOK
  <2> QED
    BY <2>6, <2>7
<1>5. reader' = [r \in Readers |-> reader'[r]]
    BY <1>2
<1> QED
    BY <1>1, <1>3, <1>4, <1>5 DEF PagesInv

LEMMA ExpiresOK ==
    ASSUME PagesInv, Expires
    PROVE  PagesInv'
<1>1. PICK p \in points : (\A o \in points : p[1] <= o[1]) /\ points' = {o \in points : o[1] # p[1]}
    BY DEF Expires
<1> DEFINE pts == {o \in points : o[1] # p[1]}
           m == p[1]
<1>2. now' = now /\ now \in Nat
  <2>1. now' = now
    BY DEF Expires
  <2>2. now \in Nat
    BY DeviceDataAssumption DEF PagesInv, Times
  <2> QED
    BY <2>1, <2>2
<1>3. reader' = [r \in Readers |-> IF Reading(r)
                                   THEN [reader[r] EXCEPT !.before = @ \cap pts, !.shrunk = TRUE]
                                   ELSE reader[r]]
    BY <1>1 DEF Expires
<1>4. /\ pts \subseteq points /\ pts \subseteq Times \X Attributes /\ \A o \in pts : o[1] <= now
      /\ m \in Times /\ \A o \in points : o[1] \in Times /\ m <= o[1]
      /\ \A o \in points : o[1] # m => o \in pts
      /\ \A o \in pts : o[1] # m
    BY <1>1 DEF PagesInv
<1>5. points' = pts
    BY <1>1
<1> HIDE DEF pts, m
<1>6. ASSUME NEW r \in Readers PROVE ReaderOK(reader'[r], pts, now)
  <2> DEFINE q == reader[r]
             before == q.before \cap pts
             v == [q EXCEPT !.before = before, !.shrunk = TRUE]
             T == TimesIn(points, q.kind, q.from, q.to)
             U == TimesIn(pts, q.kind, q.from, q.to)
  <2>1. ReaderOK(q, points, now) /\ q \in ReaderWith(q.got)
    BY DEF PagesInv, ReaderOK
  <2>2. reader'[r] = IF q.phase = "reading" THEN v ELSE q
    BY <1>3 DEF Reading
  <2> HIDE DEF q
  <2>3. before \in SUBSET (Times \X Attributes)
    BY <1>4
  <2> HIDE DEF before
  <2>4. /\ v.phase = q.phase /\ v.kind = q.kind /\ v.from = q.from /\ v.to = q.to /\ v.order = q.order
        /\ v.limit = q.limit /\ v.page = q.page /\ v.got = q.got /\ v.before = before
        /\ v.overtaken = q.overtaken /\ v.shrunk = TRUE
        /\ v \in ReaderWith(q.got) /\ q.limit \in Nat \ {0} /\ q.page \in Nat \ {0} /\ q.order \in Orders
    BY <2>1, <2>3 DEF ReaderWith
  <2> HIDE DEF v
  <2>5. CASE q.phase = "reading"
    <3>1. Walks(q, points, now)
      BY <2>1, <2>5 DEF ReaderOK
    <3>2. T \in SUBSET Nat /\ IsFiniteSet(T) /\ U \subseteq T
      BY <1>4, TimesInTimes, TimesAreFinite DEF TimesIn
    <3>3. \A s \in T : m <= s /\ (s # m => s \in U)
      <4>1. SUFFICES ASSUME NEW s \in T PROVE m <= s /\ (s # m => s \in U)
        OBVIOUS
      <4>2. PICK a \in Attributes : <<s, a>> \in points /\ q.kind \in {"device", a}
        BY DEF TimesIn
      <4>3. m <= s /\ (s # m => <<s, a>> \in pts)
        BY <1>4, <4>2
      <4> QED
        BY <4>2, <4>3 DEF TimesIn
    <3> HIDE DEF T, U
    <3>4. \A s : Ranked(q, pts, s) <= Ranked(q, points, s)
      BY <3>2, RankGrows DEF Ranked, T, U
    <3>5. v.order # "asc" => \A o \in DueTo(v) : Ranked(q, points, o[1]) <= Ranked(q, pts, o[1])
      <4>1. SUFFICES ASSUME v.order # "asc", NEW o \in DueTo(v)
                     PROVE  Ranked(q, points, o[1]) <= Ranked(q, pts, o[1])
        OBVIOUS
      <4>2. q.order = "desc" /\ o \in pts
        BY <2>4, <4>1 DEF Orders, DueTo, before
      <4>3. m \in Nat /\ o[1] \in Nat /\ m < o[1]
        BY <1>4, <4>2 DEF Times
      <4>4. Ahead(T, q.order, o[1]) \subseteq Ahead(U, q.order, o[1])
        <5>1. SUFFICES ASSUME NEW s \in T, InOrder(q.order, s, o[1])
                       PROVE  s \in U
          BY DEF Ahead
        <5>2. s > o[1] /\ s \in Nat
          BY <3>2, <4>2, <5>1 DEF InOrder
        <5>3. s # m
          BY <4>3, <5>2
        <5> QED
          BY <3>3, <5>3
      <4>5. Ahead(U, q.order, o[1]) \subseteq Ahead(T, q.order, o[1])
        BY <3>2 DEF Ahead
      <4>6. Ahead(U, q.order, o[1]) = Ahead(T, q.order, o[1])
        BY <4>4, <4>5
      <4>7. Ranked(q, pts, o[1]) = Ranked(q, points, o[1])
        BY <4>6 DEF Ranked, RankIn, T, U
      <4> QED
        BY <4>7, RankedIsNat
    <3>6. v.before \subseteq q.before \cap pts
      BY <2>4 DEF before
    <3>7. Walks(v, pts, now)
      BY <1>2, <2>4, <3>1, <3>4, <3>5, <3>6, WalkGoesOn
    <3> QED
      BY <2>2, <2>4, <2>5, <3>7 DEF ReaderOK
  <2>6. CASE q.phase # "reading"
    BY <2>1, <2>2, <2>6 DEF ReaderOK
  <2> QED
    BY <2>5, <2>6
<1>7. reader' = [r \in Readers |-> reader'[r]]
    BY <1>3
<1> QED
    BY <1>2, <1>4, <1>5, <1>6, <1>7 DEF PagesInv

LEMMA PagesInvNext ==
    ASSUME PagesInv, [DataNext]_queryVars
    PROVE  PagesInv'
<1>1. ASSUME NEW r \in Readers, NEW k \in {"device", AnAttribute}, NEW f \in {1, 2} \cap Times, NEW t \in {0, MaxTime},
             NEW o \in Orders, NEW l \in 0..MaxLimit, AsksData(r, k, f, t, o, l)
      PROVE  PagesInv'
  <2>1. AnAttribute \in Attributes
    BY DeviceDataAssumption DEF AnAttribute
  <2>2. k \in Kinds /\ f \in Nat /\ t \in Nat /\ l \in Nat
    BY <2>1, DeviceDataAssumption DEF Kinds
  <2> QED
    BY <1>1, <2>2, AsksDataOK
<1>2. ASSUME NEW r \in Readers, NEW as \in SUBSET Attributes, NEW d \in BOOLEAN, AsksGraphql(r, as, 1, 1, d)
      PROVE  PagesInv'
  <2>1. 1 \in Nat /\ 1 \in Nat \ {0}
    OBVIOUS
  <2> QED
    BY <1>2, <2>1, AsksGraphqlOK
<1>3. CASE PagesNext
  <2>1. CASE Observed /\ (Passes \/ Expires \/ \E t \in Times, a \in Attributes : Stores(t, a))
    BY <2>1, PassesOK, ExpiresOK, StoresOK
  <2>2. CASE \E r \in Readers : AnswersPage(r) \/ QueryFails(r)
    BY <2>2, AnswersPageOK, QueryFailsOK
  <2>3. CASE \E r \in Readers, k \in {"device", AnAttribute}, f \in {1, 2} \cap Times, t \in {0, MaxTime},
                o \in Orders, l \in 0..MaxLimit : AsksData(r, k, f, t, o, l)
    BY <1>1, <2>3
  <2>4. CASE \E r \in Readers, as \in SUBSET Attributes, d \in BOOLEAN : AsksGraphql(r, as, 1, 1, d)
    BY <1>2, <2>4
  <2> QED
    BY <1>3, <2>1, <2>2, <2>3, <2>4 DEF PagesNext
<1>4. ASSUME UNCHANGED <<now, points, reader>> PROVE PagesInv'
  <2>1. now' = now /\ points' = points /\ reader' = reader
    BY <1>4
  <2> QED
    BY <2>1 DEF PagesInv
<1>5. CASE FlexNext
  <2>1. UNCHANGED <<now, points, reader>>
    BY <1>5 DEF FlexNext, FlexLooks, FlexAuthorizes, FlexRuns
  <2> QED
    BY <1>4, <2>1
<1>6. CASE UNCHANGED queryVars
  BY <1>4, <1>6 DEF queryVars
<1> QED
  BY <1>3, <1>5, <1>6 DEF DataNext

LEMMA PagesInvCovers == PagesInv => PagesCoverTheRange
<1> SUFFICES ASSUME PagesInv, NEW r \in Readers, reader[r].phase = "read", reader[r].kind # "graphql"
             PROVE  LET q == reader[r]
                    IN  /\ \/ q.shrunk /\ q.order = "asc"
                           \/ \A p \in Due(q) : \E i \in DOMAIN q.got : q.got[i].ts = p[1] /\ p[2] \in q.got[i].attrs
                        /\ \/ q.overtaken
                           \/ \A i, j \in DOMAIN q.got : q.got[i].ts = q.got[j].ts => i = j
    BY DEF PagesCoverTheRange
<1> DEFINE q == reader[r]
<1>1. HasWalked(q)
    BY DEF PagesInv, ReaderOK
<1> HIDE DEF q
<1>2. DOMAIN q.got = 1..Len(q.got)
    BY <1>1, LenProperties DEF HasWalked
<1>3. Due(q) = DueTo(q)
    BY <1>1 DEF Due, DueTo, EndOf, HasWalked
<1>4. /\ \/ q.shrunk /\ q.order = "asc"
         \/ \A p \in Due(q) : \E i \in DOMAIN q.got : q.got[i].ts = p[1] /\ p[2] \in q.got[i].attrs
      /\ \/ q.overtaken
         \/ \A i, j \in DOMAIN q.got : q.got[i].ts = q.got[j].ts => i = j
    BY <1>1, <1>2, <1>3 DEF HasWalked, ShownIn, NoneTwice
<1> QED
    BY <1>4 DEF q

\* Whatever the attributes, the readers, their limits and the order in which points arrive and expire:
\* a walk along the links to the next pages has shown every point of its range that was stored when it
\* began and has not expired, except an ascending one over expired points; and no row twice, unless a
\* point arrived late or in the future part of a descending range.
THEOREM PagesCover == DataSpec => []PagesCoverTheRange
<1>1. DataInit => PagesInv
    BY PagesInvInit
<1>2. PagesInv /\ [DataNext]_queryVars => PagesInv'
    BY PagesInvNext
<1>3. PagesInv => PagesCoverTheRange
    BY PagesInvCovers
<1> QED
    BY <1>1, <1>2, <1>3, PTL DEF DataSpec

-----------------------------------------------------------------------------
(* retriever: what a selection by GraphQL joins *)

\* A set of times has a least.
LEMMA LeastOf ==
    ASSUME NEW T \in SUBSET Nat, IsFiniteSet(T), T # {}
    PROVE  \E t \in T : \A s \in T : t <= s
<1>1. Cardinality(T) \in Nat /\ Cardinality(T) # 0
    BY FS_CardinalityType, FS_EmptySet
<1>2. 0 \in 0..(Cardinality(T) - 1)
    BY <1>1
<1>3. PICK t \in T : RankIn(T, "asc", t) = 0
    BY <1>2, RankIsTaken
<1>4. Ahead(T, "asc", t) = {}
    BY <1>3, RankIsNat, FS_EmptySet DEF RankIn
<1> QED
    BY <1>4 DEF Ahead, InOrder

LEMMA LessThanFinite ==
    ASSUME NEW n \in Nat, NEW W \in SUBSET (0..n)
    PROVE  IsFiniteSet(W) /\ W \in SUBSET Nat
<1>1. IsFiniteSet(0..n)
    BY FS_Interval
<1>2. IsFiniteSet(W)
    BY <1>1, FS_Subset
<1>3. W \in SUBSET Nat
    OBVIOUS
<1> QED
    BY <1>2, <1>3

\* What queryUsingGraphql joins of every set of attributes: f is the join of the tables of T.
First(s) == CHOOSE a \in s : TRUE
JoinUpTo(T, S, n, f) ==
    f = [s \in {u \in SUBSET S : Cardinality(u) <= n} |->
            IF s = {} THEN << >> ELSE f[s \ {First(s)}] \o T[First(s)]]
Joins(T, S, f) == f = [s \in SUBSET S |-> IF s = {} THEN << >> ELSE f[s \ {First(s)}] \o T[First(s)]]

LEMMA LessOne ==
    ASSUME NEW S, IsFiniteSet(S), NEW s \in SUBSET S, s # {}
    PROVE  /\ First(s) \in S /\ s \ {First(s)} \in SUBSET S
           /\ Cardinality(s) \in Nat /\ Cardinality(s \ {First(s)}) = Cardinality(s) - 1
<1>1. First(s) \in s
    BY DEF First
<1>2. IsFiniteSet(s)
    BY FS_Subset
<1> QED
    BY <1>1, <1>2, FS_CardinalityType, FS_RemoveElement

LEMMA JoinGrows ==
    ASSUME NEW T, NEW S, IsFiniteSet(S), NEW n \in Nat, NEW f, JoinUpTo(T, S, n, f)
    PROVE  \E g : JoinUpTo(T, S, n + 1, g)
<1> DEFINE Small(k) == {u \in SUBSET S : Cardinality(u) <= k}
           next(h, s) == IF s = {} THEN << >> ELSE h[s \ {First(s)}] \o T[First(s)]
           g == [s \in Small(n + 1) |-> next(f, s)]
<1>1. ASSUME NEW s \in Small(n + 1)
      PROVE  next(f, s) = next(g, s)
    <2>1. CASE s = {}
        BY <2>1
    <2>2. CASE s # {}
        <3> DEFINE t == s \ {First(s)}
        <3>1. t \in Small(n) /\ t \in Small(n + 1)
            BY <2>2, LessOne
        <3>2. f[t] = next(f, t)
            BY <3>1 DEF JoinUpTo
        <3>3. g[t] = next(f, t)
            BY <3>1
        <3> QED
            BY <2>2, <3>2, <3>3
    <2> QED
        BY <2>1, <2>2
<1>2. g = [s \in Small(n + 1) |-> next(g, s)]
    <2> DEFINE k == [s \in Small(n + 1) |-> next(g, s)]
    <2>1. \A s \in Small(n + 1) : g[s] = k[s]
        BY <1>1
    <2> QED
        BY <2>1
<1> QED
    BY <1>2 DEF JoinUpTo

LEMMA JoinExists ==
    ASSUME NEW T, NEW S, IsFiniteSet(S)
    PROVE  \E f : Joins(T, S, f)
<1> DEFINE N == Cardinality(S)
           Wrong == {n \in 0..N : ~ \E f : JoinUpTo(T, S, n, f)}
<1>1. N \in Nat
    BY FS_CardinalityType
<1>2. \E f : JoinUpTo(T, S, 0, f)
    <2> DEFINE f == [s \in {u \in SUBSET S : Cardinality(u) <= 0} |-> << >>]
    <2>1. ASSUME NEW s \in SUBSET S, Cardinality(s) <= 0
          PROVE  s = {}
        BY <2>1, LessOne, FS_Subset, FS_CardinalityType, FS_EmptySet
    <2>2. JoinUpTo(T, S, 0, f)
        BY <2>1 DEF JoinUpTo
    <2> QED
        BY <2>2
<1>3. Wrong = {}
    <2>1. SUFFICES ASSUME Wrong # {} PROVE FALSE
        OBVIOUS
    <2>2. IsFiniteSet(Wrong) /\ Wrong \in SUBSET Nat
        BY <1>1, LessThanFinite
    <2>3. PICK n \in Wrong : \A k \in Wrong : n <= k
        BY <2>1, <2>2, LeastOf
    <2>4. n # 0 /\ n - 1 \in 0..N /\ n - 1 \notin Wrong
        BY <1>1, <1>2, <2>3
    <2>5. PICK f : JoinUpTo(T, S, n - 1, f)
        BY <2>4
    <2>6. n - 1 \in Nat /\ (n - 1) + 1 = n
        BY <1>1, <2>4
    <2>7. \E g : JoinUpTo(T, S, (n - 1) + 1, g)
        BY <2>5, <2>6, JoinGrows
    <2> QED
        BY <2>6, <2>7
<1>4. PICK f : JoinUpTo(T, S, N, f)
    BY <1>1, <1>3
<1>5. {u \in SUBSET S : Cardinality(u) <= N} = SUBSET S
    BY FS_Subset
<1> QED
    BY <1>4, <1>5 DEF JoinUpTo, Joins

LEMMA JoinsRows ==
    ASSUME NEW T, NEW S, IsFiniteSet(S), T \in [S -> Seq(Row)], NEW f, Joins(T, S, f)
    PROVE  f[S] \in Seq(Row)
<1> DEFINE Wrong == {n \in 0..Cardinality(S) : \E s \in SUBSET S : Cardinality(s) = n /\ f[s] \notin Seq(Row)}
<1>1. Cardinality(S) \in Nat
    BY FS_CardinalityType
<1>2. Wrong = {}
    <2>1. SUFFICES ASSUME Wrong # {} PROVE FALSE
        OBVIOUS
    <2>2. IsFiniteSet(Wrong) /\ Wrong \in SUBSET Nat
        BY <1>1, LessThanFinite
    <2>3. PICK n \in Wrong : \A k \in Wrong : n <= k
        BY <2>1, <2>2, LeastOf
    <2>4. PICK s \in SUBSET S : Cardinality(s) = n /\ f[s] \notin Seq(Row)
        BY <2>3
    <2>5. s # {}
        BY <2>4 DEF Joins
    <2>6. f[s] = f[s \ {First(s)}] \o T[First(s)]
        BY <2>5 DEF Joins
    <2>7. Cardinality(s \ {First(s)}) = n - 1 /\ n - 1 \in 0..Cardinality(S) /\ n - 1 < n
        <3>1. Cardinality(s) \in Nat /\ Cardinality(s \ {First(s)}) = n - 1
            BY <2>4, <2>5, LessOne
        <3>2. Cardinality(s \ {First(s)}) \in Nat
            BY FS_Subset, FS_CardinalityType
        <3> QED
            BY <1>1, <2>3, <3>1, <3>2
    <2>8. f[s \ {First(s)}] \in Seq(Row)
        BY <2>3, <2>7
    <2>9. T[First(s)] \in Seq(Row)
        BY <2>5, LessOne
    <2>10. \A x, y \in Seq(Row) : x \o y \in Seq(Row)
        BY ConcatProperties
    <2> QED
        BY <2>4, <2>6, <2>8, <2>9, <2>10
<1> QED
    BY <1>1, <1>2

LEMMA GraphqlRows ==
    ASSUME NEW attributes, NEW q, NEW to, IsFiniteSet(Selected(attributes)),
           \A a \in Selected(attributes) : ByField(a, q, to) \in Seq(Row)
    PROVE  ByGraphql(attributes, q, to) \in Seq(Row)
<1> DEFINE S == Selected(attributes)
           T == [a \in S |-> ByField(a, q, to)]
           Folded(f) == f = [s \in SUBSET S |-> IF s = {} THEN << >> ELSE f[s \ {First(s)}] \o ByField(First(s), q, to)]
<1>1. ByGraphql(attributes, q, to) = (CHOOSE f : Folded(f))[S]
    BY DEF ByGraphql, FoldSet, MapThenFoldSet, First
<1>2. \A f : Folded(f) <=> Joins(T, S, f)
    <2> SUFFICES ASSUME NEW f PROVE Folded(f) <=> Joins(T, S, f)
        OBVIOUS
    <2> DEFINE left(s) == IF s = {} THEN << >> ELSE f[s \ {First(s)}] \o ByField(First(s), q, to)
               right(s) == IF s = {} THEN << >> ELSE f[s \ {First(s)}] \o T[First(s)]
    <2>1. \A s \in SUBSET S : left(s) = right(s)
        BY LessOne
    <2>2. [s \in SUBSET S |-> left(s)] = [s \in SUBSET S |-> right(s)]
        BY <2>1
    <2> QED
        BY <2>2 DEF Joins
<1> HIDE DEF Folded
<1>3. \E f : Folded(f)
    BY <1>2, JoinExists
<1>4. Folded(CHOOSE f : Folded(f))
    BY <1>3
<1>5. T \in [S -> Seq(Row)]
    OBVIOUS
<1> HIDE DEF T, S
<1>6. (CHOOSE f : Folded(f))[S] \in Seq(Row)
    BY <1>2, <1>4, <1>5, JoinsRows DEF S
<1> QED
    BY <1>1, <1>6

-----------------------------------------------------------------------------
(* retriever: types *)

\* Flexible queries that found no authorization and are about to create one.
Posting == {q \in FlexQueries : flex[q] = "post"}

ReaderTyped(q) ==
    /\ q.from \in Times /\ q.to \in {0} \cup Times /\ q.limit \in 1..MaxLimit
    /\ q.page \in 1..(MaxTime + 1) /\ q.got \in Seq(Row)

\* Each authorization was created by a query that found none.
FlexTyped ==
    /\ flex \in [FlexQueries -> {"idle", "post", "run"}] /\ authorizations \in Nat
    /\ Cardinality(Posting) + authorizations <= Cardinality(FlexQueries)

DataRest ==
    /\ \A r \in Readers : ReaderTyped(reader[r])
    /\ FlexTyped
    /\ late \in 0..MaxLate /\ retired \in 0..MaxLate

LEMMA NoReadingTyped == ReaderTyped(NoReading)
BY DeviceDataAssumption, EmptySeq DEF ReaderTyped, NoReading, Times

LEMMA PostingFinite ==
    IsFiniteSet(Posting) /\ Cardinality(Posting) \in Nat /\ Cardinality(Posting) <= Cardinality(FlexQueries)
<1>1. Posting \in SUBSET FlexQueries /\ IsFiniteSet(FlexQueries)
    BY DeviceDataAssumption DEF Posting
<1> QED
    BY <1>1, FS_Subset, FS_CardinalityType

LEMMA DataRestInit == DataInit => DataRest
<1> SUFFICES ASSUME DataInit
             PROVE  DataRest
    OBVIOUS
<1>1. \A r \in Readers : ReaderTyped(reader[r])
    BY NoReadingTyped DEF DataInit
<1>2. Posting = {} /\ flex \in [FlexQueries -> {"idle", "post", "run"}] /\ authorizations = 0
    BY DEF DataInit, Posting
<1>3. FlexTyped
    BY <1>2, PostingFinite, FS_EmptySet, FS_CardinalityType, DeviceDataAssumption DEF FlexTyped
<1>4. late \in 0..MaxLate /\ retired \in 0..MaxLate
    BY DeviceDataAssumption DEF DataInit
<1> QED
    BY <1>1, <1>3, <1>4 DEF DataRest

\* The first query of two that find no authorization creates one, and so may the second.
LEMMA FlexStep == FlexTyped /\ [FlexNext]_<<flex, authorizations>> => FlexTyped'
<1> SUFFICES ASSUME FlexTyped, [FlexNext]_<<flex, authorizations>>
             PROVE  FlexTyped'
    OBVIOUS
<1> USE DEF FlexTyped
<1>f. IsFiniteSet(FlexQueries) /\ Cardinality(FlexQueries) \in Nat
    BY DeviceDataAssumption, FS_CardinalityType
<1>0. ASSUME flex' \in [FlexQueries -> {"idle", "post", "run"}]
      PROVE  Cardinality(Posting') \in Nat /\ Cardinality(Posting') <= Cardinality(FlexQueries)
    <2>1. Posting' \in SUBSET FlexQueries
        BY DEF Posting
    <2> QED
        BY <1>f, <2>1, FS_Subset, FS_CardinalityType
<1>1. ASSUME NEW q \in FlexQueries, FlexLooks(q)
      PROVE  FlexTyped'
    <2>1. /\ flex' = [flex EXCEPT ![q] = IF authorizations > 0 THEN "run" ELSE "post"]
          /\ authorizations' = authorizations
        BY <1>1 DEF FlexLooks
    <2>2. flex' \in [FlexQueries -> {"idle", "post", "run"}]
        BY <2>1
    <2>3. CASE authorizations > 0
        <3>1. Posting' = Posting
            BY <1>1, <2>1, <2>3 DEF Posting, FlexLooks
        <3> QED
            BY <2>1, <2>2, <3>1
    <2>4. CASE authorizations = 0
        BY <1>0, <2>1, <2>2, <2>4
    <2> QED
        BY <2>3, <2>4
<1>2. ASSUME NEW q \in FlexQueries, FlexAuthorizes(q)
      PROVE  FlexTyped'
    <2>1. flex[q] = "post" /\ flex' = [flex EXCEPT ![q] = "run"] /\ authorizations' = authorizations + 1
        BY <1>2 DEF FlexAuthorizes
    <2>2. q \in Posting /\ Posting' = Posting \ {q}
        BY <2>1 DEF Posting
    <2>3. Cardinality(Posting') = Cardinality(Posting) - 1 /\ Cardinality(Posting) \in Nat
        BY <2>2, PostingFinite, FS_RemoveElement
    <2> QED
        BY <1>f, <2>1, <2>3
<1>3. ASSUME NEW q \in FlexQueries, FlexRuns(q)
      PROVE  FlexTyped'
    <2>1. flex[q] = "run" /\ flex' = [flex EXCEPT ![q] = "idle"] /\ authorizations' = authorizations
        BY <1>3 DEF FlexRuns
    <2>2. Posting' = Posting
        BY <2>1 DEF Posting
    <2> QED
        BY <2>1, <2>2
<1>4. CASE UNCHANGED <<flex, authorizations>>
    BY <1>4 DEF Posting
<1> QED
    BY <1>1, <1>2, <1>3, <1>4 DEF FlexNext

LEMMA ClockIsFinite == MaxTime \in Nat /\ IsFiniteSet(Times) /\ Cardinality(Times) = MaxTime
<1>1. MaxTime \in Nat /\ MaxTime > 0
    BY DeviceDataAssumption
<1>2. IsFiniteSet(1..MaxTime) /\ Cardinality(1..MaxTime) = MaxTime
    BY <1>1, FS_Interval
<1> QED
    BY <1>1, <1>2 DEF Times

\* A full page ends at one of the times of the range, and there are no more than the clock has had.
LEMMA FullPageIsEarly ==
    ASSUME PagesInv, NEW r \in Readers, Reading(r), HasNext(RowsOf(reader[r]), reader[r].limit),
           reader[r].limit \in Nat \ {0}, reader[r].page \in Nat \ {0}
    PROVE  reader[r].page <= MaxTime
<1> DEFINE q == reader[r]
           T == TimesIn(points, q.kind, q.from, q.to)
           rows == RowsOf(q)
           n == Len(rows)
           offset == Offset(q.page, q.limit)
<1>1. /\ q \in ReaderWith(q.got) /\ q.kind # "graphql" /\ q.to # 0
      /\ points \subseteq Times \X Attributes
    BY DEF PagesInv, ReaderOK, Walks, Reading
<1>2. q.kind \in {"device"} \cup Attributes
    BY <1>1 DEF ReaderWith, Kinds
<1>3. offset \in Nat
    BY OffsetGrows
<1>4. Lists(rows, T, q.order, q.limit, offset)
    BY <1>1, <1>2, <1>3, RowsOfPage
<1>5. n \in Nat /\ n = q.limit
    BY <1>4, LenProperties DEF Lists, HasNext
<1>6. T \in SUBSET Times
    BY TimesInTimes
<1>7. Cardinality(T) <= MaxTime /\ T \in SUBSET Nat /\ IsFiniteSet(T) /\ Cardinality(T) \in Nat
    <2> HIDE DEF T
    <2> QED
        BY <1>6, ClockIsFinite, TimesAreFinite, FS_Subset
<1>8. rows[n].ts \in T /\ RankIn(T, q.order, rows[n].ts) = offset + n - 1
    BY <1>4, <1>5 DEF Lists
<1> HIDE DEF T, rows, n, q, offset
<1>9. offset + n - 1 <= Cardinality(T) - 1
    <2> DEFINE t == rows[n].ts
    <2>1. t \in T /\ RankIn(T, q.order, t) = offset + n - 1
        BY <1>8
    <2> HIDE DEF t
    <2>2. RankIn(T, q.order, t) \in 0..(Cardinality(T) - 1)
        BY <1>7, <2>1, RankBounded
    <2> QED
        BY <1>3, <1>5, <1>7, <2>1, <2>2
<1>10. q.page - 1 <= offset
    <2>1. \A k \in Nat, l \in Nat \ {0} : k <= k * l
        OBVIOUS
    <2>2. q.page - 1 \in Nat
        BY DEF q
    <2> QED
        BY <2>1, <2>2 DEF Offset, offset, q
<1>11. q.page \in Nat /\ n \in Nat \ {0} /\ MaxTime \in Nat
    BY <1>5, DeviceDataAssumption DEF q
<1>12. q.page <= MaxTime
    BY <1>3, <1>7, <1>9, <1>10, <1>11
<1> QED
    BY <1>12 DEF q

\* The request of a client, the next page, and a selection by GraphQL.
LEMMA AsksDataTyped ==
    ASSUME PagesInv, NEW r \in Readers, NEW kind, NEW from \in Times, NEW to \in {0, MaxTime},
           NEW order, NEW limit \in 0..MaxLimit, AsksData(r, kind, from, to, order, limit)
    PROVE  \E q : ReaderTyped(q) /\ reader' = [reader EXCEPT ![r] = q]
<1> DEFINE q == [NoReading EXCEPT !.phase = "reading", !.kind = kind, !.from = from, !.to = CheckDateTo(to),
                      !.order = order, !.limit = PageLimit(limit), !.before = points]
<1>1. q.from = from /\ q.to = CheckDateTo(to) /\ q.limit = PageLimit(limit) /\ q.page = 1 /\ q.got = << >>
    BY DEF NoReading
<1>2. reader' = [reader EXCEPT ![r] = q]
    BY DEF AsksData
<1> HIDE DEF q
<1>3. CheckDateTo(to) \in {0} \cup Times /\ PageLimit(limit) \in 1..MaxLimit
    BY DeviceDataAssumption DEF CheckDateTo, PageLimit, PagesInv, Times
<1>4. ReaderTyped(q)
    BY <1>1, <1>3, ClockIsFinite, EmptySeq DEF ReaderTyped
<1> QED
    BY <1>2, <1>4

LEMMA AnswersPageTyped ==
    ASSUME PagesInv, NEW r \in Readers, ReaderTyped(reader[r]), AnswersPage(r)
    PROVE  \E q : ReaderTyped(q) /\ reader' = [reader EXCEPT ![r] = q]
<1> DEFINE q == reader[r]
           rows == RowsOf(q)
           g == q.got \o rows
           full == HasNext(rows, q.limit)
           phase == IF full THEN "reading" ELSE "read"
           page == IF full THEN q.page + 1 ELSE q.page
           v == [q EXCEPT !.got = g, !.phase = phase, !.page = page]
<1>1. q \in ReaderWith(q.got) /\ q.phase = "reading" /\ Walks(q, points, now)
    BY DEF PagesInv, ReaderOK, AnswersPage, Reading
<1>2. q.page \in Nat \ {0} /\ q.limit \in Nat \ {0}
    BY <1>1 DEF ReaderWith
<1>3. g \in Seq(Row)
    BY <1>1, PageAdds
<1>4. full => q.page <= MaxTime
    BY <1>2, FullPageIsEarly DEF AnswersPage
<1>5. page \in 1..(MaxTime + 1)
    <2> HIDE DEF full, rows
    <2> QED
        BY <1>2, <1>4, ClockIsFinite DEF ReaderTyped
<1>6. reader' = [reader EXCEPT ![r] = v]
    <2>1. reader' = [reader EXCEPT ![r].got = @ \o rows,
                                   ![r].phase = IF full THEN "reading" ELSE "read",
                                   ![r].page = IF full THEN @ + 1 ELSE @]
        BY DEF AnswersPage
    <2> HIDE DEF rows, full
    <2> QED
        BY <1>1, <2>1 DEF PagesInv, AnswersPage
<1>7. v.from = q.from /\ v.to = q.to /\ v.limit = q.limit /\ v.page = page /\ v.got = g
    <2> HIDE DEF g, phase, page, q
    <2> QED
        BY <1>1 DEF ReaderWith
<1> HIDE DEF v, g, page
<1>8. ReaderTyped(v)
    BY <1>3, <1>5, <1>7 DEF ReaderTyped
<1> QED
    BY <1>6, <1>8

LEMMA FieldRows ==
    ASSUME PagesInv, NEW a \in Attributes, NEW q, q.limit = 1, q.page = 1, NEW to
    PROVE  ByField(a, q, to) \in Seq(Row)
<1> DEFINE T == {p[1] : p \in {o \in points : o[2] = a /\ InRange(o[1], q.from, to)}}
           at == [t \in Times |-> {a}]
           sorted == Sorted(T, q.order)
           offset == Offset(q.page, q.limit)
<1>1. T \in SUBSET Times
    BY DEF PagesInv
<1>2. offset \in Nat
    BY OffsetGrows
<1>3. sorted \in [1..Cardinality(T) -> T] /\ Cardinality(T) \in Nat
    <2> HIDE DEF T
    <2> QED
        BY <1>1, TimesAreFinite, SortedByRank
<1>4. Len(sorted) = Cardinality(T) /\ \A i \in 1..Len(sorted) : sorted[i] \in Times
    <2> HIDE DEF T
    <2> QED
        BY <1>1, <1>3
<1>5. Table(T, q.order, at) = [i \in 1..Len(sorted) |-> [ts |-> sorted[i], attrs |-> {a}]]
    <2> HIDE DEF T
    <2> QED
        BY <1>4 DEF Table
<1>6. ByField(a, q, to) = Limited(Table(T, q.order, at), q.limit, offset)
    BY <1>5 DEF ByField
<1>7. at \in [Times -> SUBSET Attributes]
    OBVIOUS
<1> HIDE DEF T, at, offset
<1>8. Lists(Limited(Table(T, q.order, at), 1, offset), T, q.order, 1, offset)
    BY <1>1, <1>2, <1>7, PageLists
<1> QED
    BY <1>6, <1>8 DEF Lists

LEMMA AsksGraphqlTyped ==
    ASSUME PagesInv, NEW r \in Readers, NEW as \in SUBSET Attributes, NEW isDesc \in BOOLEAN,
           AsksGraphql(r, as, 1, 1, isDesc)
    PROVE  \E q : ReaderTyped(q) /\ reader' = [reader EXCEPT ![r] = q]
<1> DEFINE order == IF isDesc THEN "desc" ELSE "asc"
           q == [NoReading EXCEPT !.phase = "read", !.kind = "graphql", !.from = 1, !.limit = 1,
                             !.order = order, !.before = points]
           rows == ByGraphql(as, q, now)
           v == [q EXCEPT !.got = rows]
<1>1. reader' = [reader EXCEPT ![r] = v]
    BY DEF AsksGraphql
<1>2. q.from = 1 /\ q.limit = 1 /\ q.page = 1 /\ q.to = 0
    BY DEF NoReading
<1>3. v.from = 1 /\ v.limit = 1 /\ v.page = 1 /\ v.to = 0 /\ v.got = rows
    <2> HIDE DEF rows
    <2> QED
        BY DEF NoReading
<1> HIDE DEF q, v
<1>4. Selected(as) \subseteq Attributes /\ IsFiniteSet(Selected(as))
    BY DeviceDataAssumption, FS_Subset DEF Selected
<1>5. \A a \in Attributes : ByField(a, q, now) \in Seq(Row)
    BY <1>2, FieldRows
<1>6. rows \in Seq(Row)
    BY <1>4, <1>5, GraphqlRows
<1>7. 1 \in Times /\ 1 \in 1..MaxLimit /\ 1 \in 1..(MaxTime + 1)
    BY DeviceDataAssumption DEF Times
<1>8. ReaderTyped(v)
    BY <1>3, <1>6, <1>7 DEF ReaderTyped
<1> QED
    BY <1>1, <1>8

LEMMA OneReaderTyped ==
    ASSUME PagesInv, DataRest, NEW r \in Readers, NEW q, ReaderTyped(q), reader' = [reader EXCEPT ![r] = q]
    PROVE  \A x \in Readers : ReaderTyped(reader'[x])
<1>1. reader' = [x \in Readers |-> IF x = r THEN q ELSE reader[x]]
    BY DEF PagesInv
<1>2. \A x \in Readers : reader'[x] = q \/ reader'[x] = reader[x]
    BY <1>1
<1> QED
    BY <1>2 DEF DataRest

\* What a point that arrives or expires leaves of a reader.
LEMMA SameWalk ==
    ASSUME PagesInv, DataRest, NEW r \in Readers,
           NEW v, v.from = reader[r].from, v.to = reader[r].to, v.limit = reader[r].limit,
           v.page = reader[r].page, v.got = reader[r].got
    PROVE  ReaderTyped(v)
BY DEF DataRest, ReaderTyped

LEMMA StoresTyped ==
    ASSUME PagesInv, DataRest, NEW t \in Times, NEW a \in Attributes, Stores(t, a)
    PROVE  DataRest'
<1>1. ASSUME NEW r \in Readers
      PROVE  ReaderTyped(reader'[r])
    <2> DEFINE q == reader[r]
               v == [q EXCEPT !.overtaken = @ \/ Overtakes(t, r)]
    <2>1. reader'[r] = v
        BY DEF Stores
    <2>2. q \in ReaderWith(q.got)
        BY DEF PagesInv, ReaderOK
    <2> DEFINE o == Overtakes(t, r)
    <2> HIDE DEF q, o
    <2>3. v.from = q.from /\ v.to = q.to /\ v.limit = q.limit /\ v.page = q.page /\ v.got = q.got
        BY <2>2 DEF ReaderWith
    <2> HIDE DEF v
    <2> QED
        BY <2>1, <2>3, SameWalk DEF q
<1>2. UNCHANGED <<flex, authorizations, retired>> /\ (t < now => late < MaxLate)
      /\ late' = IF t < now THEN late + 1 ELSE late
    BY DEF Stores
<1>3. late' \in 0..MaxLate /\ retired' \in 0..MaxLate
    BY <1>2, DeviceDataAssumption DEF DataRest
<1>4. FlexTyped'
    BY <1>2 DEF FlexTyped, DataRest, Posting
<1> QED
    BY <1>1, <1>3, <1>4 DEF DataRest

LEMMA ExpiresTyped ==
    ASSUME PagesInv, DataRest, Expires
    PROVE  DataRest'
<1>1. ASSUME NEW r \in Readers
      PROVE  ReaderTyped(reader'[r])
    <2> DEFINE q == reader[r]
               v == [q EXCEPT !.before = @ \cap points', !.shrunk = TRUE]
    <2>1. reader'[r] = v \/ reader'[r] = q
        BY DEF Expires
    <2>2. q \in ReaderWith(q.got)
        BY DEF PagesInv, ReaderOK
    <2> HIDE DEF q
    <2>3. v.from = q.from /\ v.to = q.to /\ v.limit = q.limit /\ v.page = q.page /\ v.got = q.got
        BY <2>2 DEF ReaderWith
    <2> HIDE DEF v
    <2> QED
        BY <2>1, <2>3, SameWalk DEF q
<1>2. UNCHANGED <<flex, authorizations, late>> /\ retired < MaxLate /\ retired' = retired + 1
    BY DEF Expires
<1>3. late' \in 0..MaxLate /\ retired' \in 0..MaxLate
    BY <1>2, DeviceDataAssumption DEF DataRest
<1>4. FlexTyped'
    BY <1>2 DEF FlexTyped, DataRest, Posting
<1> QED
    BY <1>1, <1>3, <1>4 DEF DataRest

LEMMA DataRestStep == PagesInv /\ DataRest /\ [DataNext]_queryVars => DataRest'
<1> SUFFICES ASSUME PagesInv, DataRest, [DataNext]_queryVars
             PROVE  DataRest'
    OBVIOUS
<1>1. ASSUME UNCHANGED <<flex, authorizations, late, retired>>, \A r \in Readers : ReaderTyped(reader'[r])
      PROVE  DataRest'
    BY <1>1 DEF DataRest, FlexTyped, Posting
<1>2. CASE Passes
    BY <1>1, <1>2 DEF Passes, DataRest
<1>3. ASSUME NEW r \in Readers, AnswersPage(r) \/ QueryFails(r)
      PROVE  DataRest'
    <2>1. \E q : ReaderTyped(q) /\ reader' = [reader EXCEPT ![r] = q]
        BY <1>3, AnswersPageTyped, NoReadingTyped DEF QueryFails, DataRest
    <2>2. UNCHANGED <<flex, authorizations, late, retired>>
        BY <1>3 DEF AnswersPage, QueryFails
    <2> QED
        BY <1>1, <2>1, <2>2, OneReaderTyped
<1>4. ASSUME NEW r \in Readers, NEW k \in {"device", AnAttribute}, NEW f \in {1, 2} \cap Times,
             NEW t \in {0, MaxTime}, NEW o \in Orders, NEW l \in 0..MaxLimit, AsksData(r, k, f, t, o, l)
      PROVE  DataRest'
    <2>1. \E q : ReaderTyped(q) /\ reader' = [reader EXCEPT ![r] = q]
        BY <1>4, AsksDataTyped
    <2>2. UNCHANGED <<flex, authorizations, late, retired>>
        BY <1>4 DEF AsksData
    <2> QED
        BY <1>1, <2>1, <2>2, OneReaderTyped
<1>5. ASSUME NEW r \in Readers, NEW as \in SUBSET Attributes, NEW d \in BOOLEAN, AsksGraphql(r, as, 1, 1, d)
      PROVE  DataRest'
    <2>1. \E q : ReaderTyped(q) /\ reader' = [reader EXCEPT ![r] = q]
        BY <1>5, AsksGraphqlTyped
    <2>2. UNCHANGED <<flex, authorizations, late, retired>>
        BY <1>5 DEF AsksGraphql
    <2> QED
        BY <1>1, <2>1, <2>2, OneReaderTyped
<1>6. CASE FlexNext
    <2>1. UNCHANGED <<reader, late, retired>>
        BY <1>6 DEF FlexNext, FlexLooks, FlexAuthorizes, FlexRuns
    <2>2. FlexTyped'
        BY <1>6, FlexStep DEF DataRest
    <2> QED
        BY <2>1, <2>2 DEF DataRest
<1>7. CASE UNCHANGED queryVars
    BY <1>1, <1>7 DEF queryVars, DataRest
<1>8. CASE PagesNext
    BY <1>2, <1>3, <1>4, <1>5, <1>8, StoresTyped, ExpiresTyped DEF PagesNext
<1> QED
    BY <1>6, <1>7, <1>8 DEF DataNext

LEMMA DataTypeFromInv == PagesInv /\ DataRest => DataTypeOK
<1> SUFFICES ASSUME PagesInv, DataRest
             PROVE  DataTypeOK
    OBVIOUS
<1>1. ASSUME NEW r \in Readers
      PROVE  /\ reader[r].phase \in {"idle", "reading", "read"}
             /\ reader[r].kind \in Kinds /\ reader[r].order \in Orders
             /\ reader[r].from \in Times /\ reader[r].to \in {0} \cup Times /\ reader[r].limit \in 1..MaxLimit
             /\ reader[r].page \in 1..(MaxTime + 1)
             /\ reader[r].got \in Seq([ts : Times, attrs : SUBSET Attributes])
    <2>1. reader[r] \in ReaderWith(reader[r].got) /\ ReaderTyped(reader[r])
        BY DEF PagesInv, ReaderOK, DataRest
    <2> QED
        BY <2>1 DEF ReaderWith, ReaderTyped, Row
<1>2. now \in Times /\ points \subseteq Times \X Attributes
    BY DEF PagesInv
<1>3. authorizations \in 0..Cardinality(FlexQueries) /\ flex \in [FlexQueries -> {"idle", "post", "run"}]
    BY PostingFinite, FS_CardinalityType, DeviceDataAssumption DEF DataRest, FlexTyped
<1> QED
    BY <1>1, <1>2, <1>3 DEF DataRest, DataTypeOK

\* No page after the last is ever asked for, what a client reads are rows of the device, selections by
\* GraphQL included, and there is at most one authorization for every flexible query that ran before
\* there was any (DeviceDataRepository.js, CustomPaginator).
THEOREM DataTypeCorrect == DataSpec => []DataTypeOK
BY PagesInvInit, PagesInvNext, DataRestInit, DataRestStep, DataTypeFromInv, PTL DEF DataSpec

=============================================================================
