---------------------------- MODULE DeviceBatch ----------------------------
(***************************************************************************)
(* device/device-manager-batch: devices created and removed in batches,    *)
(* templates removed in batches, on the database of a tenant whose foreign *)
(* keys are NoAction, and the event each change publishes.  The elements   *)
(* of a removal run in parallel (Promise.all); a creation loops over its   *)
(* labels and does not wait for the associations it starts.                *)
(***************************************************************************)
EXTENDS Naturals, Sequences

CONSTANTS
    BatchDevices,   \* identifiers getRandomicHexIdDevices draws
    NoBatchDevice,
    Labels,         \* start_sufix, start_sufix + 1, ...: a set 1..n
    Templates,
    Creations,      \* requests that create
    Removals,       \* elements of the removals of devices
    MaxMade,        \* devices created
    MaxSends        \* events Kafka may refuse

ASSUME DeviceBatchAssumption ==
    /\ NoBatchDevice \notin BatchDevices /\ Labels \subseteq Nat
    /\ MaxMade \in Nat /\ MaxSends \in Nat

VARIABLES
    label,          \* devices: the label of each identifier, 0 when there is no row
    made, nth,      \* devices created so far, and which of them was the last with each identifier (history)
    linked,         \* device_template
    templates, attributed,
                    \* templates, and those whose attrs are there
    linking,        \* create_associated_devices_templates in progress
    batch,          \* creations
    removal,        \* removals of a device
    clearing,       \* removals of a template: the step of each
    announced,      \* events published, in order
    refused         \* sends that failed

tableVars == <<label, linked, templates, attributed>>
madeVars == <<made, nth>>
batchVars == <<tableVars, madeVars, linking, batch, removal, clearing, announced, refused>>

NoBatch == [phase |-> "none", next |-> 0, found |-> {}, device |-> NoBatchDevice, nth |-> 0]
NoRemoval == [phase |-> "none", device |-> NoBatchDevice, nth |-> 0]

BatchInit ==
    /\ label = [d \in BatchDevices |-> 0] /\ linked = {}
    /\ made = 0 /\ nth = [d \in BatchDevices |-> 0]
    /\ templates = Templates /\ attributed = Templates
    /\ linking = {} /\ batch = [b \in Creations |-> NoBatch]
    /\ removal = [x \in Removals |-> NoRemoval]
    /\ clearing = [t \in Templates |-> "none"]
    /\ announced = <<>> /\ refused = 0

Taken(l) == \E d \in BatchDevices : label[d] = l
Rows == {d \in BatchDevices : label[d] # 0}
Linked(t) == \E d \in BatchDevices : <<d, t>> \in linked

\* KafkaProducer.send: an error of the broker is thrown on.
SendsEvent(event, d, n) ==
    \/ announced' = Append(announced, <<event, d, n>>) /\ UNCHANGED refused
    \/ refused < MaxSends /\ refused' = refused + 1 /\ UNCHANGED announced
Sent == announced' # announced

-----------------------------------------------------------------------------
(* DevicesServices.create *)

\* assert_all_templates_valid_exits; without a template the loop does nothing.
ValidatesTemplates(b) ==
    /\ batch[b].phase = "none"
    /\ \E first \in Labels, asked \in SUBSET Templates :
        /\ asked \cap templates # {}
        /\ batch' = [batch EXCEPT ![b] = [phase |-> "label", next |-> first,
                                          found |-> asked \cap templates, device |-> NoBatchDevice, nth |-> 0]]
    /\ UNCHANGED <<tableVars, madeVars, linking, removal, clearing, announced, refused>>

Advanced(c) == IF c.next + 1 \in Labels
               THEN [c EXCEPT !.phase = "label", !.next = @ + 1, !.device = NoBatchDevice, !.nth = 0] ELSE NoBatch

\* assert_devices_exists: a label in use is reported, and skipped.
ChecksLabel(b) ==
    /\ batch[b].phase = "label"
    /\ batch' = [batch EXCEPT ![b] = IF Taken(@.next) THEN Advanced(@) ELSE [@ EXCEPT !.phase = "create"]]
    /\ UNCHANGED <<tableVars, madeVars, linking, removal, clearing, announced, refused>>

\* Three random bytes that nobody compares with those used: they may name a device that was removed.
\* The row is refused if another has its label, or its identifier.
CreatesDevice(b) ==
    /\ batch[b].phase = "create"
    /\ \E d \in BatchDevices :
        IF Taken(batch[b].next) \/ d \in Rows
        THEN batch' = [batch EXCEPT ![b] = NoBatch] /\ UNCHANGED <<label, madeVars>>
        ELSE /\ made < MaxMade /\ made' = made + 1
             /\ label' = [label EXCEPT ![d] = batch[b].next] /\ nth' = [nth EXCEPT ![d] = made']
             /\ batch' = [batch EXCEPT ![b] = [@ EXCEPT !.phase = "send", !.device = d, !.nth = made']]
    /\ UNCHANGED <<linked, templates, attributed, linking, removal, clearing, announced, refused>>

\* A refused event ends the request with the device in place, its templates not associated.
SendsCreate(b) ==
    /\ batch[b].phase = "send"
    /\ SendsEvent("create", batch[b].device, batch[b].nth)
    /\ batch' = [batch EXCEPT ![b] = IF Sent THEN Advanced(@) ELSE NoBatch]
    /\ linking' = IF Sent THEN linking \cup ({batch[b].device} \X batch[b].found) ELSE linking
    /\ UNCHANGED <<tableVars, madeVars, removal, clearing>>

\* The forEach nobody awaits: the foreign keys refuse what no longer exists.
Links(d, t) ==
    /\ <<d, t>> \in linking
    /\ linking' = linking \ {<<d, t>>}
    /\ linked' = IF d \in Rows /\ t \in templates THEN linked \cup {<<d, t>>} ELSE linked
    /\ UNCHANGED <<label, templates, attributed, madeVars, batch, removal, clearing, announced, refused>>

-----------------------------------------------------------------------------
(* DevicesServices.remove, for one device of the request *)

FindsDevice(x) ==
    /\ removal[x].phase = "none"
    /\ \E d \in Rows : removal' = [removal EXCEPT ![x] = [phase |-> "unlink", device |-> d, nth |-> 0]]
    /\ UNCHANGED <<tableVars, madeVars, linking, batch, clearing, announced, refused>>

\* device_template, and with it overrides and pre_shared_keys, which nothing here adds to.
UnlinksDevice(x) ==
    /\ removal[x].phase = "unlink"
    /\ linked' = {l \in linked : l[1] # removal[x].device}
    /\ removal' = [removal EXCEPT ![x].phase = "delete"]
    /\ UNCHANGED <<label, templates, attributed, madeVars, linking, batch, clearing, announced, refused>>

\* Mutant: deleteMany does not throw when there is nothing left to delete.
DeletesDeviceAny(x) ==
    /\ removal[x].phase = "delete"
    /\ label' = [label EXCEPT ![removal[x].device] = 0]
    /\ removal' = [removal EXCEPT ![x] = [@ EXCEPT !.phase = "send", !.nth = nth[removal[x].device]]]
    /\ UNCHANGED <<linked, templates, attributed, madeVars, linking, batch, clearing, announced, refused>>

\* devices.delete throws when the row is gone, or when an association refers to it.
DeletesDevice(x) ==
    /\ removal[x].phase = "delete"
    /\ LET d == removal[x].device IN
        IF d \in Rows /\ \A t \in Templates : <<d, t>> \notin linked
        THEN /\ label' = [label EXCEPT ![d] = 0]
             /\ removal' = [removal EXCEPT ![x] = [phase |-> "send", device |-> d, nth |-> nth[d]]]
        ELSE /\ removal' = [removal EXCEPT ![x] = NoRemoval]
             /\ UNCHANGED label
    /\ UNCHANGED <<linked, templates, attributed, madeVars, linking, batch, clearing, announced, refused>>

SendsRemove(x) ==
    /\ removal[x].phase = "send"
    /\ SendsEvent("remove", removal[x].device, removal[x].nth)
    /\ removal' = [removal EXCEPT ![x] = NoRemoval]
    /\ UNCHANGED <<tableVars, madeVars, linking, batch, clearing>>

-----------------------------------------------------------------------------
(* TemplatesServices.remove, for one template of the request *)

\* findById and findByTemplateAssociatesDevicesOrNot: a template in use is reported, and kept.
ChecksTemplate(t) ==
    /\ clearing[t] = "none" /\ t \in templates /\ ~Linked(t)
    /\ clearing' = [clearing EXCEPT ![t] = "attrs"]
    /\ UNCHANGED <<tableVars, madeVars, linking, batch, removal, announced, refused>>

DeletesAttrs(t) ==
    /\ clearing[t] = "attrs"
    /\ attributed' = attributed \ {t}
    /\ clearing' = [clearing EXCEPT ![t] = "template"]
    /\ UNCHANGED <<label, linked, templates, madeVars, linking, batch, removal, announced, refused>>

\* A device associated meanwhile makes the database refuse: the attrs are gone already.
DeletesTemplate(t) ==
    /\ clearing[t] = "template"
    /\ clearing' = [clearing EXCEPT ![t] = "none"]
    /\ templates' = IF Linked(t) THEN templates ELSE templates \ {t}
    /\ UNCHANGED <<label, linked, attributed, madeVars, linking, batch, removal, announced, refused>>

BatchNext ==
    \/ \E b \in Creations : ValidatesTemplates(b) \/ ChecksLabel(b) \/ CreatesDevice(b) \/ SendsCreate(b)
    \/ \E d \in BatchDevices, t \in Templates : Links(d, t)
    \/ \E x \in Removals : FindsDevice(x) \/ UnlinksDevice(x) \/ DeletesDevice(x) \/ SendsRemove(x)
    \/ \E t \in Templates : ChecksTemplate(t) \/ DeletesAttrs(t) \/ DeletesTemplate(t)

BatchSpec == BatchInit /\ [][BatchNext]_batchVars

-----------------------------------------------------------------------------
BatchTypeOK ==
    /\ label \in [BatchDevices -> Labels \cup {0}] /\ made \in 0..MaxMade /\ nth \in [BatchDevices -> Nat]
    /\ linked \subseteq BatchDevices \X Templates /\ linking \subseteq BatchDevices \X Templates
    /\ templates \subseteq Templates /\ attributed \subseteq Templates
    /\ batch \in [Creations -> [phase : {"none", "label", "create", "send"}, next : Labels \cup {0},
                                found : SUBSET Templates, device : BatchDevices \cup {NoBatchDevice}, nth : Nat]]
    /\ removal \in [Removals -> [phase : {"none", "unlink", "delete", "send"},
                                 device : BatchDevices \cup {NoBatchDevice}, nth : Nat]]
    /\ clearing \in [Templates -> {"none", "attrs", "template"}]
    /\ announced \in Seq({"create", "remove"} \X BatchDevices \X Nat)
    /\ refused \in 0..MaxSends

\* The devices there are: the identifier of each, and its number.
Living == {<<d, nth[d]>> : d \in Rows}

\* The removal of a device is announced at most once, when it is gone, and what is gone has left no
\* association, however many requests remove it, while its creation still associates it and whatever
\* fails on the way (devicesServices.ts, remove): the services that keep data of devices trust the
\* event.  A device that draws the identifier of a removed one is another, with a removal of its own.
RemovalsAreFinal ==
    /\ \A i \in 1..Len(announced) : announced[i][1] = "remove" =>
        /\ <<announced[i][2], announced[i][3]>> \notin Living
        /\ \A j \in 1..Len(announced) : announced[j] = announced[i] => i = j
    /\ \A l \in linked : l[1] \in Rows
=============================================================================
