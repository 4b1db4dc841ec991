--------------------------- MODULE IdentityProofs ---------------------------
(***************************************************************************)
(* What x509-identity-mgmt guarantees for every number of clients,         *)
(* certificates, owners, partitions, CAs and requests: how far concurrent  *)
(* requests can exceed the limit of trusted CAs; that the ownership events *)
(* and the records of the certificates agree; that a certificate keeps the *)
(* CA it depends on; and, joined with certificate-acl, that Redis names    *)
(* the owner the database has.                                             *)
(***************************************************************************)
EXTENDS TrustedCAService, OwnershipPipeline, CertificateAclProofs, FiniteSetTheorems,
        WellFoundedInduction, TLAPS

\* The part of the shapes the argument rests on.
CaTypeOK ==
    /\ requests \in Nat
    /\ cas \subseteq [id : Nat, ca : CAs \cup {NoOwner}] /\ IsFiniteSet(cas)
    /\ caReq \in [Clients -> CaRequest]

\* The requests that have passed the limit and not saved their CA yet.
Window == {c \in Clients : caReq[c].phase \in {"exists", "save"}}

\* A request enters the window only while there is room for one more record,
\* and leaves it by saving one or by failing; at most every client is in it.
WindowInv == Cardinality(cas) + Cardinality(Window) <= CaLimit + Cardinality(Clients) - 1

CaInv == CaTypeOK /\ WindowInv

-----------------------------------------------------------------------------
\* There is at least one client, and finitely many.
LEMMA ClientsCount ==
    /\ Cardinality(Clients) \in Nat \ {0}
    /\ IsFiniteSet(Window) /\ Cardinality(Window) \in Nat
    /\ Cardinality(Window) <= Cardinality(Clients)
<1>1. IsFiniteSet(Clients) /\ Clients # {}
    BY ClientsAssumption
<1>2. Cardinality(Clients) \in Nat /\ Cardinality(Clients) # 0
    BY <1>1, FS_CardinalityType, FS_EmptySet
<1>3. Window \subseteq Clients
    BY DEF Window
<1>4. IsFiniteSet(Window) /\ Cardinality(Window) <= Cardinality(Clients)
    BY <1>1, <1>3, FS_Subset
<1> QED
    BY <1>2, <1>4, FS_CardinalityType

\* No CA and no request at the start: the window is empty.
LEMMA CaInvInit == TcaInit => CaInv
<1> SUFFICES ASSUME TcaInit
             PROVE  CaInv
    OBVIOUS
<1>1. CaTypeOK
    BY FS_EmptySet DEF TcaInit, SvcInit, CaTypeOK, CaIdle, CaRequest
<1>2. Cardinality(cas) = 0
    BY FS_EmptySet DEF TcaInit
<1>3. Window = {}
    BY DEF TcaInit, Window, CaIdle
<1>4. Cardinality(Window) = 0
    BY <1>3, FS_EmptySet
<1> QED
    BY <1>1, <1>2, <1>4, ClientsCount, CaAssumption DEF CaInv, WindowInv

\* A step that neither saves a CA nor enters the window keeps the invariant.
LEMMA Shrinks ==
    ASSUME CaInv, CaTypeOK', cas' \subseteq cas, Window' \subseteq Window
    PROVE  CaInv'
<1>1. Cardinality(cas') <= Cardinality(cas) /\ Cardinality(cas) \in Nat /\ Cardinality(cas') \in Nat
    BY FS_Subset, FS_CardinalityType DEF CaInv, CaTypeOK
<1>2. Cardinality(Window') <= Cardinality(Window) /\ Cardinality(Window') \in Nat
    BY ClientsCount, FS_Subset, FS_CardinalityType
<1> QED
    BY <1>1, <1>2, ClientsCount, CaAssumption DEF CaInv, WindowInv

-----------------------------------------------------------------------------
(* Each way in which a step changes what the CA requests are doing *)

\* A request that goes on to a step before the check, or past the save, keeps it.
LEMMA MoveKeeps ==
    ASSUME CaTypeOK, NEW c \in Clients, NEW ph \in {"lookup", "limit", "remove", "notify", "trusted"},
           Move(c, ph)
    PROVE  caReq' \in [Clients -> CaRequest] /\ Window' \subseteq Window
<1>1. caReq[c] \in CaRequest
    BY DEF CaTypeOK
<1>2. [caReq[c] EXCEPT !.phase = ph] \in CaRequest
    BY <1>1 DEF CaRequest
<1>3. caReq' \in [Clients -> CaRequest]
    BY <1>2 DEF Move, CaTypeOK
<1>4. caReq'[c].phase = ph
    BY <1>1 DEF Move, CaTypeOK, CaRequest
<1>5. \A d \in Clients \ {c} : caReq'[d] = caReq[d]
    BY DEF Move, CaTypeOK
<1> QED
    BY <1>3, <1>4, <1>5 DEF Window

\* So does a request that begins or ends outside the window.
LEMMA PutKeeps ==
    ASSUME CaTypeOK, NEW c \in Clients, NEW w \in CaRequest, w.phase \notin {"exists", "save"},
           caReq' = [caReq EXCEPT ![c] = w]
    PROVE  caReq' \in [Clients -> CaRequest] /\ Window' \subseteq Window
<1>1. caReq' \in [Clients -> CaRequest]
    BY DEF CaTypeOK
<1>2. \A d \in Clients : caReq'[d] = IF d = c THEN w ELSE caReq[d]
    BY DEF CaTypeOK
<1> QED
    BY <1>1, <1>2 DEF Window

\* A request that is over is outside the window.
LEMMA IdleWork == CaIdle \in CaRequest /\ CaIdle.phase = "idle"
BY DEF CaIdle, CaRequest

\* A request that begins has the shape of one.
LEMMA BeginsWork ==
    ASSUME CaTypeOK, NEW ca \in CAs, NEW ph \in {"lookup", "limit", "count"}
    PROVE  At(ph, ca) \in CaRequest /\ At(ph, ca).phase = ph
BY DEF At, CaIdle, CaRequest, CaTypeOK

\* A request that fails leaves the window.
LEMMA AbortKeeps ==
    ASSUME CaTypeOK, NEW c \in Clients, Abort(c)
    PROVE  caReq' \in [Clients -> CaRequest] /\ Window' \subseteq Window
BY IdleWork, PutKeeps DEF Abort

-----------------------------------------------------------------------------
\* Every step keeps the invariant: the check lets a request into the window only
\* below the limit, and the save trades its place there for a record.
LEMMA CaInvStep == CaInv /\ [TcaNext]_tcaVars => CaInv'
<1> SUFFICES ASSUME CaInv, [TcaNext]_tcaVars
             PROVE  CaInv'
    OBVIOUS
<1>1. CaTypeOK
    BY DEF CaInv
<1>2. ASSUME UNCHANGED <<cas, caReq>>, requests' \in Nat
      PROVE  CaInv'
    BY <1>1, <1>2, Shrinks DEF CaTypeOK, Window
<1>3. ASSUME NEW c \in Clients, NEW f \in Fingerprints
      PROVE  Begin(c, f) => requests' \in Nat
    BY <1>1 DEF Begin, CaTypeOK
<1>4. ASSUME NEW c \in Clients, NEW f \in Fingerprints, NEW o \in Devices \cup {NoOwner},
             RegisterNeedsCa(c, f, o)
      PROVE  CaInv'
    <2>1. f \in External /\ requests' \in Nat
        BY <1>3, <1>4 DEF RegisterNeedsCa, RegisterChecks
    <2>2. PICK root \in BOOLEAN :
              caReq' = [caReq EXCEPT ![c] = [At("lookup", CaOf[f]) EXCEPT !.forCert = TRUE, !.root = root]]
        BY <1>4 DEF RegisterNeedsCa
    <2>3. CaOf[f] \in CAs
        BY <2>1, CaAssumption
    <2> DEFINE w == [At("lookup", CaOf[f]) EXCEPT !.forCert = TRUE, !.root = root]
    <2>4. w \in CaRequest /\ w.phase = "lookup"
        <3>1. At("lookup", CaOf[f]) \in CaRequest /\ At("lookup", CaOf[f]).phase = "lookup"
            BY <1>1, <2>3, BeginsWork
        <3> QED
            BY <2>2, <3>1 DEF CaRequest
    <2>5. caReq' \in [Clients -> CaRequest] /\ Window' \subseteq Window
        BY <1>1, <2>2, <2>4, PutKeeps
    <2> QED
        BY <1>1, <1>4, <2>1, <2>5, Shrinks DEF RegisterNeedsCa, CaTypeOK
<1>5. ASSUME NEW c \in Clients, LookUpCa(c)
      PROVE  CaInv'
    <2>1. caReq' \in [Clients -> CaRequest] /\ Window' \subseteq Window
        BY <1>1, <1>5, MoveKeeps, AbortKeeps DEF LookUpCa
    <2> QED
        BY <1>1, <1>5, <2>1, Shrinks DEF LookUpCa, CaTypeOK
<1>6. ASSUME NEW c \in Clients, RegisterSavesTrusted(c)
      PROVE  CaInv'
    <2>1. caReq' \in [Clients -> CaRequest] /\ Window' \subseteq Window
        BY <1>1, <1>6, IdleWork, PutKeeps DEF RegisterSavesTrusted
    <2> QED
        BY <1>1, <1>6, <2>1, Shrinks DEF RegisterSavesTrusted, RegisterSaves, CaTypeOK
<1>7. ASSUME NEW c \in Clients, NEW w \in CaRequest, w.phase \notin {"exists", "save"}, BeginCa(c, w)
      PROVE  CaInv'
    <2>1. caReq' \in [Clients -> CaRequest] /\ Window' \subseteq Window
        BY <1>1, <1>7, PutKeeps DEF BeginCa
    <2> QED
        BY <1>1, <1>7, <2>1, Shrinks DEF BeginCa, CaTypeOK
<1>8. ASSUME NEW c \in Clients, NEW ca \in CAs, PostCa(c, ca)
      PROVE  CaInv'
    BY <1>1, <1>7, <1>8, BeginsWork DEF PostCa
<1>9. ASSUME NEW c \in Clients, NEW ca \in CAs, DeleteCaReads(c, ca)
      PROVE  CaInv'
    <2>1. PICK r \in cas : BeginCa(c, [At("count", ca) EXCEPT !.id = r.id])
        BY <1>9 DEF DeleteCaReads
    <2>2. r.id \in Nat
        BY <1>1 DEF CaTypeOK
    <2>3. /\ [At("count", ca) EXCEPT !.id = r.id] \in CaRequest
          /\ [At("count", ca) EXCEPT !.id = r.id].phase = "count"
        BY <1>1, <2>2, BeginsWork DEF CaRequest
    <2> QED
        BY <1>7, <2>1, <2>3
\* The window opens only below the limit.
<1>10. ASSUME NEW c \in Clients, CheckLimit(c)
       PROVE  CaInv'
    <2>1. UNCHANGED <<cas, requests>>
        BY <1>10 DEF CheckLimit
    <2>2. CASE Abort(c)
        BY <1>1, <2>1, <2>2, AbortKeeps, Shrinks DEF CaTypeOK
    <2>3. CASE ~(Cardinality(cas) >= CaLimit) /\ Move(c, "exists")
        <3>1. [caReq[c] EXCEPT !.phase = "exists"] \in CaRequest
            BY <1>1 DEF CaTypeOK, CaRequest
        <3>2. caReq' \in [Clients -> CaRequest]
            BY <1>1, <2>3, <3>1 DEF Move, CaTypeOK
        <3>3. IsFiniteSet(Window') /\ Cardinality(Window') \in Nat
              /\ Cardinality(Window') <= Cardinality(Clients)
            BY ClientsAssumption, FS_Subset, FS_CardinalityType DEF Window
        <3>4. Cardinality(cas) \in Nat /\ Cardinality(cas) <= CaLimit - 1
            BY <1>1, <2>3, FS_CardinalityType, CaAssumption DEF CaTypeOK
        <3>5. WindowInv'
            BY <2>1, <3>3, <3>4, ClientsCount, CaAssumption DEF WindowInv
        <3> QED
            BY <1>1, <2>1, <3>2, <3>5 DEF CaInv, CaTypeOK
    <2> QED
        BY <1>10, <2>2, <2>3 DEF CheckLimit
<1>11. ASSUME NEW c \in Clients, CheckExistingCa(c)
       PROVE  CaInv'
    <2>1. UNCHANGED <<cas, requests>> /\ c \in Window
        BY <1>11 DEF CheckExistingCa, Window, caUnchanged
    <2>2. CASE Abort(c)
        BY <1>1, <2>1, <2>2, AbortKeeps, Shrinks DEF CaTypeOK
    <2>3. CASE Move(c, "save")
        <3>1. [caReq[c] EXCEPT !.phase = "save"] \in CaRequest
            BY <1>1 DEF CaTypeOK, CaRequest
        <3>2. caReq' \in [Clients -> CaRequest] /\ \A d \in Clients \ {c} : caReq'[d] = caReq[d]
            BY <1>1, <2>3, <3>1 DEF Move, CaTypeOK
        <3>3. Window' \subseteq Window
            BY <2>1, <3>2 DEF Window
        <3> QED
            BY <1>1, <2>1, <3>2, <3>3, Shrinks DEF CaTypeOK
    <2> QED
        BY <1>11, <2>2, <2>3 DEF CheckExistingCa
\* A record takes the place of a request in the window.
<1>12. ASSUME NEW c \in Clients, SaveCa(c)
       PROVE  CaInv'
    <2> DEFINE r == [id |-> caReq[c].id, ca |-> caReq[c].ca]
    <2>1. cas' = cas \cup {r} /\ c \in Window /\ Move(c, "notify") /\ requests' = requests
        BY <1>12 DEF SaveCa, Window
    <2>2. r \in [id : Nat, ca : CAs \cup {NoOwner}]
        BY <1>1 DEF CaTypeOK, CaRequest
    <2>3. /\ IsFiniteSet(cas')
          /\ Cardinality(cas) \in Nat /\ Cardinality(cas') \in Nat
          /\ Cardinality(cas') <= Cardinality(cas) + 1
        <3>1. IsFiniteSet(cas) /\ Cardinality(cas) \in Nat
            BY <1>1, FS_CardinalityType DEF CaTypeOK
        <3>2. /\ IsFiniteSet(cas \cup {r})
              /\ \/ Cardinality(cas \cup {r}) = Cardinality(cas)
                 \/ Cardinality(cas \cup {r}) = Cardinality(cas) + 1
            BY <3>1, FS_AddElement
        <3> QED
            BY <2>1, <3>1, <3>2
    <2>4. [caReq[c] EXCEPT !.phase = "notify"] \in CaRequest
        BY <1>1 DEF CaTypeOK, CaRequest
    <2>5. /\ caReq' \in [Clients -> CaRequest]
          /\ caReq'[c].phase = "notify"
          /\ \A d \in Clients \ {c} : caReq'[d] = caReq[d]
        BY <1>1, <2>1, <2>4 DEF Move, CaTypeOK, CaRequest
    <2>6. Window' = Window \ {c}
        BY <2>5 DEF Window
    <2>7. Cardinality(Window') = Cardinality(Window) - 1
        BY <2>1, <2>6, ClientsCount, FS_RemoveElement
    <2>8. WindowInv'
        BY <2>3, <2>7, ClientsCount, CaAssumption DEF CaInv, WindowInv
    <2> QED
        BY <1>1, <2>1, <2>2, <2>3, <2>5, <2>8 DEF CaInv, CaTypeOK
<1>13. ASSUME NEW c \in Clients, CountDependents(c)
       PROVE  CaInv'
    <2>1. caReq' \in [Clients -> CaRequest] /\ Window' \subseteq Window
        BY <1>1, <1>13, MoveKeeps, AbortKeeps DEF CountDependents
    <2> QED
        BY <1>1, <1>13, <2>1, Shrinks DEF CountDependents, CaTypeOK
<1>14. ASSUME NEW c \in Clients, DeleteCaRemoves(c)
       PROVE  CaInv'
    <2>1. caReq' \in [Clients -> CaRequest] /\ Window' \subseteq Window
        BY <1>1, <1>14, MoveKeeps DEF DeleteCaRemoves
    <2>2. cas' \subseteq cas /\ IsFiniteSet(cas')
        BY <1>1, <1>14, FS_Subset DEF DeleteCaRemoves, CaTypeOK
    <2> QED
        BY <1>1, <1>14, <2>1, <2>2, Shrinks DEF DeleteCaRemoves, CaTypeOK
<1>15. ASSUME NEW c \in Clients, NotifyCa(c)
       PROVE  CaInv'
    <2>1. [caReq[c] EXCEPT !.phase = "trusted"] \in CaRequest
          /\ [caReq[c] EXCEPT !.phase = "trusted"].phase = "trusted"
        BY <1>1 DEF CaTypeOK, CaRequest
    <2>2. caReq' \in [Clients -> CaRequest] /\ Window' \subseteq Window
        BY <1>1, <1>15, <2>1, IdleWork, PutKeeps DEF NotifyCa
    <2> QED
        BY <1>1, <1>15, <2>2, Shrinks DEF NotifyCa, CaTypeOK
<1>16. ASSUME NEW c \in Clients, CaFails(c)
       PROVE  CaInv'
    BY <1>1, <1>16, AbortKeeps, Shrinks DEF CaFails, CaTypeOK
<1>17. ASSUME NEW c \in Clients, UNCHANGED caVars,
              OtherRequest(c) \/ DeleteRemoves(c) \/ DeleteRevokes(c) \/ Notifies(c)
                  \/ NotifiesAgain(c) \/ Fails(c)
       PROVE  CaInv'
    <2>1. CASE OtherRequest(c)
        <3>1. requests' \in Nat
            BY <1>3, <2>1 DEF OtherRequest, GenerateCertificate, ChangeOwnership,
                              ThrowAwayCertificate, DeleteReads
        <3> QED
            BY <1>2, <1>17, <3>1 DEF caVars
    <2>2. CASE ~OtherRequest(c)
        <3>1. requests' = requests
            BY <1>17, <2>2 DEF DeleteRemoves, DeleteRevokes, Notifies, NotifiesAgain, Produce, Fails
        <3> QED
            BY <1>1, <1>2, <1>17, <3>1 DEF caVars, CaTypeOK
    <2> QED
        BY <2>1, <2>2
<1>18. CASE Crash /\ caReq' = [c \in Clients |-> CaIdle] /\ UNCHANGED <<cas, caRaced>>
    <2>1. caReq' \in [Clients -> CaRequest] /\ Window' \subseteq Window
        BY <1>18, IdleWork DEF Window
    <2> QED
        BY <1>1, <1>18, <2>1, Shrinks DEF Crash, CaTypeOK
<1>19. CASE UNCHANGED tcaVars
    BY <1>1, <1>2, <1>19 DEF tcaVars, svcVars, caVars, CaTypeOK
<1> QED
    BY <1>4, <1>5, <1>6, <1>8, <1>9, <1>10, <1>11, <1>12, <1>13, <1>14, <1>15, <1>16, <1>17,
       <1>18, <1>19 DEF TcaNext, CaProgress

\* However many requests overlap, fail or are cut by a crash, the trusted CAs of
\* a tenant exceed the limit by fewer records than there are clients at once.
THEOREM OvershootBounded == TcaSpec => []CaLimitOvershoot
<1>1. CaInv => CaLimitOvershoot
    <2>1. CaTypeOK => Cardinality(cas) \in Nat
        BY FS_CardinalityType DEF CaTypeOK
    <2> QED
        BY <2>1, ClientsCount, CaAssumption DEF CaInv, WindowInv, CaLimitOvershoot
<1>2. TcaSpec => []CaInv
    BY CaInvInit, CaInvStep, PTL DEF TcaSpec
<1> QED
    BY <1>1, <1>2, PTL

-----------------------------------------------------------------------------
(***************************************************************************)
(* The records of the certificates and the events about them.  The         *)
(* argument speaks of the records as a set, Held: findOneAndUpdate and      *)
(* findByIdAndDelete change one of them, whatever its place.               *)
(***************************************************************************)
Held == {docs[i] : i \in DOMAIN docs}
RecsOf(f) == {r \in Held : r.fp = f}

\* A request has a record of its own number, and its event is about that record.
RequestSound(w, n) ==
    /\ w.phase # "idle" => w.rec \in Doc /\ w.rec.id < n
    /\ w.phase = "save" => w.rec.fp \in External
    /\ w.phase = "notify" =>
           w.event \in OwnershipEvent /\ Decides(w.event, w.rec.fp) /\ w.key \in Owners
RequestsOK == \A c \in Clients : RequestSound(req[c], requests)

\* Records have identities of their own; the one a registration will save is new,
\* and the one a deletion will remove is of the certificate it read.
IdsOK ==
    /\ \A i, j \in DOMAIN docs : docs[i].id = docs[j].id => i = j
    /\ \A r \in Held : r.id < requests
    /\ \A c \in Clients :
        /\ req[c].phase = "delete" => \A r \in Held : r.id = req[c].rec.id => r.fp = req[c].rec.fp
        /\ req[c].phase = "save" =>
            /\ \A r \in Held : r.id # req[c].rec.id
            /\ \A d \in Clients \ {c} :
                 req[d].phase \in {"save", "delete"} => req[d].rec.id # req[c].rec.id

IssuedOK == \A r \in Held : r.fp \in External \cup issued

\* The last event of f says o, or that f is an application's.
LogSays(f, o) == announced[f] = o \/ announced[f] \in Applications
AtRest(f) ==
    /\ RecsOf(f) = {} => LogSays(f, NoOwner)
    /\ \A r \in RecsOf(f) : LogSays(f, r.owner)

\* What a request w at work alone on f knows of the records.
Accords(f, w) ==
    /\ w.phase = "save" => RecsOf(f) = {}
    /\ w.phase = "delete" => RecsOf(f) = {w.rec}
    /\ w.phase = "revoke" => RecsOf(f) = {} /\ LogSays(f, w.rec.owner)
    /\ w.phase = "notify" =>
           \/ w.event.owner \in Applications
           \/ RecsOf(f) = {} /\ w.event.owner = NoOwner
           \/ RecsOf(f) # {} /\ \A r \in RecsOf(f) : w.event.owner = r.owner

\* A certificate on which requests follow one another has one record at most,
\* which the last event or the request at work agrees with.
InStep(f) ==
    /\ \A r, s \in RecsOf(f) : r = s
    /\ \A c, d \in InProgress(f) : c = d
    /\ \A c \in InProgress(f) : Accords(f, req[c])
    /\ (\A c \in InProgress(f) : req[c].phase \in {"save", "delete"}) => AtRest(f)
AllInStep == \A f \in Fingerprints \ (lost \cup contended) : InStep(f)

\* An owner a record names was announced, or is about to be.
ToAnnounce(f, o) ==
    \E c \in Clients : req[c].phase = "notify" /\ req[c].rec.fp = f /\ req[c].event.owner = o
OwnersSaid ==
    \A r \in Held : r.fp \notin lost /\ r.owner # NoOwner =>
        Announced(r.fp, r.owner) \/ ToAnnounce(r.fp, r.owner)

SvcInv == SvcTypeOK /\ RequestsOK /\ IdsOK /\ IssuedOK /\ AllInStep /\ OwnersSaid

-----------------------------------------------------------------------------
(* Lemmas about the data of the service *)

\* A nonempty set of numbers has a least one.
LEMMA LeastNumber ==
    ASSUME NEW S \in SUBSET Nat, S # {}
    PROVE  \E x \in S : \A y \in S : x <= y
<1> DEFINE R == {xy \in Nat \X Nat : xy[1] < xy[2]}
<1>1. IsWellFoundedOn(R, Nat)
    BY NatLessThanWellFounded DEF OpToRel
<1>2. \A x, y \in Nat : y < x => <<y, x>> \in R
    OBVIOUS
<1> HIDE DEF R
<1>3. PICK x \in S : \A y \in S : ~ (<<y, x>> \in R)
    BY <1>1, WFMin
<1>4. \A y \in S : ~ (y < x)
    BY <1>2, <1>3
<1>5. \A y \in S : x <= y
    BY <1>4
<1> QED
    BY <1>5

\* findOne answers with a record of the certificate, when there is one.
LEMMA FirstIsRecord ==
    ASSUME docs \in Seq(Doc), NEW f, RecordsOf(f) # {}
    PROVE  FirstOf(f) \in DOMAIN docs /\ docs[FirstOf(f)].fp = f /\ docs[FirstOf(f)] \in RecsOf(f)
<1>1. RecordsOf(f) \in SUBSET Nat
    BY DEF RecordsOf
<1>2. \E i \in RecordsOf(f) : \A j \in RecordsOf(f) : i <= j
    BY <1>1, LeastNumber
<1>3. FirstOf(f) \in RecordsOf(f)
    BY <1>2 DEF FirstOf
<1> QED
    BY <1>3 DEF RecordsOf, RecsOf, Held

\* The records by place and the records as a set.
LEMMA RecordsAsSet ==
    ASSUME NEW f
    PROVE  RecordsOf(f) = {} <=> RecsOf(f) = {}
BY DEF RecordsOf, RecsOf, Held

\* The set of the records has the type of the sequence.
LEMMA HeldAreDocs == ASSUME docs \in Seq(Doc) PROVE Held \subseteq Doc
BY DEF Held

\* Saving a record.
LEMMA AppendHeld ==
    ASSUME docs \in Seq(Doc), NEW d \in Doc, docs' = Append(docs, d)
    PROVE  /\ docs' \in Seq(Doc)
           /\ Held' = Held \cup {d}
           /\ \A f : RecsOf(f)' = IF d.fp = f THEN RecsOf(f) \cup {d} ELSE RecsOf(f)
<1>1. /\ docs' \in Seq(Doc)
      /\ DOMAIN docs' = DOMAIN docs \cup {Len(docs) + 1}
      /\ \A i \in DOMAIN docs : docs'[i] = docs[i]
      /\ docs'[Len(docs) + 1] = d
    OBVIOUS
<1>2. Held' = Held \cup {d}
    BY <1>1 DEF Held
<1> QED
    BY <1>1, <1>2 DEF RecsOf

\* Removing the record at a place.
LEMMA WithoutHeld ==
    ASSUME docs \in Seq(Doc), NEW i \in DOMAIN docs, docs' = Without(docs, i),
           \A j, k \in DOMAIN docs : docs[j].id = docs[k].id => j = k
    PROVE  /\ docs' \in Seq(Doc)
           /\ Held' = Held \ {docs[i]}
           /\ \A f : RecsOf(f)' = RecsOf(f) \ {docs[i]}
           /\ \A j, k \in DOMAIN docs' : docs'[j].id = docs'[k].id => j = k
<1>1. Len(docs) \in Nat /\ DOMAIN docs = 1 .. Len(docs) /\ \A j \in DOMAIN docs : docs[j] \in Doc
    OBVIOUS
<1>2. /\ docs' \in Seq(Doc)
      /\ DOMAIN docs' = 1 .. Len(docs) - 1
      /\ \A j \in DOMAIN docs' : docs'[j] = IF j < i THEN docs[j] ELSE docs[j + 1]
    BY <1>1 DEF Without
<1>3. ASSUME NEW j \in DOMAIN docs, j # i
      PROVE  docs[j] \in Held'
    <2>1. CASE j < i
        <3>1. j \in DOMAIN docs' /\ docs'[j] = docs[j]
            BY <1>1, <1>2, <2>1
        <3> QED
            BY <3>1 DEF Held
    <2>2. CASE j > i
        <3>1. j - 1 \in DOMAIN docs' /\ ~ (j - 1 < i) /\ (j - 1) + 1 = j
            BY <1>1, <1>2, <2>2
        <3>2. docs'[j - 1] = docs[j]
            BY <1>2, <3>1
        <3> QED
            BY <3>1, <3>2 DEF Held
    <2> QED
        BY <1>1, <1>3, <2>1, <2>2
<1>4. ASSUME NEW j \in DOMAIN docs'
      PROVE  \E k \in DOMAIN docs : k # i /\ docs'[j] = docs[k]
    BY <1>1, <1>2
<1>5. \A j \in DOMAIN docs : j # i => docs[j] # docs[i]
    OBVIOUS
<1>6. Held' = Held \ {docs[i]}
    BY <1>3, <1>4, <1>5 DEF Held
<1>7. \A j, k \in DOMAIN docs' : docs'[j].id = docs'[k].id => j = k
    <2> SUFFICES ASSUME NEW j \in DOMAIN docs', NEW k \in DOMAIN docs', docs'[j].id = docs'[k].id
                 PROVE  j = k
        OBVIOUS
    <2> DEFINE J == IF j < i THEN j ELSE j + 1
               K == IF k < i THEN k ELSE k + 1
    <2>1. J \in DOMAIN docs /\ K \in DOMAIN docs /\ docs'[j] = docs[J] /\ docs'[k] = docs[K]
        BY <1>1, <1>2
    <2>2. J = K
        BY <2>1
    <2> QED
        BY <1>1, <1>2, <2>2
<1> QED
    BY <1>2, <1>6, <1>7 DEF RecsOf

\* Updating the owner of the record at a place.
LEMMA UpdateHeld ==
    ASSUME docs \in Seq(Doc), NEW i \in DOMAIN docs, NEW o \in Devices \cup {NoOwner},
           docs' = [docs EXCEPT ![i].owner = o],
           \A j, k \in DOMAIN docs : docs[j].id = docs[k].id => j = k
    PROVE  /\ docs' \in Seq(Doc)
           /\ Held' = (Held \ {docs[i]}) \cup {[docs[i] EXCEPT !.owner = o]}
           /\ \A j, k \in DOMAIN docs' : docs'[j].id = docs'[k].id => j = k
<1>0. docs[i] \in Doc
    OBVIOUS
<1>1. /\ [docs[i] EXCEPT !.owner = o] \in Doc
      /\ [docs[i] EXCEPT !.owner = o].id = docs[i].id
    BY <1>0 DEF Doc
<1>2. /\ docs' \in Seq(Doc)
      /\ DOMAIN docs' = DOMAIN docs
      /\ docs'[i] = [docs[i] EXCEPT !.owner = o]
      /\ \A j \in DOMAIN docs \ {i} : docs'[j] = docs[j]
    BY <1>1
<1>3. \A j \in DOMAIN docs : j # i => docs[j] # docs[i]
    OBVIOUS
<1> QED
    BY <1>1, <1>2, <1>3 DEF Held

\* What a request does next about record d, whose owner was said to be prev and
\* is o: nothing when they agree, and an event that says o otherwise.
Announcing(w, d, prev, o) ==
    /\ w \in Request
    /\ prev = o => w = Idle
    /\ prev # o =>
        /\ w.phase = "notify" /\ w.rec = d /\ w.key \in Owners
        /\ w.event \in OwnershipEvent /\ Decides(w.event, d.fp) /\ w.event.owner = o

\* OwnershipNotifier: an event for each change of owner, and none without one.
LEMMA IdleRequest == Idle \in Request /\ Idle.phase = "idle"
BY DEF Idle, Request

\* What each notification announces, when it announces something, is an event that decides: after a
\* creation,
LEMMA CreationAnnounces ==
    ASSUME NEW d \in Doc, NEW o \in Owners \cup {NoOwner}
    PROVE  Announcing(NotifyCreation(d, o), d, NoOwner, o)
<1>1. CASE o = NoOwner
    BY <1>1, IdleRequest DEF Announcing, NotifyCreation
<1>2. CASE o # NoOwner
    <2> DEFINE e == Creation(d.fp, o)
    <2>1. e \in OwnershipEvent /\ Decides(e, d.fp) /\ e.owner = o
        BY <1>2 DEF Creation, OwnershipEvent, EventTypes, Decides, Doc
    <2> HIDE DEF e
    <2>2. Notifying(d, e, o) \in Request
        BY <1>2, <2>1 DEF Notifying, Request
    <2>3. NotifyCreation(d, o) = Notifying(d, e, o)
        BY <1>2 DEF NotifyCreation, e
    <2>4. /\ Notifying(d, e, o).phase = "notify" /\ Notifying(d, e, o).rec = d
          /\ Notifying(d, e, o).event = e /\ Notifying(d, e, o).key = o
        BY DEF Notifying
    <2> QED
        BY <1>2, <2>1, <2>2, <2>3, <2>4 DEF Announcing
<1> QED
    BY <1>1, <1>2

\* of a removal, which takes the owner away,
LEMMA RemovalAnnounces ==
    ASSUME NEW d \in Doc, NEW prev \in Owners \cup {NoOwner}
    PROVE  Announcing(NotifyRemoval(d, prev), d, prev, NoOwner)
<1>1. CASE prev = NoOwner
    BY <1>1, IdleRequest DEF Announcing, NotifyRemoval
<1>2. CASE prev # NoOwner
    <2> DEFINE e == Removal(d.fp)
    <2>1. e \in OwnershipEvent /\ Decides(e, d.fp) /\ e.owner = NoOwner
        BY DEF Removal, OwnershipEvent, EventTypes, Decides, Doc
    <2> HIDE DEF e
    <2>2. Notifying(d, e, prev) \in Request
        BY <1>2, <2>1 DEF Notifying, Request
    <2>3. NotifyRemoval(d, prev) = Notifying(d, e, prev)
        BY <1>2 DEF NotifyRemoval, e
    <2>4. /\ Notifying(d, e, prev).phase = "notify" /\ Notifying(d, e, prev).rec = d
          /\ Notifying(d, e, prev).event = e /\ Notifying(d, e, prev).key = prev
        BY DEF Notifying
    <2> QED
        BY <1>2, <2>1, <2>2, <2>3, <2>4 DEF Announcing
<1> QED
    BY <1>1, <1>2

\* and of a change of owner.
LEMMA ChangeAnnounces ==
    ASSUME NEW d \in Doc, NEW prev \in Owners \cup {NoOwner}, NEW o \in Owners \cup {NoOwner}
    PROVE  Announcing(NotifyChange(d, prev, o), d, prev, o)
<1>1. CASE prev = o
    BY <1>1, IdleRequest DEF Announcing, NotifyChange
<1>2. CASE prev # o /\ prev = NoOwner
    BY <1>2, CreationAnnounces DEF NotifyChange
<1>3. CASE prev # o /\ prev # NoOwner /\ o = NoOwner
    BY <1>3, RemovalAnnounces DEF NotifyChange
<1>4. CASE prev # o /\ prev # NoOwner /\ o # NoOwner
    <2> DEFINE e == Change(d.fp, o)
    <2>1. e \in OwnershipEvent /\ Decides(e, d.fp) /\ e.owner = o
        BY <1>4 DEF Change, OwnershipEvent, EventTypes, Decides, Doc
    <2> HIDE DEF e
    <2>2. Notifying(d, e, o) \in Request
        BY <1>4, <2>1 DEF Notifying, Request
    <2>3. NotifyChange(d, prev, o) = Notifying(d, e, o)
        BY <1>4 DEF NotifyChange, e
    <2>4. /\ Notifying(d, e, o).phase = "notify" /\ Notifying(d, e, o).rec = d
          /\ Notifying(d, e, o).event = e /\ Notifying(d, e, o).key = o
        BY DEF Notifying
    <2> QED
        BY <1>4, <2>1, <2>2, <2>3, <2>4 DEF Announcing
<1> QED
    BY <1>1, <1>2, <1>3, <1>4

-----------------------------------------------------------------------------
(* What a step of one request keeps *)

\* Requests keep their shape when client c's becomes w.
LEMMA RequestsKept ==
    ASSUME SvcTypeOK, RequestsOK, requests' \in Nat, requests <= requests',
           NEW c \in Clients, NEW w \in Request, RequestSound(w, requests'),
           req' = [req EXCEPT ![c] = w]
    PROVE  /\ req' \in [Clients -> Request] /\ RequestsOK'
           /\ req'[c] = w /\ \A d \in Clients \ {c} : req'[d] = req[d]
<1>1. /\ req' \in [Clients -> Request]
      /\ req'[c] = w /\ \A d \in Clients \ {c} : req'[d] = req[d]
    BY DEF SvcTypeOK
<1>2. requests \in Nat
    BY DEF SvcTypeOK
<1>3. ASSUME NEW d \in Clients
      PROVE  RequestSound(req'[d], requests')
    <2>1. CASE d = c
        BY <1>1, <2>1
    <2>2. CASE d # c
        BY <1>1, <1>2, <2>2 DEF RequestsOK, RequestSound, Doc
    <2> QED
        BY <2>1, <2>2
<1> QED
    BY <1>1, <1>3 DEF RequestsOK

\* A request that announces a record is well formed.
LEMMA AnnouncingIsWellFormed ==
    ASSUME NEW w, NEW d \in Doc, NEW prev, NEW o, NEW n \in Nat, d.id < n, Announcing(w, d, prev, o)
    PROVE  RequestSound(w, n) /\ w.phase \in {"idle", "notify"} /\ w \in Request
BY IdleRequest DEF Announcing, RequestSound

\* What holds of a certificate that a step is not about.
LEMMA Elsewhere ==
    ASSUME NEW c \in Clients, \A d \in Clients \ {c} : req'[d] = req[d],
           NEW f, InStep(f), RecsOf(f)' = RecsOf(f), announced'[f] = announced[f],
           c \notin InProgress(f), c \notin InProgress(f)'
    PROVE  InStep(f)'
<1>1. InProgress(f)' = InProgress(f)
    BY DEF InProgress
<1>2. \A d \in InProgress(f) : req'[d] = req[d]
    BY DEF InProgress
<1>3. \A d \in InProgress(f) : Accords(f, req[d])' <=> Accords(f, req[d])
    BY <1>2 DEF Accords, LogSays
<1>4. AtRest(f)' <=> AtRest(f)
    BY DEF AtRest, LogSays
<1> QED
    BY <1>1, <1>2, <1>3, <1>4 DEF InStep

\* A certificate on which only client c is at work.
LEMMA AtWorkAlone ==
    ASSUME NEW c \in Clients, \A d \in Clients \ {c} : req'[d] = req[d],
           NEW f, InProgress(f) \subseteq {c},
           \A r, s \in RecsOf(f)' : r = s,
           c \in InProgress(f)' => Accords(f, req[c])',
           (c \in InProgress(f)' => req'[c].phase \in {"save", "delete"}) => AtRest(f)'
    PROVE  InStep(f)'
<1>1. InProgress(f)' \subseteq {c}
    BY DEF InProgress
<1>2. \A d \in InProgress(f)' : Accords(f, req[d])'
    BY <1>1
<1> QED
    BY <1>1, <1>2 DEF InStep

\* Certificates keep in step when those that client c's step is not about stay
\* as they are, and the one it is about stays in step.
LEMMA OthersInStep ==
    ASSUME AllInStep, NEW c \in Clients, \A d \in Clients \ {c} : req'[d] = req[d],
           lost \subseteq lost', contended \subseteq contended',
           NEW g,
           \A f \in Fingerprints \ {g} :
               RecsOf(f)' = RecsOf(f) /\ announced'[f] = announced[f],
           req[c].phase = "idle" \/ req[c].rec.fp = g,
           req'[c].phase = "idle" \/ req'[c].rec.fp = g,
           g \in Fingerprints \ (lost' \cup contended') => InStep(g)'
    PROVE  AllInStep'
<1> SUFFICES ASSUME NEW f \in Fingerprints \ (lost' \cup contended')
             PROVE  InStep(f)'
    BY DEF AllInStep
<1>1. CASE f = g
    BY <1>1
<1>2. CASE f # g
    <2>1. InStep(f)
        BY DEF AllInStep
    <2>2. c \notin InProgress(f) /\ c \notin InProgress(f)'
        BY <1>2 DEF InProgress
    <2>3. RecsOf(f)' = RecsOf(f) /\ announced'[f] = announced[f]
        BY <1>2
    <2> QED
        BY <2>1, <2>2, <2>3, Elsewhere
<1> QED
    BY <1>1, <1>2

\* Identities stay apart: every record is an old one or has an identity that no
\* other request holds, and a request that begins reads a record or has a new one.
LEMMA IdsKept ==
    ASSUME SvcTypeOK, RequestsOK, IdsOK, requests' \in Nat, requests <= requests',
           NEW c \in Clients, \A d \in Clients \ {c} : req'[d] = req[d],
           \A j, k \in DOMAIN docs' : docs'[j].id = docs'[k].id => j = k,
           \A r \in Held' :
               \/ \E s \in Held : s.id = r.id /\ s.fp = r.fp
               \/ /\ r.id < requests'
                  /\ \A d \in Clients \ {c} :
                         req[d].phase \in {"save", "delete"} => req[d].rec.id # r.id,
           req'[c].phase = "delete" => Held' = Held /\ req'[c].rec \in Held,
           req'[c].phase = "save" => Held' = Held /\ req'[c].rec.id = requests
    PROVE  IdsOK'
<1>1. requests \in Nat /\ Held \subseteq Doc
    BY HeldAreDocs DEF SvcTypeOK
<1>2. \A r, s \in Held : r.id = s.id => r = s
    BY DEF IdsOK, Held
<1>3. \A r \in Held' : r.id < requests'
    BY <1>1 DEF IdsOK, Doc
<1>4. \A d \in Clients : req[d].phase # "idle" => req[d].rec \in Doc /\ req[d].rec.id < requests
    BY DEF RequestsOK, RequestSound
<1>5. ASSUME NEW d \in Clients, req'[d].phase = "delete", NEW r \in Held', r.id = req'[d].rec.id
      PROVE  r.fp = req'[d].rec.fp
    <2>1. CASE d = c
        BY <1>2, <1>5, <2>1
    <2>2. CASE d # c
        <3>1. req[d].phase = "delete" /\ r.id = req[d].rec.id /\ req'[d] = req[d]
            BY <1>5, <2>2
        <3>2. PICK s \in Held : s.id = r.id /\ s.fp = r.fp
            BY <2>2, <3>1
        <3> QED
            BY <3>1, <3>2 DEF IdsOK
    <2> QED
        BY <2>1, <2>2
<1>6. ASSUME NEW d \in Clients, req'[d].phase = "save", NEW r \in Held'
      PROVE  r.id # req'[d].rec.id
    <2>1. CASE d = c
        <3>1. r \in Held /\ req'[d].rec.id = requests
            BY <1>6, <2>1
        <3>2. r.id < requests /\ r.id \in Nat
            BY <1>1, <3>1 DEF IdsOK, Doc
        <3> QED
            BY <1>1, <3>1, <3>2
    <2>2. CASE d # c
        <3>1. req[d].phase = "save" /\ req'[d] = req[d]
            BY <1>6, <2>2
        <3> QED
            BY <2>2, <3>1 DEF IdsOK
    <2> QED
        BY <2>1, <2>2
<1>7. ASSUME NEW d \in Clients, req'[d].phase = "save",
             NEW e \in Clients \ {d}, req'[e].phase \in {"save", "delete"}
      PROVE  req'[e].rec.id # req'[d].rec.id
    <2>1. CASE d = c
        <3>1. req'[e] = req[e] /\ req'[d].rec.id = requests
            BY <1>7, <2>1
        <3>2. req[e].rec.id < requests /\ req[e].rec.id \in Nat
            BY <1>4, <1>7, <3>1 DEF Doc
        <3> QED
            BY <1>1, <3>1, <3>2
    <2>2. CASE d # c /\ e # c
        BY <1>7, <2>2 DEF IdsOK
    <2>3. CASE d # c /\ e = c
        <3>1. req[d].phase = "save" /\ req'[d] = req[d]
            BY <1>7, <2>3
        <3>2. CASE req'[c].phase = "delete"
            BY <2>3, <3>1, <3>2 DEF IdsOK
        <3>3. CASE req'[c].phase = "save"
            <4>1. req[d].rec.id < requests /\ req[d].rec.id \in Nat /\ req'[c].rec.id = requests
                BY <1>4, <3>1, <3>3 DEF Doc
            <4> QED
                BY <1>1, <2>3, <3>1, <4>1
        <3> QED
            BY <1>7, <2>3, <3>2, <3>3
    <2> QED
        BY <2>1, <2>2, <2>3
<1> QED
    BY <1>3, <1>5, <1>6, <1>7 DEF IdsOK

\* Owners stay said: a record that appears names an owner its request is about to
\* announce, and a request that had one to announce did, still has, or lost it.
LEMMA SaidKept ==
    ASSUME OwnersSaid, NEW c \in Clients, \A d \in Clients \ {c} : req'[d] = req[d],
           lost \subseteq lost',
           \A f, o : Announced(f, o) => Announced(f, o)',
           \A r \in Held' :
               \/ r \in Held \/ r.owner = NoOwner
               \/ req'[c].phase = "notify" /\ req'[c].rec.fp = r.fp /\ req'[c].event.owner = r.owner,
           req[c].phase = "notify" =>
               \/ req'[c] = req[c]
               \/ req[c].rec.fp \in lost'
               \/ \E f, o : f = req[c].rec.fp /\ o = req[c].event.owner /\ Announced(f, o)'
    PROVE  OwnersSaid'
<1> SUFFICES ASSUME NEW r \in Held', r.fp \notin lost', r.owner # NoOwner
             PROVE  Announced(r.fp, r.owner)' \/ ToAnnounce(r.fp, r.owner)'
    BY DEF OwnersSaid
<1>1. CASE r \in Held
    <2>1. CASE Announced(r.fp, r.owner)
        BY <2>1
    <2>2. CASE ToAnnounce(r.fp, r.owner)
        <3>1. PICK d \in Clients :
                  req[d].phase = "notify" /\ req[d].rec.fp = r.fp /\ req[d].event.owner = r.owner
            BY <2>2 DEF ToAnnounce
        <3>2. CASE req'[d] = req[d]
            BY <3>1, <3>2 DEF ToAnnounce
        <3>3. CASE req'[d] # req[d]
            <4>1. d = c
                BY <3>3
            <4>2. \/ req[c].rec.fp \in lost'
                  \/ \E f, o : f = req[c].rec.fp /\ o = req[c].event.owner /\ Announced(f, o)'
                BY <3>1, <3>3, <4>1
            <4>3. req[c].rec.fp = r.fp /\ req[c].event.owner = r.owner
                BY <3>1, <4>1
            <4> QED
                BY <4>2, <4>3
        <3> QED
            BY <3>2, <3>3
    <2> QED
        BY <1>1, <2>1, <2>2 DEF OwnersSaid
<1>2. CASE r \notin Held
    BY <1>2 DEF ToAnnounce
<1> QED
    BY <1>1, <1>2

\* The broker's append: what was said stays said, and the event says its owner.
LEMMA AppendSays ==
    ASSUME LogTypeOK, NEW p \in Partitions, NEW e \in OwnershipEvent, Append2Partition(p, e)
    PROVE  /\ LogTypeOK'
           /\ \A f, o : Announced(f, o) => Announced(f, o)'
           /\ \A f : Decides(e, f) => Announced(f, e.owner)'
<1>1. /\ log[p] \in Seq(OwnershipEvent)
      /\ log'[p] = Append(log[p], e) /\ \A q \in Partitions \ {p} : log'[q] = log[q]
    BY DEF LogTypeOK, Append2Partition
<1>2. LogTypeOK'
    BY <1>1 DEF LogTypeOK, Append2Partition
<1>3. /\ Len(log[p]) \in Nat /\ Len(log'[p]) = Len(log[p]) + 1
      /\ \A i \in 1 .. Len(log[p]) : log'[p][i] = log[p][i]
      /\ log'[p][Len(log[p]) + 1] = e
    BY <1>1
<1>4. ASSUME NEW f, NEW q \in Partitions, NEW i \in OffsetsOf(q, f)
      PROVE  i \in OffsetsOf(q, f)' /\ log'[q][i + 1] = log[q][i + 1]
    <2>1. CASE q = p
        <3>1. i \in 0 .. Len(log[p]) - 1 /\ Decides(log[p][i + 1], f)
            BY <1>4, <2>1 DEF OffsetsOf
        <3>2. i \in 0 .. Len(log'[p]) - 1 /\ log'[p][i + 1] = log[p][i + 1]
            BY <1>3, <3>1
        <3> QED
            BY <2>1, <3>1, <3>2 DEF OffsetsOf
    <2>2. CASE q # p
        BY <1>1, <1>4, <2>2 DEF OffsetsOf
    <2> QED
        BY <2>1, <2>2
<1>5. ASSUME NEW f, NEW o, Announced(f, o)
      PROVE  Announced(f, o)'
    <2>1. PICK q \in Partitions : \E i \in OffsetsOf(q, f) : log[q][i + 1].owner = o
        BY <1>5 DEF Announced
    <2>2. PICK i \in OffsetsOf(q, f) : log[q][i + 1].owner = o
        BY <2>1
    <2>3. i \in OffsetsOf(q, f)' /\ log'[q][i + 1] = log[q][i + 1]
        BY <1>4
    <2> QED
        BY <2>2, <2>3 DEF Announced
<1>6. ASSUME NEW f, Decides(e, f)
      PROVE  Announced(f, e.owner)'
    <2>1. Len(log[p]) \in OffsetsOf(p, f)'
        BY <1>3, <1>6 DEF OffsetsOf
    <2> QED
        BY <1>3, <2>1 DEF Announced
<1> QED
    BY <1>2, <1>5, <1>6

\* A request that begins on a certificate nobody is at work on finds it settled.
LEMMA BeginsAlone ==
    ASSUME SvcInv, NEW c \in Clients, NEW f \in Fingerprints, Begin(c, f)
    PROVE  /\ requests \in Nat /\ requests' = requests + 1 /\ requests' \in Nat /\ requests < requests'
           /\ requests <= requests' /\ req[c].phase = "idle"
           /\ contended \subseteq contended' /\ contended' \subseteq Fingerprints
           /\ UNCHANGED <<announced, lost, losses, retries>>
           /\ f \notin lost' \cup contended' =>
                  InProgress(f) = {} /\ AtRest(f) /\ \A r, s \in RecsOf(f) : r = s
<1>1. requests \in Nat /\ contended \subseteq Fingerprints
    BY DEF SvcInv, SvcTypeOK
<1>2. ASSUME f \notin lost' \cup contended'
      PROVE  InProgress(f) = {} /\ InStep(f)
    BY <1>2 DEF Begin, SvcInv, AllInStep
<1>3. ASSUME InProgress(f) = {}, InStep(f)
      PROVE  AtRest(f) /\ \A r, s \in RecsOf(f) : r = s
    BY <1>3 DEF InStep
<1> QED
    BY <1>1, <1>2, <1>3 DEF Begin

\* A request at work on a certificate where requests follow one another is alone.
LEMMA WorksAlone ==
    ASSUME SvcInv, NEW c \in Clients, req[c].phase # "idle", NEW f, f = req[c].rec.fp
    PROVE  /\ f \in Fingerprints /\ req[c].rec \in Doc /\ req[c].rec.id < requests
           /\ f \notin lost \cup contended =>
                  InProgress(f) \subseteq {c} /\ InStep(f) /\ Accords(f, req[c])
<1>1. req[c].rec \in Doc /\ req[c].rec.id < requests
    BY DEF SvcInv, RequestsOK, RequestSound
<1>2. f \in Fingerprints /\ c \in InProgress(f)
    BY <1>1 DEF Doc, InProgress
<1>3. ASSUME f \notin lost \cup contended
      PROVE  InStep(f)
    BY <1>2, <1>3 DEF SvcInv, AllInStep
<1> QED
    BY <1>1, <1>2, <1>3 DEF InStep

\* A request that announces what the records have become keeps a certificate in step.
LEMMA AnnouncesInStep ==
    ASSUME NEW c \in Clients, \A d \in Clients \ {c} : req'[d] = req[d],
           NEW f, InProgress(f) \subseteq {c},
           \A r, s \in RecsOf(f)' : r = s,
           NEW d \in Doc, d.fp = f, NEW prev, NEW o, Announcing(req'[c], d, prev, o),
           \/ o \in Applications
           \/ RecsOf(f)' = {} /\ o = NoOwner
           \/ RecsOf(f)' # {} /\ \A r \in RecsOf(f)' : r.owner = o,
           prev = o => AtRest(f)'
    PROVE  InStep(f)'
<1>1. CASE prev = o
    <2>1. req'[c].phase = "idle"
        BY <1>1, IdleRequest DEF Announcing
    <2>2. c \notin InProgress(f)'
        BY <2>1 DEF InProgress
    <2> QED
        BY <1>1, <2>2, AtWorkAlone
<1>2. CASE prev # o
    <2>1. req'[c].phase = "notify" /\ req'[c].event.owner = o
        BY <1>2 DEF Announcing
    <2>2. Accords(f, req[c])'
        BY <2>1 DEF Accords
    <2>3. c \in InProgress(f)'
        BY <1>2 DEF Announcing, InProgress
    <2> QED
        BY <2>1, <2>2, <2>3, AtWorkAlone
<1> QED
    BY <1>1, <1>2

\* While the log stays, what it says does.
LEMMA LogStays == ASSUME UNCHANGED log PROVE \A f, o : Announced(f, o) => Announced(f, o)'
BY DEF Announced, OffsetsOf

\* The identities of the records when one is saved.
LEMMA AppendIds ==
    ASSUME docs \in Seq(Doc), NEW d \in Doc, docs' = Append(docs, d),
           \A r \in Held : r.id # d.id,
           \A j, k \in DOMAIN docs : docs[j].id = docs[k].id => j = k
    PROVE  \A j, k \in DOMAIN docs' : docs'[j].id = docs'[k].id => j = k
<1>1. /\ DOMAIN docs' = DOMAIN docs \cup {Len(docs) + 1}
      /\ \A i \in DOMAIN docs : docs'[i] = docs[i]
      /\ docs'[Len(docs) + 1] = d
    OBVIOUS
<1>2. \A i \in DOMAIN docs : docs[i].id # d.id
    BY DEF Held
<1> QED
    BY <1>1, <1>2

-----------------------------------------------------------------------------
(* Each step of the service *)

\* What a request in hand knows of the types.
LEMMA NewDocType ==
    ASSUME SvcTypeOK, NEW f \in Fingerprints, NEW o \in Devices \cup {NoOwner}, NEW i \in BOOLEAN
    PROVE  /\ NewDoc(f, o, i) \in Doc /\ NewDoc(f, o, i).id = requests
           /\ NewDoc(f, o, i).fp = f /\ NewDoc(f, o, i).owner = o
BY DEF SvcTypeOK, NewDoc, Doc

\* The steps that issue a certificate,
LEMMA GenerateKeeps ==
    ASSUME SvcInv, NEW c \in Clients, NEW f \in Fingerprints, NEW o \in Devices \cup {NoOwner},
           GenerateCertificate(c, f, o)
    PROVE  SvcInv'
<1> DEFINE d == NewDoc(f, o, TRUE)
           w == NotifyCreation(d, o)
<1>1. /\ SvcTypeOK /\ RequestsOK /\ IdsOK /\ IssuedOK /\ AllInStep /\ OwnersSaid
      /\ docs \in Seq(Doc)
    BY DEF SvcInv, SvcTypeOK
<1>2. /\ Begin(c, f) /\ f \notin External \cup issued /\ issued' = issued \cup {f}
      /\ docs' = Append(docs, d) /\ req' = [req EXCEPT ![c] = w] /\ log' = log
    BY DEF GenerateCertificate
<1>3. /\ requests \in Nat /\ requests' = requests + 1 /\ requests' \in Nat /\ requests < requests'
      /\ requests <= requests' /\ req[c].phase = "idle"
      /\ contended \subseteq contended' /\ contended' \subseteq Fingerprints
      /\ UNCHANGED <<announced, lost, losses, retries>>
      /\ f \notin lost' \cup contended' => InProgress(f) = {} /\ AtRest(f)
    BY <1>2, BeginsAlone
<1>4. d \in Doc /\ d.id = requests /\ d.fp = f /\ d.owner = o
    BY <1>1, NewDocType
<1>5. Announcing(w, d, NoOwner, o)
    BY <1>4, CreationAnnounces DEF Owners
<1> HIDE DEF d, w
<1>5a. d.id < requests'
    BY <1>3, <1>4
<1>6. RequestSound(w, requests') /\ w.phase \in {"idle", "notify"} /\ w \in Request
    BY <1>3, <1>4, <1>5, <1>5a, AnnouncingIsWellFormed
<1>7. /\ req' \in [Clients -> Request] /\ RequestsOK'
      /\ req'[c] = w /\ \A e \in Clients \ {c} : req'[e] = req[e]
    BY <1>1, <1>2, <1>3, <1>6, RequestsKept
<1>8. /\ docs' \in Seq(Doc) /\ Held' = Held \cup {d}
      /\ \A g : RecsOf(g)' = IF f = g THEN RecsOf(g) \cup {d} ELSE RecsOf(g)
    BY <1>1, <1>2, <1>4, AppendHeld
<1>9. SvcTypeOK'
    BY <1>1, <1>2, <1>3, <1>7, <1>8 DEF SvcTypeOK, LogTypeOK
<1>10. IdsOK'
    <2>1. Held \subseteq Doc /\ \A r \in Held : r.id < requests
        BY <1>1, HeldAreDocs DEF IdsOK
    <2>2. \A r \in Held : r.id # d.id
        BY <1>3, <1>4, <2>1 DEF Doc
    <2>3. \A j, k \in DOMAIN docs' : docs'[j].id = docs'[k].id => j = k
        BY <1>1, <1>2, <1>4, <2>2, AppendIds DEF IdsOK
    <2>4. \A e \in Clients : req[e].phase \in {"save", "delete"} => req[e].rec.id # d.id
        BY <1>1, <1>3, <1>4 DEF RequestsOK, RequestSound, Doc
    <2>5. requests' \in Nat /\ requests <= requests' /\ d.id < requests'
        BY <1>3, <1>4
    <2> QED
        BY <1>1, <1>6, <1>7, <1>8, <2>3, <2>4, <2>5, IdsKept
<1>11. IssuedOK'
    BY <1>1, <1>2, <1>4, <1>8 DEF IssuedOK
<1>12. AllInStep'
    <2>1. ASSUME f \notin lost' \cup contended'
          PROVE  InStep(f)'
        <3>1. RecsOf(f) = {}
            BY <1>1, <1>2 DEF RecsOf, IssuedOK
        <3>2. RecsOf(f)' = {d}
            BY <1>8, <3>1
        <3>3. NoOwner = o => AtRest(f)'
            BY <1>3, <1>4, <2>1, <3>1, <3>2 DEF AtRest, LogSays
        <3> QED
            BY <1>3, <1>4, <1>5, <1>7, <2>1, <3>2, <3>3, AnnouncesInStep
    <2>2. req'[c].phase = "idle" \/ req'[c].rec.fp = f
        BY <1>4, <1>5, <1>7, IdleRequest DEF Announcing
    <2> QED
        BY <1>1, <1>3, <1>7, <1>8, <2>1, <2>2, OthersInStep
<1>13. OwnersSaid'
    <2>1. d.owner # NoOwner =>
              w.phase = "notify" /\ w.rec.fp = d.fp /\ w.event.owner = d.owner
        BY <1>4, <1>5 DEF Announcing
    <2> QED
        BY <1>1, <1>2, <1>3, <1>7, <1>8, <2>1, LogStays, SaidKept
<1> QED
    BY <1>7, <1>9, <1>10, <1>11, <1>12, <1>13 DEF SvcInv

\* and that revoke one which was never registered.
LEMMA ThrowAwayKeeps ==
    ASSUME SvcInv, NEW c \in Clients, NEW f \in Fingerprints, NEW a \in Applications,
           ThrowAwayCertificate(c, f, a)
    PROVE  SvcInv'
<1> DEFINE d == NewDoc(f, NoOwner, TRUE)
           w == NotifyCreation(d, a)
<1>1. /\ SvcTypeOK /\ RequestsOK /\ IdsOK /\ IssuedOK /\ AllInStep /\ OwnersSaid
      /\ docs \in Seq(Doc)
    BY DEF SvcInv, SvcTypeOK
<1>2. /\ Begin(c, f) /\ f \notin External \cup issued /\ issued' = issued \cup {f}
      /\ docs' = docs /\ req' = [req EXCEPT ![c] = w] /\ log' = log
    BY DEF ThrowAwayCertificate
<1>3. /\ requests \in Nat /\ requests' = requests + 1 /\ requests' \in Nat /\ requests < requests'
      /\ requests <= requests' /\ req[c].phase = "idle"
      /\ contended \subseteq contended' /\ contended' \subseteq Fingerprints
      /\ UNCHANGED <<announced, lost, losses, retries>>
      /\ f \notin lost' \cup contended' => InProgress(f) = {} /\ AtRest(f) /\ \A r, s \in RecsOf(f) : r = s
    BY <1>2, BeginsAlone
<1>4. d \in Doc /\ d.id = requests /\ d.fp = f /\ a # NoOwner
    BY <1>1, NewDocType, OwnersAssumption DEF Owners
<1>5. Announcing(w, d, NoOwner, a)
    BY <1>4, CreationAnnounces DEF Owners
<1> HIDE DEF d, w
<1>5a. d.id < requests'
    BY <1>3, <1>4
<1>6. RequestSound(w, requests') /\ w.phase \in {"idle", "notify"} /\ w \in Request
    BY <1>3, <1>4, <1>5, <1>5a, AnnouncingIsWellFormed
<1>7. /\ req' \in [Clients -> Request] /\ RequestsOK'
      /\ req'[c] = w /\ \A e \in Clients \ {c} : req'[e] = req[e]
    BY <1>1, <1>2, <1>3, <1>6, RequestsKept
<1>8. Held' = Held /\ \A g : RecsOf(g)' = RecsOf(g)
    BY <1>2 DEF Held, RecsOf
<1>9. SvcTypeOK'
    BY <1>1, <1>2, <1>3, <1>7 DEF SvcTypeOK, LogTypeOK
<1>10. IdsOK'
    BY <1>1, <1>2, <1>3, <1>6, <1>7, <1>8, IdsKept DEF IdsOK
<1>11. IssuedOK'
    BY <1>1, <1>2, <1>8 DEF IssuedOK
<1>12. AllInStep'
    <2>1. ASSUME f \notin lost' \cup contended'
          PROVE  InStep(f)'
        BY <1>3, <1>4, <1>5, <1>7, <1>8, <2>1, AnnouncesInStep
    <2>2. req'[c].phase = "idle" \/ req'[c].rec.fp = f
        BY <1>4, <1>5, <1>7, IdleRequest DEF Announcing
    <2> QED
        BY <1>1, <1>3, <1>7, <1>8, <2>1, <2>2, OthersInStep
<1>13. OwnersSaid'
    BY <1>1, <1>2, <1>3, <1>7, <1>8, LogStays, SaidKept
<1> QED
    BY <1>7, <1>9, <1>10, <1>11, <1>12, <1>13 DEF SvcInv

\* The registration and the deletion begin with what they read.
LEMMA ReadKeeps ==
    ASSUME SvcInv, NEW c \in Clients, NEW f \in Fingerprints, Begin(c, f),
           NEW w \in Request, req' = [req EXCEPT ![c] = w], UNCHANGED <<log, docs, issued>>,
           RequestSound(w, requests'), w.rec.fp = f, w.phase \in {"save", "delete"},
           w.phase = "save" => w.rec.id = requests /\ RecsOf(f) = {},
           w.phase = "delete" => w.rec \in RecsOf(f)
    PROVE  SvcInv'
<1>1. /\ SvcTypeOK /\ RequestsOK /\ IdsOK /\ IssuedOK /\ AllInStep /\ OwnersSaid
      /\ docs \in Seq(Doc)
    BY DEF SvcInv, SvcTypeOK
<1>2. /\ requests \in Nat /\ requests' = requests + 1 /\ requests' \in Nat /\ requests < requests'
      /\ requests <= requests' /\ req[c].phase = "idle"
      /\ contended \subseteq contended' /\ contended' \subseteq Fingerprints
      /\ UNCHANGED <<announced, lost, losses, retries>>
      /\ f \notin lost' \cup contended' => InProgress(f) = {} /\ AtRest(f) /\ \A r, s \in RecsOf(f) : r = s
    BY BeginsAlone
<1>3. /\ req' \in [Clients -> Request] /\ RequestsOK'
      /\ req'[c] = w /\ \A e \in Clients \ {c} : req'[e] = req[e]
    BY <1>1, <1>2, RequestsKept
<1>4. Held' = Held /\ \A g : RecsOf(g)' = RecsOf(g)
    BY DEF Held, RecsOf
<1>5. SvcTypeOK'
    BY <1>1, <1>2, <1>3 DEF SvcTypeOK, LogTypeOK
<1>6. IdsOK'
    BY <1>1, <1>2, <1>3, <1>4, IdsKept DEF IdsOK, RecsOf
<1>7. IssuedOK'
    BY <1>1, <1>4 DEF IssuedOK
<1>8. AllInStep'
    <2>1. ASSUME f \notin lost' \cup contended'
          PROVE  InStep(f)'
        <3>1. Accords(f, w)'
            BY <1>2, <1>4, <2>1 DEF Accords
        <3>2. AtRest(f)'
            BY <1>2, <1>4, <2>1 DEF AtRest, LogSays
        <3>3. Accords(f, req[c])'
            BY <1>2, <1>3, <1>4, <2>1 DEF Accords
        <3> QED
            BY <1>2, <1>3, <1>4, <2>1, <3>2, <3>3, AtWorkAlone
    <2> QED
        BY <1>1, <1>2, <1>3, <1>4, <2>1, OthersInStep
<1>9. OwnersSaid'
    BY <1>1, <1>2, <1>3, <1>4, LogStays, SaidKept
<1> QED
    BY <1>3, <1>5, <1>6, <1>7, <1>8, <1>9 DEF SvcInv

\* A registration that finds no record holds the one it will save.
LEMMA RegisterChecksKeeps ==
    ASSUME SvcInv, NEW c \in Clients, NEW f \in Fingerprints, NEW o \in Devices \cup {NoOwner},
           RegisterChecks(c, f, o)
    PROVE  SvcInv'
<1> DEFINE d == NewDoc(f, o, FALSE)
           w == Saving(d)
<1>1. /\ Begin(c, f) /\ f \in External /\ RecordsOf(f) = {}
      /\ req' = [req EXCEPT ![c] = w] /\ UNCHANGED <<log, docs, issued>>
    BY DEF RegisterChecks
<1>2. d \in Doc /\ d.id = requests /\ d.fp = f
    BY NewDocType DEF SvcInv
<1> HIDE DEF d
<1>3. w \in Request /\ w.phase = "save" /\ w.rec = d
    BY <1>2 DEF Saving, Idle, Request
<1> HIDE DEF w
<1>4. requests < requests'
    BY <1>1, BeginsAlone
<1>5. RequestSound(w, requests')
    BY <1>1, <1>2, <1>3, <1>4 DEF RequestSound
<1>6. RecsOf(f) = {}
    BY <1>1, RecordsAsSet
<1> QED
    BY <1>1, <1>2, <1>3, <1>5, <1>6, ReadKeeps

\* A deletion holds on to the record it read.
LEMMA DeleteReadsKeeps ==
    ASSUME SvcInv, NEW c \in Clients, NEW f \in Fingerprints, DeleteReads(c, f)
    PROVE  SvcInv'
<1> DEFINE d == docs[FirstOf(f)]
           w == Deleting(d)
<1>1. /\ Begin(c, f) /\ RecordsOf(f) # {}
      /\ req' = [req EXCEPT ![c] = w] /\ UNCHANGED <<log, docs, issued>>
    BY DEF DeleteReads
<1>2. docs \in Seq(Doc) /\ IdsOK
    BY DEF SvcInv, SvcTypeOK
<1>3. d \in RecsOf(f)
    BY <1>1, <1>2, FirstIsRecord
<1> HIDE DEF d
<1>4. d \in Doc /\ d.fp = f /\ d.id < requests
    BY <1>2, <1>3, HeldAreDocs DEF RecsOf, IdsOK
<1>5. w \in Request /\ w.phase = "delete" /\ w.rec = d
    BY <1>4 DEF Deleting, Idle, Request
<1> HIDE DEF w
<1>6. requests \in Nat /\ requests < requests' /\ requests' \in Nat
    BY <1>1, BeginsAlone
<1>7. RequestSound(w, requests')
    BY <1>4, <1>5, <1>6 DEF RequestSound, Doc
<1> QED
    BY <1>1, <1>3, <1>4, <1>5, <1>7, ReadKeeps

\* The steps that change the records, or the request alone, without a Begin.
Continues == UNCHANGED <<log, issued, announced, lost, contended, requests, losses, retries>>

\* A registration saves its record, and has an owner to announce or ends.
LEMMA RegisterSavesKeeps ==
    ASSUME SvcInv, NEW c \in Clients, RegisterSaves(c)
    PROVE  SvcInv'
<1>0. PICK d, f : d = req[c].rec /\ f = d.fp
    OBVIOUS
<1> DEFINE w == NotifyCreation(d, d.owner)
<1>1. /\ SvcTypeOK /\ RequestsOK /\ IdsOK /\ IssuedOK /\ AllInStep /\ OwnersSaid
      /\ docs \in Seq(Doc) /\ requests \in Nat /\ req \in [Clients -> Request]
    BY DEF SvcInv, SvcTypeOK
<1>2. /\ req[c].phase = "save" /\ docs' = Append(docs, d) /\ Continues
      /\ req' = [req EXCEPT ![c] = w]
    BY <1>0, <1>1 DEF RegisterSaves, Continues
<1>3. /\ f \in Fingerprints /\ d \in Doc /\ d.id < requests
      /\ f \notin lost \cup contended =>
             InProgress(f) \subseteq {c} /\ InStep(f) /\ Accords(f, req[c])
    BY <1>0, <1>2, WorksAlone
<1>4. f \in External
    BY <1>0, <1>1, <1>2 DEF RequestsOK, RequestSound
<1>5. /\ \A r \in Held : r.id # d.id
      /\ \A e \in Clients \ {c} : req[e].phase \in {"save", "delete"} => req[e].rec.id # d.id
    BY <1>0, <1>1, <1>2 DEF IdsOK
<1>6. d.owner \in Owners \cup {NoOwner} /\ d.owner \in Devices \cup {NoOwner}
    BY <1>3 DEF Doc, Owners
<1>7. Announcing(w, d, NoOwner, d.owner)
    BY <1>3, <1>6, CreationAnnounces
<1>7a. req[c].phase # "notify" /\ req[c].rec.fp = f /\ req[c].rec = d /\ f = d.fp
    BY <1>0, <1>2
<1> HIDE DEF w
<1>8. RequestSound(w, requests) /\ w.phase \in {"idle", "notify"} /\ w \in Request
    BY <1>1, <1>3, <1>7, AnnouncingIsWellFormed
<1>9. requests' = requests /\ requests' \in Nat /\ requests <= requests'
    BY <1>1, <1>2 DEF Continues
<1>10. /\ req' \in [Clients -> Request] /\ RequestsOK'
       /\ req'[c] = w /\ \A e \in Clients \ {c} : req'[e] = req[e]
    BY <1>1, <1>2, <1>8, <1>9, RequestsKept
<1>11. /\ docs' \in Seq(Doc) /\ Held' = Held \cup {d}
       /\ \A g : RecsOf(g)' = IF f = g THEN RecsOf(g) \cup {d} ELSE RecsOf(g)
    BY <1>1, <1>2, <1>3, <1>7a, AppendHeld
<1>12. SvcTypeOK'
    BY <1>1, <1>2, <1>10, <1>11 DEF SvcTypeOK, LogTypeOK, Continues
<1>13. IdsOK'
    <2>1. \A j, k \in DOMAIN docs' : docs'[j].id = docs'[k].id => j = k
        BY <1>1, <1>2, <1>3, <1>5, AppendIds DEF IdsOK
    <2>2. d.id < requests'
        BY <1>3, <1>9
    <2> QED
        BY <1>1, <1>5, <1>8, <1>9, <1>10, <1>11, <2>1, <2>2, IdsKept
<1>14. IssuedOK'
    BY <1>1, <1>2, <1>4, <1>7a, <1>11 DEF IssuedOK, Continues
<1>15. AllInStep'
    <2>0. announced' = announced /\ lost' = lost /\ contended' = contended
        BY <1>2 DEF Continues
    <2>1. ASSUME f \notin lost' \cup contended'
          PROVE  InStep(f)'
        <3>1. InProgress(f) \subseteq {c} /\ InStep(f) /\ Accords(f, req[c])
            BY <1>3, <2>0, <2>1
        <3>2. RecsOf(f) = {}
            BY <1>2, <3>1 DEF Accords
        <3>3. RecsOf(f)' = {d}
            BY <1>11, <3>2
        <3>4. AtRest(f)
            BY <1>2, <3>1 DEF InStep
        <3>5. NoOwner = d.owner => AtRest(f)'
            BY <2>0, <3>2, <3>3, <3>4 DEF AtRest, LogSays
        <3> QED
            BY <1>3, <1>7, <1>7a, <1>10, <3>1, <3>3, <3>5, AnnouncesInStep
    <2>2. req'[c].phase = "idle" \/ req'[c].rec.fp = f
        BY <1>7, <1>7a, <1>10, IdleRequest DEF Announcing
    <2> QED
        BY <1>1, <1>7a, <1>10, <1>11, <2>0, <2>1, <2>2, OthersInStep
<1>16. OwnersSaid'
    <2>1. d.owner # NoOwner =>
              w.phase = "notify" /\ w.rec.fp = d.fp /\ w.event.owner = d.owner
        BY <1>7 DEF Announcing
    <2>2. log' = log /\ lost' = lost
        BY <1>2 DEF Continues
    <2> QED
        BY <1>1, <1>7a, <1>10, <1>11, <2>1, <2>2, LogStays, SaidKept
<1> QED
    BY <1>10, <1>12, <1>13, <1>14, <1>15, <1>16 DEF SvcInv

\* One atomic update: the request announces the difference with the record as it was.
LEMMA ChangeOwnershipKeeps ==
    ASSUME SvcInv, NEW c \in Clients, NEW f \in Fingerprints, NEW o \in Devices \cup {NoOwner},
           ChangeOwnership(c, f, o)
    PROVE  SvcInv'
<1> DEFINE i == FirstOf(f)
           d == docs[i]
           n == [d EXCEPT !.owner = o]
           w == NotifyChange(d, d.owner, o)
<1>1. /\ SvcTypeOK /\ RequestsOK /\ IdsOK /\ IssuedOK /\ AllInStep /\ OwnersSaid
      /\ docs \in Seq(Doc)
    BY DEF SvcInv, SvcTypeOK
<1>2. /\ Begin(c, f) /\ RecordsOf(f) # {}
      /\ docs' = [docs EXCEPT ![i].owner = o]
      /\ req' = [req EXCEPT ![c] = w] /\ UNCHANGED <<log, issued>>
    BY DEF ChangeOwnership
<1>3. /\ requests \in Nat /\ requests' = requests + 1 /\ requests' \in Nat /\ requests < requests'
      /\ requests <= requests' /\ req[c].phase = "idle"
      /\ contended \subseteq contended' /\ contended' \subseteq Fingerprints
      /\ UNCHANGED <<announced, lost, losses, retries>>
      /\ f \notin lost' \cup contended' => InProgress(f) = {} /\ AtRest(f) /\ \A r, s \in RecsOf(f) : r = s
    BY <1>2, BeginsAlone
<1>4. i \in DOMAIN docs /\ d.fp = f /\ d \in RecsOf(f)
    BY <1>1, <1>2, FirstIsRecord
<1>5. /\ docs' \in Seq(Doc) /\ Held' = (Held \ {d}) \cup {n}
      /\ \A j, k \in DOMAIN docs' : docs'[j].id = docs'[k].id => j = k
    BY <1>1, <1>2, <1>4, UpdateHeld DEF IdsOK
<1> HIDE DEF i
<1>6. d \in Doc /\ d \in Held /\ d.id < requests
    BY <1>1, <1>4, HeldAreDocs DEF RecsOf, IdsOK
<1> HIDE DEF d
<1>7. /\ n \in Doc /\ n.id = d.id /\ n.fp = f /\ n.owner = o
      /\ d.owner = o => n = d
      /\ d.owner \in Owners \cup {NoOwner} /\ o \in Owners \cup {NoOwner}
    BY <1>4, <1>6 DEF Doc, Owners
<1>8. Announcing(w, d, d.owner, o)
    BY <1>6, <1>7, ChangeAnnounces
<1> HIDE DEF n, w
<1>8a. d.id < requests'
    BY <1>3, <1>6 DEF Doc
<1>9. RequestSound(w, requests') /\ w.phase \in {"idle", "notify"} /\ w \in Request
    BY <1>3, <1>6, <1>8, <1>8a, AnnouncingIsWellFormed
<1>10. /\ req' \in [Clients -> Request] /\ RequestsOK'
       /\ req'[c] = w /\ \A e \in Clients \ {c} : req'[e] = req[e]
    BY <1>1, <1>2, <1>3, <1>9, RequestsKept
<1>11. \A g : RecsOf(g)' = IF g = f THEN (RecsOf(g) \ {d}) \cup {n} ELSE RecsOf(g)
    BY <1>4, <1>5, <1>7 DEF RecsOf
<1>12. SvcTypeOK'
    BY <1>1, <1>2, <1>3, <1>5, <1>10 DEF SvcTypeOK, LogTypeOK
<1>13. IdsOK'
    <2>1. \A r \in Held' : \E s \in Held : s.id = r.id /\ s.fp = r.fp
        BY <1>4, <1>5, <1>6, <1>7
    <2> QED
        BY <1>1, <1>3, <1>5, <1>9, <1>10, <2>1, IdsKept
<1>14. IssuedOK'
    BY <1>1, <1>2, <1>4, <1>5, <1>6, <1>7 DEF IssuedOK
<1>15. AllInStep'
    <2>1. ASSUME f \notin lost' \cup contended'
          PROVE  InStep(f)'
        <3>1. RecsOf(f) = {d}
            BY <1>3, <1>4, <2>1
        <3>2. RecsOf(f)' = {n}
            BY <1>11, <3>1
        <3>3. d.owner = o => AtRest(f)'
            BY <1>3, <1>7, <2>1, <3>1, <3>2 DEF AtRest, LogSays
        <3>4. InProgress(f) \subseteq {c} /\ d.fp = f
            BY <1>3, <1>4, <2>1
        <3>5. RecsOf(f)' # {} /\ (\A r \in RecsOf(f)' : r.owner = o) /\ \A r, s \in RecsOf(f)' : r = s
            BY <1>7, <3>2
        <3> QED
            BY <1>6, <1>8, <1>10, <3>3, <3>4, <3>5, AnnouncesInStep
    <2>2. req'[c].phase = "idle" \/ req'[c].rec.fp = f
        BY <1>4, <1>8, <1>10, IdleRequest DEF Announcing
    <2> QED
        BY <1>1, <1>3, <1>10, <1>11, <2>1, <2>2, OthersInStep
<1>16. OwnersSaid'
    <2>1. ASSUME NEW r \in Held'
          PROVE  \/ r \in Held \/ r.owner = NoOwner
                 \/ w.phase = "notify" /\ w.rec.fp = r.fp /\ w.event.owner = r.owner
        BY <1>4, <1>5, <1>6, <1>7, <1>8 DEF Announcing
    <2> QED
        BY <1>1, <1>2, <1>3, <1>10, <2>1, LogStays, SaidKept
<1> QED
    BY <1>10, <1>12, <1>13, <1>14, <1>15, <1>16 DEF SvcInv

\* findByIdAndDelete removes the record of that identity, if it is there.
LEMMA RemovesRecord ==
    ASSUME docs \in Seq(Doc), NEW d,
           \A j, k \in DOMAIN docs : docs[j].id = docs[k].id => j = k,
           \/ \E i \in DOMAIN docs : docs[i].id = d.id /\ docs' = Without(docs, i)
           \/ (\A i \in DOMAIN docs : docs[i].id # d.id) /\ docs' = docs
    PROVE  /\ docs' \in Seq(Doc) /\ Held' = {r \in Held : r.id # d.id}
           /\ \A j, k \in DOMAIN docs' : docs'[j].id = docs'[k].id => j = k
<1>1. CASE \E i \in DOMAIN docs : docs[i].id = d.id /\ docs' = Without(docs, i)
    <2>1. PICK i \in DOMAIN docs : docs[i].id = d.id /\ docs' = Without(docs, i)
        BY <1>1
    <2>2. /\ docs' \in Seq(Doc) /\ Held' = Held \ {docs[i]}
          /\ \A j, k \in DOMAIN docs' : docs'[j].id = docs'[k].id => j = k
        BY <2>1, WithoutHeld
    <2>3. \A r \in Held : r.id = d.id <=> r = docs[i]
        BY <2>1 DEF Held
    <2> QED
        BY <2>2, <2>3
<1>2. CASE (\A i \in DOMAIN docs : docs[i].id # d.id) /\ docs' = docs
    BY <1>2 DEF Held
<1> QED
    BY <1>1, <1>2

\* A deletion removes the record it read, if it is still there.
LEMMA DeleteRemovesKeeps ==
    ASSUME SvcInv, NEW c \in Clients, DeleteRemoves(c)
    PROVE  SvcInv'
<1>0. PICK d, f : d = req[c].rec /\ f = d.fp
    OBVIOUS
<1> DEFINE w == IF d.internal THEN Revoking(d) ELSE NotifyRemoval(d, d.owner)
<1>1. /\ SvcTypeOK /\ RequestsOK /\ IdsOK /\ IssuedOK /\ AllInStep /\ OwnersSaid
      /\ docs \in Seq(Doc) /\ requests \in Nat /\ req \in [Clients -> Request]
    BY DEF SvcInv, SvcTypeOK
<1>2. /\ req[c].phase = "delete" /\ Continues /\ req' = [req EXCEPT ![c] = w]
      /\ \/ \E i \in DOMAIN docs : docs[i].id = d.id /\ docs' = Without(docs, i)
         \/ (\A i \in DOMAIN docs : docs[i].id # d.id) /\ docs' = docs
    BY <1>0, <1>1 DEF DeleteRemoves, Continues
<1>3. /\ f \in Fingerprints /\ d \in Doc /\ d.id < requests
      /\ f \notin lost \cup contended =>
             InProgress(f) \subseteq {c} /\ InStep(f) /\ Accords(f, req[c])
    BY <1>0, <1>2, WorksAlone
<1>4. \A r \in Held : r.id = d.id => r.fp = f
    BY <1>0, <1>1, <1>2 DEF IdsOK
<1>5. /\ docs' \in Seq(Doc) /\ Held' = {r \in Held : r.id # d.id}
      /\ \A j, k \in DOMAIN docs' : docs'[j].id = docs'[k].id => j = k
    BY <1>1, <1>2, RemovesRecord DEF IdsOK
<1>6. /\ \A g \in Fingerprints \ {f} : RecsOf(g)' = RecsOf(g)
      /\ RecsOf(f) = {d} => RecsOf(f)' = {}
    BY <1>4, <1>5 DEF RecsOf
<1>7. d.owner \in Owners \cup {NoOwner}
    BY <1>3 DEF Doc, Owners
<1>8. \/ w = Revoking(d)
      \/ Announcing(w, d, d.owner, NoOwner)
    BY <1>3, <1>7, RemovalAnnounces
<1>9. /\ Revoking(d) \in Request /\ Revoking(d).phase = "revoke" /\ Revoking(d).rec = d
      /\ RequestSound(Revoking(d), requests)
    BY <1>3 DEF Revoking, Idle, Request, RequestSound
<1>10. req[c].phase # "notify" /\ req[c].rec.fp = f /\ f = d.fp
    BY <1>0, <1>2
<1> HIDE DEF w
<1>11. RequestSound(w, requests) /\ w.phase \in {"idle", "notify", "revoke"} /\ w \in Request
    BY <1>1, <1>3, <1>8, <1>9, AnnouncingIsWellFormed
<1>12. requests' = requests /\ requests' \in Nat /\ requests <= requests'
    BY <1>1, <1>2 DEF Continues
<1>13. /\ req' \in [Clients -> Request] /\ RequestsOK'
       /\ req'[c] = w /\ \A e \in Clients \ {c} : req'[e] = req[e]
    BY <1>1, <1>2, <1>11, <1>12, RequestsKept
<1>14. SvcTypeOK'
    BY <1>1, <1>2, <1>5, <1>13 DEF SvcTypeOK, LogTypeOK, Continues
<1>15. IdsOK'
    <2>1. \A r \in Held' : r \in Held
        BY <1>5
    <2> QED
        BY <1>1, <1>5, <1>11, <1>12, <1>13, <2>1, IdsKept
<1>16. IssuedOK'
    BY <1>1, <1>2, <1>5 DEF IssuedOK, Continues
<1>17. announced' = announced /\ lost' = lost /\ contended' = contended /\ log' = log
    BY <1>2 DEF Continues
<1>18. AllInStep'
    <2>1. ASSUME f \notin lost' \cup contended'
          PROVE  InStep(f)'
        <3>1. InProgress(f) \subseteq {c} /\ InStep(f) /\ Accords(f, req[c])
            BY <1>3, <1>17, <2>1
        <3>2. RecsOf(f) = {d}
            BY <1>0, <1>2, <3>1 DEF Accords
        <3>3. RecsOf(f)' = {} /\ \A r, s \in RecsOf(f)' : r = s
            BY <1>6, <3>2
        <3>4. LogSays(f, d.owner)
            BY <1>2, <3>1, <3>2 DEF InStep, AtRest
        <3>5. CASE w = Revoking(d)
            <4>1. Accords(f, req[c])'
                BY <1>9, <1>13, <1>17, <3>3, <3>4, <3>5 DEF Accords, LogSays
            <4>2. c \in InProgress(f)' /\ req'[c].phase = "revoke"
                BY <1>9, <1>10, <1>13, <3>5 DEF InProgress
            <4> QED
                BY <1>13, <3>1, <3>3, <4>1, <4>2, AtWorkAlone
        <3>6. CASE Announcing(w, d, d.owner, NoOwner)
            <4>1. d.owner = NoOwner => AtRest(f)'
                BY <1>17, <3>3, <3>4 DEF AtRest, LogSays
            <4> QED
                BY <1>3, <1>10, <1>13, <3>1, <3>3, <3>6, <4>1, AnnouncesInStep
        <3> QED
            BY <1>8, <3>5, <3>6
    <2>2. req'[c].phase = "idle" \/ req'[c].rec.fp = f
        BY <1>8, <1>9, <1>10, <1>13, IdleRequest DEF Announcing
    <2> QED
        BY <1>1, <1>6, <1>10, <1>13, <1>17, <2>1, <2>2, OthersInStep
<1>19. OwnersSaid'
    BY <1>1, <1>5, <1>10, <1>13, <1>17, LogStays, SaidKept
<1> QED
    BY <1>13, <1>14, <1>15, <1>16, <1>18, <1>19 DEF SvcInv

\* It then revokes the certificate, and has an owner to take away or ends.
LEMMA DeleteRevokesKeeps ==
    ASSUME SvcInv, NEW c \in Clients, DeleteRevokes(c)
    PROVE  SvcInv'
<1>0. PICK d, f : d = req[c].rec /\ f = d.fp
    OBVIOUS
<1> DEFINE w == NotifyRemoval(d, d.owner)
<1>1. /\ SvcTypeOK /\ RequestsOK /\ IdsOK /\ IssuedOK /\ AllInStep /\ OwnersSaid
      /\ docs \in Seq(Doc) /\ requests \in Nat /\ req \in [Clients -> Request]
    BY DEF SvcInv, SvcTypeOK
<1>2. /\ req[c].phase = "revoke" /\ Continues /\ docs' = docs /\ req' = [req EXCEPT ![c] = w]
    BY <1>0, <1>1 DEF DeleteRevokes, Continues
<1>3. /\ f \in Fingerprints /\ d \in Doc /\ d.id < requests
      /\ f \notin lost \cup contended =>
             InProgress(f) \subseteq {c} /\ InStep(f) /\ Accords(f, req[c])
    BY <1>0, <1>2, WorksAlone
<1>4. d.owner \in Owners \cup {NoOwner}
    BY <1>3 DEF Doc, Owners
<1>5. Announcing(w, d, d.owner, NoOwner)
    BY <1>3, <1>4, RemovalAnnounces
<1>6. req[c].phase # "notify" /\ req[c].rec.fp = f /\ f = d.fp
    BY <1>0, <1>2
<1> HIDE DEF w
<1>7. RequestSound(w, requests) /\ w.phase \in {"idle", "notify"} /\ w \in Request
    BY <1>1, <1>3, <1>5, AnnouncingIsWellFormed
<1>8. /\ requests' = requests /\ requests' \in Nat /\ requests <= requests'
      /\ announced' = announced /\ lost' = lost /\ contended' = contended /\ log' = log
      /\ issued' = issued
    BY <1>1, <1>2 DEF Continues
<1>9. /\ req' \in [Clients -> Request] /\ RequestsOK'
      /\ req'[c] = w /\ \A e \in Clients \ {c} : req'[e] = req[e]
    BY <1>1, <1>2, <1>7, <1>8, RequestsKept
<1>10. Held' = Held /\ \A g : RecsOf(g)' = RecsOf(g)
    BY <1>2 DEF Held, RecsOf
<1>11. SvcTypeOK'
    BY <1>1, <1>2, <1>9 DEF SvcTypeOK, LogTypeOK, Continues
<1>12. IdsOK'
    BY <1>1, <1>2, <1>7, <1>8, <1>9, <1>10, IdsKept DEF IdsOK
<1>13. IssuedOK'
    BY <1>1, <1>8, <1>10 DEF IssuedOK
<1>14. AllInStep'
    <2>1. ASSUME f \notin lost' \cup contended'
          PROVE  InStep(f)'
        <3>1. InProgress(f) \subseteq {c} /\ Accords(f, req[c])
            BY <1>3, <1>8, <2>1
        <3>2. RecsOf(f) = {} /\ LogSays(f, d.owner)
            BY <1>0, <1>2, <3>1 DEF Accords
        <3>3. RecsOf(f)' = {} /\ \A r, s \in RecsOf(f)' : r = s
            BY <1>10, <3>2
        <3>4. d.owner = NoOwner => AtRest(f)'
            BY <1>8, <3>2, <3>3 DEF AtRest, LogSays
        <3> QED
            BY <1>3, <1>5, <1>6, <1>9, <3>1, <3>3, <3>4, AnnouncesInStep
    <2>2. req'[c].phase = "idle" \/ req'[c].rec.fp = f
        BY <1>5, <1>6, <1>9, IdleRequest DEF Announcing
    <2> QED
        BY <1>1, <1>6, <1>8, <1>9, <1>10, <2>1, <2>2, OthersInStep
<1>15. OwnersSaid'
    BY <1>1, <1>6, <1>8, <1>9, <1>10, LogStays, SaidKept
<1> QED
    BY <1>9, <1>11, <1>12, <1>13, <1>14, <1>15 DEF SvcInv

\* The broker appends the event; the request ends, or will produce it again.
LEMMA ProduceKeeps ==
    ASSUME SvcInv, NEW c \in Clients, Produce(c), retries' \in Nat,
           NEW w \in {Idle, req[c]}, req' = [req EXCEPT ![c] = w]
    PROVE  SvcInv'
<1>0. PICK d, f, e, v : d = req[c].rec /\ f = d.fp /\ e = req[c].event /\ v = req[c]
    OBVIOUS
<1>1. /\ SvcTypeOK /\ RequestsOK /\ IdsOK /\ IssuedOK /\ AllInStep /\ OwnersSaid
      /\ docs \in Seq(Doc) /\ requests \in Nat /\ req \in [Clients -> Request] /\ LogTypeOK
    BY DEF SvcInv, SvcTypeOK
<1>2. /\ v.phase = "notify" /\ Append2Partition(PartitionOf[v.key], e)
      /\ announced' = [announced EXCEPT ![e.fp] = e.owner]
      /\ UNCHANGED <<docs, issued, lost, contended, requests, losses>>
    BY <1>0 DEF Produce
<1>3. /\ f \in Fingerprints /\ d \in Doc /\ d.id < requests
      /\ f \notin lost \cup contended =>
             InProgress(f) \subseteq {c} /\ InStep(f) /\ Accords(f, v)
    BY <1>0, <1>2, WorksAlone
<1>4. /\ e \in OwnershipEvent /\ Decides(e, f) /\ v.key \in Owners /\ v.rec = d /\ v.event = e
      /\ v \in Request /\ RequestSound(v, requests)
    BY <1>0, <1>1, <1>2 DEF RequestsOK, RequestSound
<1>5. PartitionOf[v.key] \in Partitions /\ e.fp = f /\ e.owner \in Owners \cup {NoOwner}
    BY <1>4, PartitionAssumption DEF Decides, OwnershipEvent
<1>6. /\ LogTypeOK' /\ \A g, o : Announced(g, o) => Announced(g, o)'
      /\ Announced(f, e.owner)'
    BY <1>1, <1>2, <1>4, <1>5, AppendSays
<1>7. /\ announced' \in [Fingerprints -> Owners \cup {NoOwner}]
      /\ announced'[f] = e.owner /\ \A g \in Fingerprints \ {f} : announced'[g] = announced[g]
    BY <1>1, <1>2, <1>3, <1>5 DEF SvcTypeOK
<1>8. w \in {Idle, v} /\ w \in Request /\ RequestSound(w, requests) /\ w.phase \in {"idle", "notify"}
    BY <1>0, <1>2, <1>4, IdleRequest DEF RequestSound
<1>9. requests' = requests /\ requests' \in Nat /\ requests <= requests'
    BY <1>1, <1>2
<1>10. /\ req' \in [Clients -> Request] /\ RequestsOK'
       /\ req'[c] = w /\ \A x \in Clients \ {c} : req'[x] = req[x]
    BY <1>1, <1>8, <1>9, RequestsKept
<1>11. Held' = Held /\ \A g : RecsOf(g)' = RecsOf(g)
    BY <1>2 DEF Held, RecsOf
<1>12. SvcTypeOK'
    BY <1>1, <1>2, <1>6, <1>7, <1>10 DEF SvcTypeOK
<1>13. IdsOK'
    BY <1>1, <1>2, <1>8, <1>9, <1>10, <1>11, IdsKept DEF IdsOK
<1>14. IssuedOK'
    BY <1>1, <1>2, <1>11 DEF IssuedOK
<1>15. AllInStep'
    <2>1. ASSUME f \notin lost' \cup contended'
          PROVE  InStep(f)'
        <3>1. InProgress(f) \subseteq {c} /\ InStep(f) /\ Accords(f, v)
            BY <1>2, <1>3, <2>1
        <3>2. \/ e.owner \in Applications
              \/ RecsOf(f) = {} /\ e.owner = NoOwner
              \/ RecsOf(f) # {} /\ \A r \in RecsOf(f) : e.owner = r.owner
            BY <1>2, <1>4, <3>1 DEF Accords
        <3>3. AtRest(f)'
            BY <1>7, <1>11, <3>2 DEF AtRest, LogSays
        <3>4. w.phase = "notify" => w.event.owner = e.owner
            BY <1>4, <1>8, IdleRequest
        <3>5. Accords(f, req[c])'
            BY <1>8, <1>10, <1>11, <3>2, <3>4 DEF Accords
        <3>6. \A r, s \in RecsOf(f)' : r = s
            BY <1>11, <3>1 DEF InStep
        <3> QED
            BY <1>10, <3>1, <3>3, <3>5, <3>6, AtWorkAlone
    <2>2. req[c].phase = "notify" /\ req[c].rec.fp = f
        BY <1>0, <1>2
    <2>3. req'[c].phase = "idle" \/ req'[c].rec.fp = f
        BY <1>0, <1>8, <1>10, IdleRequest
    <2>4. lost' = lost /\ contended' = contended
        BY <1>2
    <2> QED
        BY <1>1, <1>7, <1>10, <1>11, <2>1, <2>2, <2>3, <2>4, OthersInStep
<1>16. OwnersSaid'
    <2>1. req[c].rec.fp = f /\ req[c].event.owner = e.owner /\ lost' = lost
        BY <1>0, <1>2
    <2> QED
        BY <1>1, <1>6, <1>10, <1>11, <2>1, SaidKept
<1> QED
    BY <1>10, <1>12, <1>13, <1>14, <1>15, <1>16 DEF SvcInv

\* Requests that end with an error: what they had to announce is lost.
LEMMA DropsKeep ==
    ASSUME SvcInv, NEW C \in SUBSET Clients,
           req' = [x \in Clients |-> IF x \in C THEN Idle ELSE req[x]],
           UNCHANGED <<log, docs, issued, announced, contended>>,
           requests' \in Nat, requests <= requests', losses' \in Nat, retries' \in Nat,
           lost \subseteq lost', lost' \subseteq Fingerprints,
           \A c \in C : req[c].phase \in {"revoke", "notify"} => req[c].rec.fp \in lost'
    PROVE  SvcInv'
<1>1. /\ SvcTypeOK /\ RequestsOK /\ IdsOK /\ IssuedOK /\ AllInStep /\ OwnersSaid
      /\ docs \in Seq(Doc) /\ requests \in Nat /\ req \in [Clients -> Request]
    BY DEF SvcInv, SvcTypeOK
<1>2. \A x \in Clients : req'[x] = IF x \in C THEN Idle ELSE req[x]
    OBVIOUS
<1>3. req' \in [Clients -> Request]
    BY <1>1, <1>2, IdleRequest
<1>4. Held' = Held /\ \A g : RecsOf(g)' = RecsOf(g)
    BY DEF Held, RecsOf
<1>5. SvcTypeOK'
    BY <1>1, <1>3 DEF SvcTypeOK, LogTypeOK
<1>6. RequestsOK'
    <2> SUFFICES ASSUME NEW x \in Clients
                 PROVE  RequestSound(req'[x], requests')
        BY DEF RequestsOK
    <2>1. CASE x \in C
        BY <1>2, <2>1, IdleRequest DEF RequestSound
    <2>2. CASE x \notin C
        BY <1>1, <1>2, <2>2 DEF RequestsOK, RequestSound, Doc
    <2> QED
        BY <2>1, <2>2
<1>7. IdsOK'
    <2>1. \A x \in Clients : req'[x].phase # "idle" => req'[x] = req[x]
        BY <1>2, IdleRequest
    <2>2. \A r \in Held' : r.id < requests'
        BY <1>1, <1>4, HeldAreDocs DEF IdsOK, Doc
    <2> QED
        BY <1>1, <1>4, <2>1, <2>2 DEF IdsOK
<1>8. IssuedOK'
    BY <1>1, <1>4 DEF IssuedOK
<1>9. AllInStep'
    <2> SUFFICES ASSUME NEW f \in Fingerprints \ (lost' \cup contended')
                 PROVE  InStep(f)'
        BY DEF AllInStep
    <2>1. InStep(f)
        BY <1>1 DEF AllInStep
    <2>2. InProgress(f)' = InProgress(f) \ C
        BY <1>2, IdleRequest DEF InProgress
    <2>3. \A x \in InProgress(f)' : req'[x] = req[x]
        BY <1>2, <2>2 DEF InProgress
    <2>4. \A x \in InProgress(f)' : Accords(f, req[x])'
        BY <1>4, <2>1, <2>2, <2>3 DEF InStep, Accords, LogSays
    <2>5. ASSUME \A x \in InProgress(f)' : req'[x].phase \in {"save", "delete"}
          PROVE  \A x \in InProgress(f) : req[x].phase \in {"save", "delete"}
        <3> SUFFICES ASSUME NEW x \in InProgress(f)
                     PROVE  req[x].phase \in {"save", "delete"}
            OBVIOUS
        <3>1. CASE x \in C
            BY <1>1, <3>1 DEF InProgress, Request
        <3>2. CASE x \notin C
            BY <2>2, <2>3, <2>5, <3>2
        <3> QED
            BY <3>1, <3>2
    <2>6. AtRest(f)' <=> AtRest(f)
        BY <1>4 DEF AtRest, LogSays
    <2>7. (\A r, s \in RecsOf(f)' : r = s) /\ \A x, y \in InProgress(f)' : x = y
        BY <1>4, <2>1, <2>2 DEF InStep
    <2>8. (\A x \in InProgress(f) : req[x].phase \in {"save", "delete"}) => AtRest(f)
        BY <2>1 DEF InStep
    <2> QED
        BY <2>4, <2>5, <2>6, <2>7, <2>8 DEF InStep
<1>10. OwnersSaid'
    <2> SUFFICES ASSUME NEW r \in Held, r.fp \notin lost', r.owner # NoOwner
                 PROVE  Announced(r.fp, r.owner)' \/ ToAnnounce(r.fp, r.owner)'
        BY <1>4 DEF OwnersSaid
    <2>1. CASE Announced(r.fp, r.owner)
        BY <2>1, LogStays
    <2>2. CASE ToAnnounce(r.fp, r.owner)
        <3>1. PICK x \in Clients :
                  req[x].phase = "notify" /\ req[x].rec.fp = r.fp /\ req[x].event.owner = r.owner
            BY <2>2 DEF ToAnnounce
        <3>2. x \notin C
            BY <3>1
        <3> QED
            BY <1>2, <3>1, <3>2 DEF ToAnnounce
    <2> QED
        BY <1>1, <2>1, <2>2 DEF OwnersSaid
<1> QED
    BY <1>5, <1>6, <1>7, <1>8, <1>9, <1>10 DEF SvcInv

\* A request that fails, or a process that is killed, leaves its certificate among those excused.
LEMMA FailsKeeps ==
    ASSUME SvcInv, NEW c \in Clients, Fails(c)
    PROVE  SvcInv'
<1>1. /\ requests \in Nat /\ losses \in Nat /\ retries \in Nat /\ lost \subseteq Fingerprints
      /\ req \in [Clients -> Request]
    BY DEF SvcInv, SvcTypeOK
<1>2. req' = [x \in Clients |-> IF x \in {c} THEN Idle ELSE req[x]]
    BY <1>1 DEF Fails
<1>3. req[c].rec.fp \in Fingerprints
    BY WorksAlone DEF Fails
<1>4. /\ lost \subseteq lost' /\ lost' \subseteq Fingerprints
      /\ req[c].phase \in {"revoke", "notify"} => req[c].rec.fp \in lost'
    BY <1>1, <1>3 DEF Fails, Unannounced
<1>5. requests' \in Nat /\ requests <= requests' /\ losses' \in Nat /\ retries' \in Nat
    BY <1>1 DEF Fails
<1> QED
    BY <1>2, <1>4, <1>5, DropsKeep DEF Fails

\* The same of all requests at once.
LEMMA CrashKeeps ==
    ASSUME SvcInv, Crash
    PROVE  SvcInv'
<1>1. /\ requests \in Nat /\ losses \in Nat /\ retries \in Nat /\ lost \subseteq Fingerprints
    BY DEF SvcInv, SvcTypeOK
<1>2. req' = [x \in Clients |-> IF x \in Clients THEN Idle ELSE req[x]]
    BY DEF Crash
<1>3. \A x \in Clients : req[x].phase # "idle" => req[x].rec.fp \in Fingerprints
    BY WorksAlone
<1>4. /\ lost \subseteq lost' /\ lost' \subseteq Fingerprints
      /\ \A x \in Clients : req[x].phase \in {"revoke", "notify"} => req[x].rec.fp \in lost'
    BY <1>1, <1>3 DEF Crash, Unannounced
<1>5. requests' \in Nat /\ requests <= requests' /\ losses' \in Nat /\ retries' \in Nat
    BY <1>1 DEF Crash
<1> QED
    BY <1>2, <1>4, <1>5, DropsKeep DEF Crash

\* A step that only counts, and one that changes nothing.
LEMMA RestsKeeps ==
    ASSUME SvcInv, UNCHANGED <<log, docs, req, issued, announced, lost, contended, losses, retries>>,
           requests' \in Nat, requests <= requests'
    PROVE  SvcInv'
<1>1. /\ losses \in Nat /\ retries \in Nat /\ lost \subseteq Fingerprints
      /\ req \in [Clients -> Request]
    BY DEF SvcInv, SvcTypeOK
<1>2. PICK C \in SUBSET Clients : C = {}
    OBVIOUS
<1>3. req' = [x \in Clients |-> IF x \in C THEN Idle ELSE req[x]]
    BY <1>1, <1>2
<1>4. \A c \in C : req[c].phase \in {"revoke", "notify"} => req[c].rec.fp \in lost'
    BY <1>2
<1> QED
    BY <1>1, <1>3, <1>4, DropsKeep

\* A certificate at rest has the owner that was said last.
LEMMA RestFollowsDb == SvcInv => LogFollowsDb
<1> SUFFICES ASSUME SvcInv, NEW f \in Fingerprints \ (lost \cup contended), Quiet(f), Recorded(f)
             PROVE  announced[f] = DbOwner(f)
    BY DEF LogFollowsDb
<1>1. InStep(f) /\ docs \in Seq(Doc)
    BY DEF SvcInv, AllInStep, SvcTypeOK
<1>2. AtRest(f) /\ \A r, s \in RecsOf(f) : r = s
    BY <1>1 DEF InStep, Quiet
<1>3. CASE RecordsOf(f) = {}
    <2>1. announced[f] = NoOwner
        BY <1>2, <1>3, RecordsAsSet DEF AtRest, LogSays, Recorded
    <2> QED
        BY <1>3, <2>1 DEF DbOwner
<1>4. CASE RecordsOf(f) # {}
    <2>1. docs[FirstOf(f)] \in RecsOf(f)
        BY <1>1, <1>4, FirstIsRecord
    <2>2. announced[f] = docs[FirstOf(f)].owner
        BY <1>2, <2>1 DEF AtRest, LogSays, Recorded
    <2> QED
        BY <1>4, <2>2 DEF DbOwner
<1> QED
    BY <1>3, <1>4

\* At the start there is no record, no request and no event.
LEMMA SvcInvInit == InitLog /\ SvcInit => SvcInv
<1> SUFFICES ASSUME InitLog, SvcInit
             PROVE  SvcInv
    OBVIOUS
<1>1. SvcTypeOK
    BY IdleRequest DEF InitLog, SvcInit, SvcTypeOK, LogTypeOK
<1>2. Held = {}
    BY DEF SvcInit, Held
<1>3. \A c \in Clients : req[c].phase = "idle"
    BY IdleRequest DEF SvcInit
<1>4. RequestsOK
    BY <1>3 DEF RequestsOK, RequestSound
<1>5. IdsOK
    BY <1>2, <1>3 DEF IdsOK, SvcInit
<1>6. AllInStep
    BY <1>2, <1>3 DEF AllInStep, InStep, InProgress, RecsOf, AtRest, LogSays, SvcInit
<1> QED
    BY <1>1, <1>2, <1>4, <1>5, <1>6 DEF SvcInv, IssuedOK, OwnersSaid

-----------------------------------------------------------------------------
(***************************************************************************)
(* The trusted CAs and the certificates that depend on them.               *)
(***************************************************************************)

\* A request w at work on a CA, and the request q of the same client.
CaSound(w, q, n) ==
    /\ w.phase = "idle" => w = CaIdle /\ q.phase # "save"
    /\ w.phase # "idle" =>
        /\ w.ca \in CAs /\ w.id < n
        /\ q.phase = IF w.forCert THEN "save" ELSE "idle"
        /\ w.forCert => CaOf[q.rec.fp] = w.ca
    /\ w.phase \in {"count", "remove"} => ~w.forCert
    /\ w.phase \in {"lookup", "trusted"} => w.forCert
CaRequestsOK == \A c \in Clients : CaSound(caReq[c], req[c], requests)

\* Records of CAs have identities of their own; a request that may save one has a
\* new identity, and one that removes has that of a record of its CA.
Adding == {"lookup", "limit", "exists", "save"}
CaIdsOK ==
    /\ \A r, s \in cas : r.id = s.id => r = s
    /\ \A r \in cas : r.id < requests
    /\ \A c \in Clients :
        /\ caReq[c].phase \in {"count", "remove"} =>
               \A r \in cas : r.id = caReq[c].id => r.ca = caReq[c].ca
        /\ caReq[c].phase \in Adding =>
            /\ \A r \in cas : r.id # caReq[c].id
            /\ \A d \in Clients \ {c} :
                 caReq[d].phase \in Adding \cup {"count", "remove"} => caReq[d].id # caReq[c].id

\* A CA that a removal and a registration did not overlap on is there for the
\* certificates and the requests that rely on it, and a request about to remove
\* it has seen that no certificate does.
CaKept ==
    /\ \A r \in Held : r.fp \in External /\ CaOf[r.fp] \notin caRaced => IsRegistered(CaOf[r.fp])
    /\ \A ca \in CAs \ caRaced : Relying(ca) # {} => IsRegistered(ca)
    /\ \A c \in Clients : caReq[c].phase = "remove" /\ caReq[c].ca \notin caRaced =>
           \A r \in Held : r.fp \in External => CaOf[r.fp] # caReq[c].ca

CaTypes == cas \subseteq [id : Nat, ca : CAs] /\ caRaced \subseteq CAs /\ CaTypeOK
CaSideInv == CaTypes /\ CaRequestsOK /\ CaIdsOK /\ CaKept
TcaInv == SvcInv /\ CaSideInv

\* One client's move leaves the requests of the others well formed.
LEMMA CaRequestsKept ==
    ASSUME CaTypes, CaRequestsOK, requests' \in Nat, requests <= requests', NEW c \in Clients,
           \A d \in Clients \ {c} : caReq'[d] = caReq[d] /\ req'[d] = req[d],
           CaSound(caReq'[c], req'[c], requests')
    PROVE  CaRequestsOK'
<1> SUFFICES ASSUME NEW d \in Clients
             PROVE  CaSound(caReq'[d], req'[d], requests')
    BY DEF CaRequestsOK
<1>1. CASE d = c
    BY <1>1
<1>2. CASE d # c
    <2>1. CaSound(caReq[d], req[d], requests) /\ caReq'[d] = caReq[d] /\ req'[d] = req[d]
        BY <1>2 DEF CaRequestsOK
    <2>2. caReq[d].id \in Nat /\ requests \in Nat
        BY DEF CaTypes, CaTypeOK, CaRequest
    <2>3. caReq[d].id < requests => caReq[d].id < requests'
        BY <2>2
    <2> QED
        BY <2>1, <2>3 DEF CaSound
<1> QED
    BY <1>1, <1>2

\* Identities of CAs stay apart.
LEMMA CaIdsKept ==
    ASSUME CaTypes, CaRequestsOK, CaIdsOK, requests' \in Nat, requests <= requests', NEW c \in Clients,
           \A d \in Clients \ {c} : caReq'[d] = caReq[d],
           NEW w, w = caReq'[c], w.id \in Nat,
           \A r \in cas' :
               \/ r \in cas
               \/ /\ caReq[c].phase = "save" /\ w.phase = "notify"
                  /\ r = [id |-> caReq[c].id, ca |-> caReq[c].ca],
           w.phase \in Adding =>
               \/ caReq[c].phase \in Adding /\ w.id = caReq[c].id
               \/ w.id = requests /\ requests < requests',
           w.phase \in {"count", "remove"} =>
               \/ caReq[c].phase \in {"count", "remove"} /\ w.id = caReq[c].id /\ w.ca = caReq[c].ca
               \/ \E r \in cas : w.id = r.id /\ w.ca = r.ca
    PROVE  CaIdsOK'
<1>1. /\ requests \in Nat /\ cas \subseteq [id : Nat, ca : CAs]
      /\ \A d \in Clients : caReq[d].id \in Nat /\ (caReq[d].phase # "idle" => caReq[d].id < requests)
    BY DEF CaTypes, CaTypeOK, CaRequest, CaRequestsOK, CaSound
<1>2. \A r \in cas : r.id \in Nat /\ r.id < requests
    BY <1>1 DEF CaIdsOK
<1>3. caReq[c].phase = "save" => \A r \in cas : r.id # caReq[c].id
    BY DEF CaIdsOK, Adding
<1>4. ASSUME NEW r \in cas'
      PROVE  r.id < requests' /\ \A s \in cas' : r.id = s.id => r = s
    <2>1. r.id < requests'
        BY <1>1, <1>2
    <2>2. \A s \in cas' : r.id = s.id => r = s
        BY <1>3 DEF CaIdsOK
    <2> QED
        BY <2>1, <2>2
<1>5. ASSUME NEW d \in Clients, caReq'[d].phase \in {"count", "remove"},
             NEW r \in cas', r.id = caReq'[d].id
      PROVE  r.ca = caReq'[d].ca
    <2>1. CASE d = c
        <3>1. r \in cas
            BY <1>5, <2>1
        <3> QED
            BY <1>5, <2>1, <3>1 DEF CaIdsOK
    <2>2. CASE d # c
        <3>1. caReq'[d] = caReq[d]
            BY <2>2
        <3>2. CASE r \in cas
            BY <1>5, <3>1, <3>2 DEF CaIdsOK
        <3>3. CASE r \notin cas
            <4>1. caReq[c].phase = "save" /\ r.id = caReq[c].id
                BY <3>3
            <4>2. caReq[d].id # caReq[c].id
                BY <1>5, <2>2, <3>1, <4>1 DEF CaIdsOK, Adding
            <4> QED
                BY <1>5, <3>1, <4>1, <4>2
        <3> QED
            BY <3>2, <3>3
    <2> QED
        BY <2>1, <2>2
<1>6. ASSUME NEW d \in Clients, caReq'[d].phase \in Adding, NEW r \in cas'
      PROVE  r.id # caReq'[d].id
    <2>1. CASE d = c
        <3>1. r \in cas
            BY <1>6, <2>1 DEF Adding
        <3>2. CASE caReq[c].phase \in Adding /\ w.id = caReq[c].id
            BY <2>1, <3>1, <3>2 DEF CaIdsOK
        <3>3. CASE w.id = requests
            BY <1>1, <1>2, <2>1, <3>1, <3>3
        <3> QED
            BY <1>6, <2>1, <3>2, <3>3
    <2>2. CASE d # c
        <3>1. caReq'[d] = caReq[d]
            BY <2>2
        <3>2. CASE r \in cas
            BY <1>6, <3>1, <3>2 DEF CaIdsOK
        <3>3. CASE r \notin cas
            <4>1. caReq[c].phase = "save" /\ r.id = caReq[c].id
                BY <3>3
            <4>2. caReq[d].id # caReq[c].id
                BY <1>6, <2>2, <3>1, <4>1 DEF CaIdsOK, Adding
            <4> QED
                BY <3>1, <4>1, <4>2
        <3> QED
            BY <3>2, <3>3
    <2> QED
        BY <2>1, <2>2
<1>7. ASSUME NEW d \in Clients, caReq'[d].phase \in Adding,
             NEW e \in Clients \ {d}, caReq'[e].phase \in Adding \cup {"count", "remove"}
      PROVE  caReq'[e].id # caReq'[d].id
    <2>1. CASE d = c
        <3>1. caReq'[e] = caReq[e] /\ caReq[e].phase # "idle"
            BY <1>7, <2>1 DEF Adding
        <3>2. CASE caReq[c].phase \in Adding /\ w.id = caReq[c].id
            BY <1>7, <2>1, <3>1, <3>2 DEF CaIdsOK
        <3>3. CASE w.id = requests
            BY <1>1, <2>1, <3>1, <3>3
        <3> QED
            BY <1>7, <2>1, <3>2, <3>3
    <2>2. CASE d # c /\ e # c
        BY <1>7, <2>2 DEF CaIdsOK
    <2>3. CASE d # c /\ e = c
        <3>1. caReq'[d] = caReq[d] /\ caReq[d].phase \in Adding /\ caReq[d].phase # "idle"
            BY <1>7, <2>3 DEF Adding
        <3>2. CASE w.id = requests
            BY <1>1, <2>3, <3>1, <3>2
        <3>3. CASE \E r \in cas : w.id = r.id
            BY <2>3, <3>1, <3>3 DEF CaIdsOK
        <3>4. CASE caReq[c].phase \in Adding \cup {"count", "remove"} /\ w.id = caReq[c].id
            BY <1>7, <2>3, <3>1, <3>4 DEF CaIdsOK
        <3> QED
            BY <1>7, <2>3, <3>2, <3>3, <3>4
    <2> QED
        BY <2>1, <2>2, <2>3
<1> QED
    BY <1>4, <1>5, <1>6, <1>7 DEF CaIdsOK

\* What relies on a CA keeps it, in a step that removes none.
LEMMA CaKeptGrows ==
    ASSUME CaKept, NEW c \in Clients, \A d \in Clients \ {c} : caReq'[d] = caReq[d],
           cas \subseteq cas', caRaced' = caRaced,
           \A r \in Held' : r.fp \notin External \/ \E s \in Held : s.fp = r.fp,
           caReq'[c].forCert /\ caReq'[c].phase \in {"notify", "trusted"} =>
               \/ \E r \in cas' : r.ca = caReq'[c].ca
               \/ /\ caReq[c].forCert /\ caReq[c].phase \in {"notify", "trusted"}
                  /\ caReq'[c].ca = caReq[c].ca,
           caReq'[c].phase = "remove" =>
               \A r \in Held : r.fp \in External => CaOf[r.fp] # caReq'[c].ca
    PROVE  CaKept'
<1>1. ASSUME NEW ca, IsRegistered(ca)
      PROVE  IsRegistered(ca)'
    BY <1>1 DEF IsRegistered
<1>2. ASSUME NEW r \in Held', r.fp \in External, CaOf[r.fp] \notin caRaced
      PROVE  IsRegistered(CaOf[r.fp])'
    <2>1. IsRegistered(CaOf[r.fp])
        BY <1>2 DEF CaKept
    <2> QED
        BY <1>1, <2>1
<1>3. ASSUME NEW ca \in CAs \ caRaced, Relying(ca)' # {}
      PROVE  IsRegistered(ca)'
    <2>1. PICK d \in Clients :
              caReq'[d].forCert /\ caReq'[d].ca = ca /\ caReq'[d].phase \in {"notify", "trusted"}
        BY <1>3 DEF Relying
    <2>2. CASE caReq[d].forCert /\ caReq[d].ca = ca /\ caReq[d].phase \in {"notify", "trusted"}
        <3>1. IsRegistered(ca)
            BY <2>2 DEF CaKept, Relying
        <3> QED
            BY <1>1, <3>1
    <2>3. CASE \E r \in cas' : r.ca = ca
        BY <2>3 DEF IsRegistered
    <2> QED
        BY <2>1, <2>2, <2>3
<1>4. ASSUME NEW d \in Clients, caReq'[d].phase = "remove", caReq'[d].ca \notin caRaced,
             NEW r \in Held', r.fp \in External
      PROVE  CaOf[r.fp] # caReq'[d].ca
    <2>1. PICK s \in Held : s.fp = r.fp
        BY <1>4
    <2> QED
        BY <1>4, <2>1 DEF CaKept
<1> QED
    BY <1>2, <1>3, <1>4 DEF CaKept

-----------------------------------------------------------------------------
(* Each step of the trusted CAs *)

\* While the records stay, so do the certificates they are of.
LEMMA HeldStays ==
    ASSUME UNCHANGED docs
    PROVE  Held' = Held /\ \A r \in Held' : r.fp \notin External \/ \E s \in Held : s.fp = r.fp
BY DEF Held

\* A request that goes on keeps all but its phase.
LEMMA MovesOn ==
    ASSUME CaTypeOK, NEW c \in Clients, NEW ph, Move(c, ph)
    PROVE  /\ caReq'[c].phase = ph /\ caReq'[c].ca = caReq[c].ca /\ caReq'[c].id = caReq[c].id
           /\ caReq'[c].forCert = caReq[c].forCert
           /\ \A d \in Clients \ {c} : caReq'[d] = caReq[d]
<1>1. caReq \in [Clients -> CaRequest] /\ caReq[c] \in CaRequest
    BY DEF CaTypeOK
<1>2. caReq'[c] = [caReq[c] EXCEPT !.phase = ph]
    BY <1>1 DEF Move
<1> QED
    BY <1>1, <1>2 DEF Move, CaRequest

\* Within its own request a step changes only what the request is doing to the CA.
caOnly == UNCHANGED <<log, docs, req, issued, announced, lost, contended, requests, losses, retries, caRaced>>

\* A request goes on with its CA.
LEMMA MoveKeepsCas ==
    ASSUME TcaInv, CaTypeOK', caOnly, NEW c \in Clients, NEW ph, Move(c, ph),
           <<caReq[c].phase, ph>> \in {<<"lookup", "trusted">>, <<"lookup", "limit">>,
               <<"limit", "exists">>, <<"exists", "save">>, <<"save", "notify">>, <<"count", "remove">>},
           cas' = IF ph = "notify" THEN cas \cup {[id |-> caReq[c].id, ca |-> caReq[c].ca]} ELSE cas,
           ph = "trusted" => IsRegistered(caReq[c].ca),
           ph = "remove" => Dependents(caReq[c].ca) = {}
    PROVE  TcaInv'
<1>1. /\ SvcInv /\ CaTypes /\ CaRequestsOK /\ CaIdsOK /\ CaKept /\ CaTypeOK
      /\ requests \in Nat /\ caReq[c] \in CaRequest
    BY DEF TcaInv, CaSideInv, CaTypes, CaTypeOK
<1>2. /\ caReq'[c].phase = ph /\ caReq'[c].ca = caReq[c].ca /\ caReq'[c].id = caReq[c].id
      /\ caReq'[c].forCert = caReq[c].forCert
      /\ \A d \in Clients \ {c} : caReq'[d] = caReq[d]
    BY <1>1, MovesOn
<1>3. /\ UNCHANGED <<log, docs, req, issued, announced, lost, contended, losses, retries, caRaced>>
      /\ requests' = requests /\ requests' \in Nat /\ requests <= requests'
    BY <1>1 DEF caOnly
<1>4. SvcInv'
    BY <1>1, <1>3, RestsKeeps
<1>5. CaSound(caReq[c], req[c], requests) /\ caReq[c].phase # "idle"
    BY <1>1 DEF CaRequestsOK
<1>6. CaTypes'
    BY <1>1, <1>3, <1>5 DEF CaTypes, CaRequest, CaSound
<1>7. CaRequestsOK'
    <2>1. CaSound(caReq'[c], req'[c], requests')
        BY <1>2, <1>3, <1>5 DEF CaSound
    <2> QED
        BY <1>1, <1>2, <1>3, <2>1, CaRequestsKept
<1>8. CaIdsOK'
    <2>1. caReq'[c].id \in Nat
        BY <1>1, <1>2 DEF CaRequest
    <2>2. \A r \in cas' :
              \/ r \in cas
              \/ /\ caReq[c].phase = "save" /\ caReq'[c].phase = "notify"
                 /\ r = [id |-> caReq[c].id, ca |-> caReq[c].ca]
        BY <1>2
    <2>3. /\ caReq'[c].phase \in Adding => caReq[c].phase \in Adding
          /\ caReq'[c].phase \in {"count", "remove"} => caReq[c].phase \in {"count", "remove"}
        BY <1>2 DEF Adding
    <2>4. PICK w : w = caReq'[c]
        OBVIOUS
    <2> QED
        BY <1>1, <1>2, <1>3, <2>1, <2>2, <2>3, <2>4, CaIdsKept
<1>9. CaKept'
    <2>1. /\ \A r \in Held' : r.fp \notin External \/ \E s \in Held : s.fp = r.fp
          /\ cas \subseteq cas' /\ caRaced' = caRaced
        BY <1>3, HeldStays
    <2>2. caReq'[c].phase \in {"notify", "trusted"} => \E r \in cas' : r.ca = caReq'[c].ca
        <3>1. CASE ph = "notify"
            <4> DEFINE r == [id |-> caReq[c].id, ca |-> caReq[c].ca]
            <4>1. r \in cas' /\ r.ca = caReq[c].ca
                BY <3>1
            <4> HIDE DEF r
            <4> QED
                BY <1>2, <4>1
        <3>2. CASE ph = "trusted"
            BY <1>2, <3>2 DEF IsRegistered
        <3> QED
            BY <1>2, <3>1, <3>2
    <2>3. caReq'[c].phase = "remove" =>
              \A r \in Held : r.fp \in External => CaOf[r.fp] # caReq'[c].ca
        BY <1>2 DEF Dependents, Held
    <2> QED
        BY <1>1, <1>2, <2>1, <2>2, <2>3, CaKeptGrows
<1> QED
    BY <1>4, <1>6, <1>7, <1>8, <1>9 DEF TcaInv, CaSideInv

\* A request ends with an error: nothing it has to announce is lost with it.
LEMMA AbortKeepsCas ==
    ASSUME TcaInv, CaTypeOK', NEW c \in Clients, Abort(c), caReq[c].phase # "idle",
           UNCHANGED <<log, docs, issued, announced, lost, contended, requests, retries, cas, caRaced>>,
           losses' \in Nat
    PROVE  TcaInv'
<1>1. /\ SvcInv /\ CaTypes /\ CaRequestsOK /\ CaIdsOK /\ CaKept /\ CaTypeOK
      /\ requests \in Nat /\ retries \in Nat /\ lost \subseteq Fingerprints
      /\ req \in [Clients -> Request] /\ caReq \in [Clients -> CaRequest]
    BY DEF TcaInv, CaSideInv, CaTypes, CaTypeOK, SvcInv, SvcTypeOK
<1>2. req[c].phase \in {"save", "idle"}
    BY <1>1 DEF CaRequestsOK, CaSound
<1>3. /\ req' = [x \in Clients |-> IF x \in {c} THEN Idle ELSE req[x]]
      /\ caReq'[c] = CaIdle /\ req'[c] = Idle
      /\ \A d \in Clients \ {c} : caReq'[d] = caReq[d] /\ req'[d] = req[d]
    BY <1>1 DEF Abort
<1>4. requests' = requests /\ requests' \in Nat /\ requests <= requests'
    BY <1>1
<1>5. SvcInv'
    <2>1. PICK C \in SUBSET Clients : C = {c}
        OBVIOUS
    <2>2. req' = [x \in Clients |-> IF x \in C THEN Idle ELSE req[x]]
        BY <1>3, <2>1
    <2>3. \A x \in C : req[x].phase \in {"revoke", "notify"} => req[x].rec.fp \in lost'
        BY <1>2, <2>1
    <2> QED
        BY <1>1, <1>4, <2>2, <2>3, DropsKeep
<1>6. CaTypes'
    BY <1>1 DEF CaTypes
<1>7. CaRequestsOK'
    <2>1. CaSound(caReq'[c], req'[c], requests')
        BY <1>3, IdleRequest, IdleWork DEF CaSound
    <2> QED
        BY <1>1, <1>3, <1>4, <2>1, CaRequestsKept
<1>8. CaIdsOK'
    <2>1. PICK w : w = caReq'[c]
        OBVIOUS
    <2>2. w.id \in Nat /\ w.phase = "idle"
        BY <1>3, <2>1 DEF CaIdle
    <2>3. w.phase \notin Adding /\ w.phase \notin {"count", "remove"}
        BY <2>2 DEF Adding
    <2> QED
        BY <1>1, <1>3, <1>4, <2>1, <2>2, <2>3, CaIdsKept
<1>9. CaKept'
    <2>1. caReq'[c].phase = "idle"
        BY <1>3, IdleWork
    <2> QED
        BY <1>1, <1>3, <2>1, HeldStays, CaKeptGrows
<1> QED
    BY <1>5, <1>6, <1>7, <1>8, <1>9 DEF TcaInv, CaSideInv

\* A request begins to work on a CA: to register it, or to remove one of its records.
LEMMA BeginKeepsCas ==
    ASSUME TcaInv, CaTypeOK', NEW c \in Clients, NEW w \in CaRequest, BeginCa(c, w),
           w.ca \in CAs, ~w.forCert,
           \/ w.phase = "limit" /\ w.id = requests
           \/ w.phase = "count" /\ \E r \in cas : r.id = w.id /\ r.ca = w.ca
    PROVE  TcaInv'
<1>1. /\ SvcInv /\ CaTypes /\ CaRequestsOK /\ CaIdsOK /\ CaKept /\ CaTypeOK
      /\ requests \in Nat /\ caReq \in [Clients -> CaRequest]
    BY DEF TcaInv, CaSideInv, CaTypes, CaTypeOK
<1>2. /\ req[c] = Idle /\ requests' = requests + 1 /\ caReq' = [caReq EXCEPT ![c] = w]
      /\ UNCHANGED <<log, docs, req, issued, announced, lost, contended, losses, retries, cas, caRaced>>
    BY DEF BeginCa, caUnchanged
<1>3. requests' \in Nat /\ requests <= requests' /\ requests < requests'
    BY <1>1, <1>2
<1>4. caReq'[c] = w /\ \A d \in Clients \ {c} : caReq'[d] = caReq[d] /\ req'[d] = req[d]
    BY <1>1, <1>2
<1>5. SvcInv'
    BY <1>1, <1>2, <1>3, RestsKeeps
<1>6. CaTypes'
    BY <1>1, <1>2 DEF CaTypes
<1>7. w.id \in Nat /\ w.id < requests'
    BY <1>1, <1>3 DEF CaRequest, CaIdsOK
<1>8. CaRequestsOK'
    <2>1. CaSound(w, req'[c], requests')
        BY <1>2, <1>7, IdleRequest DEF CaSound
    <2> QED
        BY <1>1, <1>3, <1>4, <2>1, CaRequestsKept
<1>9. CaIdsOK'
    BY <1>1, <1>2, <1>3, <1>4, <1>7, CaIdsKept DEF Adding
<1>10. CaKept'
    BY <1>1, <1>2, <1>4, HeldStays, CaKeptGrows
<1> QED
    BY <1>5, <1>6, <1>8, <1>9, <1>10 DEF TcaInv, CaSideInv

\* A registration whose certificate depends on a CA starts by looking it up.
LEMMA NeedsCaKeeps ==
    ASSUME TcaInv, CaTypeOK', NEW c \in Clients, NEW f \in Fingerprints,
           NEW o \in Devices \cup {NoOwner}, RegisterNeedsCa(c, f, o)
    PROVE  TcaInv'
<1>1. /\ SvcInv /\ CaTypes /\ CaRequestsOK /\ CaIdsOK /\ CaKept /\ CaTypeOK
      /\ requests \in Nat /\ caReq \in [Clients -> CaRequest] /\ SvcTypeOK /\ req \in [Clients -> Request]
    BY DEF TcaInv, CaSideInv, CaTypes, CaTypeOK, SvcInv, SvcTypeOK
<1>2. PICK root \in BOOLEAN :
          caReq' = [caReq EXCEPT ![c] = [At("lookup", CaOf[f]) EXCEPT !.forCert = TRUE, !.root = root]]
    BY DEF RegisterNeedsCa
<1>3. /\ RegisterChecks(c, f, o) /\ Begin(c, f) /\ f \in External /\ docs' = docs
      /\ cas' = cas /\ caRaced' = caRaced
      /\ req' = [req EXCEPT ![c] = Saving(NewDoc(f, o, FALSE))]
    BY DEF RegisterNeedsCa, RegisterChecks
<1>4. requests' = requests + 1 /\ requests' \in Nat /\ requests <= requests' /\ requests < requests'
    BY <1>1, <1>3, BeginsAlone
<1>5. SvcInv'
    BY <1>1, <1>3, RegisterChecksKeeps
<1>6. PICK w : w = caReq'[c]
    OBVIOUS
<1>7. CaOf[f] \in CAs
    BY <1>3, CaAssumption
<1>8. w.phase = "lookup" /\ w.ca = CaOf[f] /\ w.id = requests /\ w.forCert
    BY <1>1, <1>2, <1>6 DEF At, CaIdle
<1>9. \A d \in Clients \ {c} : caReq'[d] = caReq[d] /\ req'[d] = req[d]
    BY <1>1, <1>2, <1>3
<1>10. req'[c].phase = "save" /\ req'[c].rec.fp = f
    BY <1>1, <1>3 DEF Saving, NewDoc, Idle
<1>11. CaTypes'
    BY <1>1, <1>3 DEF CaTypes
<1>12. CaRequestsOK'
    <2>1. CaSound(w, req'[c], requests')
        BY <1>4, <1>7, <1>8, <1>10 DEF CaSound
    <2> QED
        BY <1>1, <1>4, <1>6, <1>9, <2>1, CaRequestsKept
<1>13. CaIdsOK'
    BY <1>1, <1>3, <1>4, <1>6, <1>8, <1>9, CaIdsKept
<1>14. CaKept'
    BY <1>1, <1>3, <1>6, <1>8, <1>9, HeldStays, CaKeptGrows
<1> QED
    BY <1>5, <1>11, <1>12, <1>13, <1>14 DEF TcaInv, CaSideInv

\* The certificate is saved, with its CA: a removal under way is remembered.
LEMMA SavesTrustedKeeps ==
    ASSUME TcaInv, CaTypeOK', NEW c \in Clients, RegisterSavesTrusted(c)
    PROVE  TcaInv'
<1>0. PICK d, g : d = req[c].rec /\ g = caReq[c].ca
    OBVIOUS
<1>1. /\ SvcInv /\ CaTypes /\ CaRequestsOK /\ CaIdsOK /\ CaKept /\ CaTypeOK
      /\ requests \in Nat /\ caReq \in [Clients -> CaRequest] /\ docs \in Seq(Doc) /\ req \in [Clients -> Request]
    BY DEF TcaInv, CaSideInv, CaTypes, CaTypeOK, SvcInv, SvcTypeOK
<1>2. /\ caReq[c].phase = "trusted" /\ RegisterSaves(c) /\ docs' = Append(docs, d)
      /\ caReq' = [caReq EXCEPT ![c] = CaIdle] /\ cas' = cas /\ requests' = requests
      /\ req' = [req EXCEPT ![c] = NotifyCreation(d, d.owner)]
      /\ caRaced' = IF Removing(g) # {} THEN caRaced \cup {g} ELSE caRaced
    BY <1>0, <1>1 DEF RegisterSavesTrusted, RegisterSaves
<1>3. CaSound(caReq[c], req[c], requests)
    BY <1>1 DEF CaRequestsOK
<1>4. /\ caReq[c].forCert /\ req[c].phase = "save" /\ CaOf[d.fp] = g /\ g \in CAs
    BY <1>0, <1>2, <1>3 DEF CaSound
<1>5. d \in Doc
    BY <1>0, <1>1, <1>4, WorksAlone
<1>6. Held' = Held \cup {d}
    BY <1>1, <1>2, <1>5, AppendHeld
<1>7. /\ caReq'[c] = CaIdle /\ CaIdle.phase = "idle"
      /\ \A e \in Clients \ {c} : caReq'[e] = caReq[e] /\ req'[e] = req[e]
    BY <1>1, <1>2, IdleWork
<1>8. SvcInv'
    BY <1>1, <1>2, RegisterSavesKeeps
<1>9. CaTypes' /\ caRaced \subseteq caRaced'
    BY <1>1, <1>2, <1>4 DEF CaTypes
<1>10. CaRequestsOK'
    <2>1. req'[c].phase # "save"
        BY <1>1, <1>2, IdleRequest DEF NotifyCreation, Notifying
    <2>2. CaSound(caReq'[c], req'[c], requests')
        BY <1>7, <2>1 DEF CaSound
    <2> QED
        BY <1>1, <1>2, <1>7, <2>2, CaRequestsKept
<1>11. CaIdsOK'
    <2>1. PICK w : w = caReq'[c]
        OBVIOUS
    <2>2. w.id \in Nat /\ w.phase = "idle"
        BY <1>7, <2>1 DEF CaIdle
    <2>3. w.phase \notin Adding /\ w.phase \notin {"count", "remove"}
        BY <2>2 DEF Adding
    <2> QED
        BY <1>1, <1>2, <1>7, <2>1, <2>2, <2>3, CaIdsKept
<1>12. CaKept'
    <2>1. g \notin caRaced => IsRegistered(g)
        BY <1>0, <1>1, <1>2, <1>4 DEF CaKept, Relying
    <2>2. \A ca : IsRegistered(ca) => IsRegistered(ca)'
        BY <1>2 DEF IsRegistered
    <2>3. \A r \in Held' : r.fp \in External /\ CaOf[r.fp] \notin caRaced' => IsRegistered(CaOf[r.fp])'
        <3> SUFFICES ASSUME NEW r \in Held', r.fp \in External, CaOf[r.fp] \notin caRaced'
                     PROVE  IsRegistered(CaOf[r.fp])'
            OBVIOUS
        <3>1. IsRegistered(CaOf[r.fp])
            BY <1>1, <1>4, <1>6, <1>9, <2>1 DEF CaKept
        <3> QED
            BY <2>2, <3>1
    <2>4. \A ca \in CAs \ caRaced' : Relying(ca)' # {} => IsRegistered(ca)'
        <3> SUFFICES ASSUME NEW ca \in CAs \ caRaced', Relying(ca)' # {}
                     PROVE  IsRegistered(ca)'
            OBVIOUS
        <3>1. Relying(ca)' \subseteq Relying(ca)
            BY <1>7 DEF Relying
        <3>2. IsRegistered(ca)
            BY <1>1, <1>9, <3>1 DEF CaKept
        <3> QED
            BY <2>2, <3>2
    <2>5. ASSUME NEW e \in Clients, caReq'[e].phase = "remove", caReq'[e].ca \notin caRaced',
                 NEW r \in Held', r.fp \in External
          PROVE  CaOf[r.fp] # caReq'[e].ca
        <3>1. e # c /\ caReq'[e] = caReq[e]
            BY <1>7, <2>5
        <3>2. CASE r \in Held
            BY <1>1, <1>9, <2>5, <3>1, <3>2 DEF CaKept
        <3>3. CASE r = d
            <4>1. caReq[e].ca = g => e \in Removing(g)
                BY <2>5, <3>1 DEF Removing
            <4>2. caReq[e].ca = g => g \in caRaced'
                BY <1>2, <4>1
            <4> QED
                BY <1>4, <2>5, <3>1, <3>3, <4>2
        <3> QED
            BY <1>6, <3>2, <3>3
    <2> QED
        BY <2>3, <2>4, <2>5 DEF CaKept
<1> QED
    BY <1>8, <1>9, <1>10, <1>11, <1>12 DEF TcaInv, CaSideInv

\* The record of a CA is removed: a registration that relies on it is remembered.
LEMMA RemovesKeeps ==
    ASSUME TcaInv, CaTypeOK', NEW c \in Clients, DeleteCaRemoves(c)
    PROVE  TcaInv'
<1>0. PICK g, i : g = caReq[c].ca /\ i = caReq[c].id
    OBVIOUS
<1>1. /\ SvcInv /\ CaTypes /\ CaRequestsOK /\ CaIdsOK /\ CaKept /\ CaTypeOK
      /\ requests \in Nat /\ caReq \in [Clients -> CaRequest] /\ caReq[c] \in CaRequest
    BY DEF TcaInv, CaSideInv, CaTypes, CaTypeOK
<1>2. /\ caReq[c].phase = "remove" /\ Move(c, "notify") /\ cas' = {r \in cas : r.id # i}
      /\ caRaced' = IF Relying(g) # {} THEN caRaced \cup {g} ELSE caRaced
      /\ UNCHANGED <<log, docs, req, issued, announced, lost, contended, losses, retries>>
      /\ requests' = requests
    BY <1>0 DEF DeleteCaRemoves, caUnchanged
<1>3. CaSound(caReq[c], req[c], requests) /\ \A r \in cas : r.id = i => r.ca = g
    BY <1>0, <1>1, <1>2 DEF CaRequestsOK, CaIdsOK
<1>4. ~caReq[c].forCert /\ g \in CAs
    BY <1>0, <1>2, <1>3 DEF CaSound
<1>5. /\ caReq'[c].phase = "notify" /\ caReq'[c].ca = g /\ caReq'[c].id = i /\ ~caReq'[c].forCert
      /\ \A e \in Clients \ {c} : caReq'[e] = caReq[e] /\ req'[e] = req[e]
    BY <1>0, <1>1, <1>2, <1>4, MovesOn
<1>6. SvcInv'
    BY <1>1, <1>2, RestsKeeps
<1>7. CaTypes' /\ caRaced \subseteq caRaced'
    BY <1>1, <1>2, <1>4 DEF CaTypes
<1>8. CaRequestsOK'
    <2>1. CaSound(caReq'[c], req'[c], requests')
        BY <1>0, <1>2, <1>3, <1>4, <1>5 DEF CaSound
    <2> QED
        BY <1>1, <1>2, <1>5, <2>1, CaRequestsKept
<1>9. CaIdsOK'
    <2>1. PICK w : w = caReq'[c]
        OBVIOUS
    <2>2. w.id \in Nat /\ w.phase \notin Adding /\ w.phase \notin {"count", "remove"}
        BY <1>0, <1>1, <1>5, <2>1 DEF Adding, CaRequest
    <2> QED
        BY <1>1, <1>2, <1>5, <2>1, <2>2, CaIdsKept
<1>10. CaKept'
    <2>1. ASSUME NEW ca, ca # g, IsRegistered(ca)
          PROVE  IsRegistered(ca)'
        BY <1>2, <1>3, <2>1 DEF IsRegistered
    <2>2. ASSUME g \notin caRaced'
          PROVE  /\ Relying(g)' = {} /\ g \notin caRaced
                 /\ \A r \in Held : r.fp \in External => CaOf[r.fp] # g
        <3>1. Relying(g) = {} /\ g \notin caRaced
            BY <1>2, <2>2
        <3>2. Relying(g)' \subseteq Relying(g)
            BY <1>5 DEF Relying
        <3>3. \A r \in Held : r.fp \in External => CaOf[r.fp] # g
            BY <1>0, <1>1, <1>2, <3>1 DEF CaKept
        <3> QED
            BY <3>1, <3>2, <3>3
    <2>3. Held' = Held
        BY <1>2, HeldStays
    <2>4. ASSUME NEW r \in Held', r.fp \in External, CaOf[r.fp] \notin caRaced'
          PROVE  IsRegistered(CaOf[r.fp])'
        <3>1. CaOf[r.fp] # g
            BY <2>2, <2>3, <2>4
        <3>2. IsRegistered(CaOf[r.fp])
            BY <1>1, <1>7, <2>3, <2>4 DEF CaKept
        <3> QED
            BY <2>1, <3>1, <3>2
    <2>5. ASSUME NEW ca \in CAs \ caRaced', Relying(ca)' # {}
          PROVE  IsRegistered(ca)'
        <3>1. ca # g
            BY <2>2, <2>5
        <3>2. Relying(ca)' \subseteq Relying(ca)
            BY <1>5, <3>1 DEF Relying
        <3>3. IsRegistered(ca)
            BY <1>1, <1>7, <2>5, <3>2 DEF CaKept
        <3> QED
            BY <2>1, <3>1, <3>3
    <2>6. \A e \in Clients : caReq'[e].phase = "remove" /\ caReq'[e].ca \notin caRaced' =>
              \A r \in Held' : r.fp \in External => CaOf[r.fp] # caReq'[e].ca
        BY <1>1, <1>5, <1>7, <2>3 DEF CaKept
    <2> QED
        BY <2>4, <2>5, <2>6 DEF CaKept
<1> QED
    BY <1>6, <1>7, <1>8, <1>9, <1>10 DEF TcaInv, CaSideInv

\* The event of the CA is published: the request ends, or goes on to the certificate.
LEMMA NotifyCaKeeps ==
    ASSUME TcaInv, CaTypeOK', NEW c \in Clients, NotifyCa(c)
    PROVE  TcaInv'
<1>1. /\ SvcInv /\ CaTypes /\ CaRequestsOK /\ CaIdsOK /\ CaKept /\ CaTypeOK
      /\ requests \in Nat /\ caReq \in [Clients -> CaRequest] /\ caReq[c] \in CaRequest
    BY DEF TcaInv, CaSideInv, CaTypes, CaTypeOK
<1>2. /\ caReq[c].phase = "notify"
      /\ caReq' = [caReq EXCEPT ![c] = IF @.forCert THEN [@ EXCEPT !.phase = "trusted"] ELSE CaIdle]
      /\ UNCHANGED <<log, docs, req, issued, announced, lost, contended, losses, retries, cas, caRaced>>
      /\ requests' = requests
    BY DEF NotifyCa, caUnchanged
<1>3. PICK w : w = caReq'[c]
    OBVIOUS
<1>4. \A e \in Clients \ {c} : caReq'[e] = caReq[e] /\ req'[e] = req[e]
    BY <1>1, <1>2
<1>5. \/ /\ caReq[c].forCert /\ w.phase = "trusted" /\ w.ca = caReq[c].ca /\ w.id = caReq[c].id
         /\ w.forCert
      \/ ~caReq[c].forCert /\ w = CaIdle /\ w.phase = "idle"
    BY <1>1, <1>2, <1>3, IdleWork DEF CaRequest
<1>6. CaSound(caReq[c], req[c], requests)
    BY <1>1 DEF CaRequestsOK
<1>7. SvcInv'
    BY <1>1, <1>2, RestsKeeps
<1>8. CaTypes'
    BY <1>1, <1>2 DEF CaTypes
<1>9. CaRequestsOK'
    <2>1. CaSound(w, req'[c], requests')
        BY <1>2, <1>5, <1>6 DEF CaSound
    <2> QED
        BY <1>1, <1>2, <1>3, <1>4, <2>1, CaRequestsKept
<1>10. CaIdsOK'
    <2>1. w.id \in Nat /\ w.phase \notin Adding /\ w.phase \notin {"count", "remove"}
        BY <1>1, <1>5 DEF Adding, CaRequest, CaIdle
    <2>2. \A r \in cas' : r \in cas
        BY <1>2
    <2>3. requests' \in Nat /\ requests <= requests'
        BY <1>1, <1>2
    <2>4. \A e \in Clients \ {c} : caReq'[e] = caReq[e]
        BY <1>4
    <2> QED
        BY <1>1, <1>3, <2>1, <2>2, <2>3, <2>4, CaIdsKept
<1>11. CaKept'
    <2>1. w.phase # "remove" /\ (w.forCert /\ w.phase \in {"notify", "trusted"} =>
              caReq[c].forCert /\ caReq[c].phase \in {"notify", "trusted"} /\ w.ca = caReq[c].ca)
        BY <1>2, <1>5
    <2> QED
        BY <1>1, <1>2, <1>3, <1>4, <2>1, HeldStays, CaKeptGrows
<1> QED
    BY <1>7, <1>8, <1>9, <1>10, <1>11 DEF TcaInv, CaSideInv

-----------------------------------------------------------------------------
(* Every step, and what follows *)

\* What the CAs see of a step of the certificates.
Seen(c) ==
    /\ \A d \in Clients \ {c} : req'[d] = req[d]
    /\ req'[c].phase # "save"
    /\ requests <= requests'
    /\ \A r \in Held' : r.fp \notin External \/ \E s \in Held : s.fp = r.fp

\* An event that is published, or not, makes no registration.
LEMMA NotifyPhases ==
    ASSUME NEW d, NEW prev, NEW o
    PROVE  /\ NotifyCreation(d, o).phase # "save" /\ NotifyRemoval(d, prev).phase # "save"
           /\ NotifyChange(d, prev, o).phase # "save" /\ Revoking(d).phase # "save"
           /\ Deleting(d).phase # "save" /\ Idle.phase # "save"
BY DEF NotifyCreation, NotifyRemoval, NotifyChange, Notifying, Revoking, Deleting, Idle

\* What the invariant of the CAs sees of the steps on certificates: of those without an action here,
LEMMA OtherRequestSeen ==
    ASSUME SvcInv, NEW c \in Clients, OtherRequest(c)
    PROVE  SvcInv' /\ Seen(c)
<1>1. req \in [Clients -> Request] /\ docs \in Seq(Doc) /\ requests \in Nat /\ IdsOK /\ SvcTypeOK
    BY DEF SvcInv, SvcTypeOK
<1>2. PICK f \in Fingerprints :
          \/ \E o \in Devices \cup {NoOwner} :
                 GenerateCertificate(c, f, o) \/ ChangeOwnership(c, f, o)
          \/ \E a \in Applications : ThrowAwayCertificate(c, f, a)
          \/ DeleteReads(c, f)
    BY DEF OtherRequest
<1>3. Begin(c, f)
    BY <1>2 DEF GenerateCertificate, ChangeOwnership, ThrowAwayCertificate, DeleteReads
<1>4. requests <= requests'
    BY <1>3, BeginsAlone
<1>5. ASSUME NEW o \in Devices \cup {NoOwner}, GenerateCertificate(c, f, o)
      PROVE  SvcInv' /\ Seen(c)
    <2> DEFINE d == NewDoc(f, o, TRUE)
    <2>1. /\ docs' = Append(docs, d) /\ req' = [req EXCEPT ![c] = NotifyCreation(d, o)]
          /\ f \notin External
        BY <1>5 DEF GenerateCertificate
    <2>2. d \in Doc /\ d.fp = f
        BY <1>1, NewDocType
    <2> HIDE DEF d
    <2>3. Held' = Held \cup {d}
        BY <1>1, <2>1, <2>2, AppendHeld
    <2> QED
        BY <1>1, <1>4, <1>5, <2>1, <2>2, <2>3, GenerateKeeps, NotifyPhases DEF Seen
<1>6. ASSUME NEW o \in Devices \cup {NoOwner}, ChangeOwnership(c, f, o)
      PROVE  SvcInv' /\ Seen(c)
    <2> DEFINE i == FirstOf(f)
               d == docs[i]
    <2>1. /\ docs' = [docs EXCEPT ![i].owner = o] /\ RecordsOf(f) # {}
          /\ req' = [req EXCEPT ![c] = NotifyChange(d, d.owner, o)]
        BY <1>6 DEF ChangeOwnership
    <2>2. i \in DOMAIN docs /\ d \in RecsOf(f)
        BY <1>1, <2>1, FirstIsRecord
    <2>3. Held' = (Held \ {d}) \cup {[d EXCEPT !.owner = o]}
        BY <1>1, <2>1, <2>2, UpdateHeld DEF IdsOK
    <2> HIDE DEF i
    <2>4. d \in Held /\ d \in Doc
        BY <1>1, <2>2, HeldAreDocs DEF RecsOf
    <2> HIDE DEF d
    <2>5. [d EXCEPT !.owner = o].fp = d.fp
        BY <2>4 DEF Doc
    <2>6. \A r \in Held' : \E s \in Held : s.fp = r.fp
        BY <2>3, <2>4, <2>5
    <2> QED
        BY <1>1, <1>4, <1>6, <2>1, <2>6, ChangeOwnershipKeeps, NotifyPhases DEF Seen
<1>7. ASSUME NEW a \in Applications, ThrowAwayCertificate(c, f, a)
      PROVE  SvcInv' /\ Seen(c)
    <2>1. docs' = docs /\ req' = [req EXCEPT ![c] = NotifyCreation(NewDoc(f, NoOwner, TRUE), a)]
        BY <1>7 DEF ThrowAwayCertificate
    <2> QED
        BY <1>1, <1>4, <1>7, <2>1, ThrowAwayKeeps, NotifyPhases, HeldStays DEF Seen
<1>8. ASSUME DeleteReads(c, f)
      PROVE  SvcInv' /\ Seen(c)
    <2>1. docs' = docs /\ req' = [req EXCEPT ![c] = Deleting(docs[FirstOf(f)])]
        BY <1>8 DEF DeleteReads
    <2> QED
        BY <1>1, <1>4, <1>8, <2>1, DeleteReadsKeeps, NotifyPhases, HeldStays DEF Seen
<1> QED
    BY <1>2, <1>5, <1>6, <1>7, <1>8

\* and of any of them.
LEMMA ServiceSeen ==
    ASSUME SvcInv, NEW c \in Clients,
           \/ DeleteRemoves(c) \/ DeleteRevokes(c) \/ Notifies(c) \/ NotifiesAgain(c) \/ Fails(c)
    PROVE  SvcInv' /\ Seen(c)
<1>1. /\ req \in [Clients -> Request] /\ docs \in Seq(Doc) /\ requests \in Nat /\ retries \in Nat
      /\ IdsOK
    BY DEF SvcInv, SvcTypeOK
<1>2. requests' = requests /\ requests <= requests'
    BY <1>1 DEF DeleteRemoves, DeleteRevokes, Notifies, NotifiesAgain, Produce, Fails
<1>3. CASE DeleteRemoves(c)
    <2>1. PICK d : d = req[c].rec
        OBVIOUS
    <2>2. /\ req' = [req EXCEPT ![c] = IF d.internal THEN Revoking(d) ELSE NotifyRemoval(d, d.owner)]
          /\ \/ \E i \in DOMAIN docs : docs[i].id = d.id /\ docs' = Without(docs, i)
             \/ (\A i \in DOMAIN docs : docs[i].id # d.id) /\ docs' = docs
        BY <1>1, <1>3, <2>1 DEF DeleteRemoves
    <2>3. Held' = {r \in Held : r.id # d.id}
        BY <1>1, <2>2, RemovesRecord DEF IdsOK
    <2> QED
        BY <1>1, <1>2, <1>3, <2>2, <2>3, DeleteRemovesKeeps, NotifyPhases DEF Seen
<1>4. CASE DeleteRevokes(c)
    <2>1. docs' = docs /\ req' = [req EXCEPT ![c] = NotifyRemoval(req[c].rec, req[c].rec.owner)]
        BY <1>1, <1>4 DEF DeleteRevokes
    <2> QED
        BY <1>1, <1>2, <1>4, <2>1, DeleteRevokesKeeps, NotifyPhases, HeldStays DEF Seen
<1>5. CASE Notifies(c)
    <2>1. /\ Produce(c) /\ docs' = docs /\ req' = [req EXCEPT ![c] = Idle] /\ retries' \in Nat
          /\ Idle \in {Idle, req[c]}
        BY <1>1, <1>5 DEF Notifies, Produce
    <2>2. SvcInv'
        BY <2>1, ProduceKeeps
    <2> QED
        BY <1>1, <1>2, <2>1, <2>2, NotifyPhases, HeldStays DEF Seen
<1>6. CASE NotifiesAgain(c)
    <2>1. /\ Produce(c) /\ docs' = docs /\ req' = req /\ retries' \in Nat
          /\ req[c].phase = "notify"
        BY <1>1, <1>6 DEF NotifiesAgain, Produce
    <2>2. PICK w : w = req[c]
        OBVIOUS
    <2>3. req' = [req EXCEPT ![c] = w] /\ w \in {Idle, req[c]}
        BY <1>1, <2>1, <2>2
    <2>4. SvcInv'
        BY <2>1, <2>3, ProduceKeeps
    <2> QED
        BY <1>2, <2>1, <2>4, HeldStays DEF Seen
<1>7. CASE Fails(c)
    <2>1. docs' = docs /\ req' = [req EXCEPT ![c] = Idle]
        BY <1>7 DEF Fails
    <2> QED
        BY <1>1, <1>2, <1>7, <2>1, FailsKeeps, NotifyPhases, HeldStays DEF Seen
<1> QED
    BY <1>3, <1>4, <1>5, <1>6, <1>7

\* A step of the certificates, by a client that is not at work on a CA.
LEMMA ServiceKeepsCas ==
    ASSUME TcaInv, NEW c \in Clients, caReq[c] = CaIdle, UNCHANGED caVars, SvcInv', Seen(c)
    PROVE  TcaInv'
<1>1. /\ CaTypes /\ CaRequestsOK /\ CaIdsOK /\ CaKept /\ CaTypeOK
      /\ cas' = cas /\ caReq' = caReq /\ caRaced' = caRaced
    BY DEF TcaInv, CaSideInv, CaTypes, caVars
<1>2. requests' \in Nat /\ requests <= requests'
    BY DEF SvcInv, SvcTypeOK, Seen
<1>3. CaTypes'
    BY <1>1, <1>2 DEF CaTypes, CaTypeOK
<1>4. CaIdle.phase = "idle"
    BY IdleWork
<1>5. CaRequestsOK'
    <2>1. CaSound(caReq'[c], req'[c], requests')
        BY <1>1, <1>4 DEF CaSound, Seen
    <2> QED
        BY <1>1, <1>2, <2>1, CaRequestsKept DEF Seen
<1>6. CaIdsOK'
    <2>1. PICK w : w = caReq'[c]
        OBVIOUS
    <2>2. w.id \in Nat /\ w.phase \notin Adding /\ w.phase \notin {"count", "remove"}
        BY <1>1, <1>4, <2>1 DEF Adding, CaIdle
    <2> QED
        BY <1>1, <1>2, <2>1, <2>2, CaIdsKept
<1>7. CaKept'
    BY <1>1, <1>4, CaKeptGrows DEF Seen
<1> QED
    BY <1>3, <1>5, <1>6, <1>7 DEF TcaInv, CaSideInv

\* The two services' invariant holds at the start,
LEMMA TcaInvInit == TcaInit => TcaInv
<1> SUFFICES ASSUME TcaInit
             PROVE  TcaInv
    OBVIOUS
<1>1. SvcInv
    BY SvcInvInit DEF TcaInit
<1>2. CaTypes
    BY CaInvInit DEF TcaInit, CaTypes, CaInv
<1>3. \A c \in Clients : caReq[c] = CaIdle /\ caReq[c].phase = "idle" /\ req[c].phase = "idle"
    BY IdleWork, IdleRequest DEF TcaInit, SvcInit
<1>4. cas = {} /\ Held = {}
    BY DEF TcaInit, SvcInit, Held
<1> QED
    BY <1>1, <1>2, <1>3, <1>4
    DEF TcaInv, CaSideInv, CaRequestsOK, CaSound, CaIdsOK, CaKept, Adding, Relying

\* after each step,
LEMMA TcaInvStep == CaTypeOK' /\ TcaInv /\ [TcaNext]_tcaVars => TcaInv'
<1> SUFFICES ASSUME CaTypeOK', TcaInv, [TcaNext]_tcaVars
             PROVE  TcaInv'
    OBVIOUS
<1>1. SvcInv /\ CaTypeOK /\ requests \in Nat /\ losses \in Nat
    BY DEF TcaInv, CaSideInv, CaTypes, SvcInv, SvcTypeOK
<1>2. ASSUME NEW c \in Clients, LookUpCa(c)
      PROVE  TcaInv'
    <2>1. UNCHANGED <<log, docs, issued, announced, lost, contended, requests, losses,
                      retries, cas, caRaced>>
        BY <1>2 DEF LookUpCa
    <2>2. CASE Abort(c)
        BY <1>1, <1>2, <2>1, <2>2, AbortKeepsCas DEF LookUpCa
    <2>3. CASE ~Abort(c)
        <3>1. \/ IsRegistered(caReq[c].ca) /\ Move(c, "trusted") /\ req' = req
              \/ Move(c, "limit") /\ req' = req
            BY <1>2, <2>3 DEF LookUpCa
        <3>2. caOnly
            BY <2>1, <3>1 DEF caOnly
        <3> QED
            BY <1>2, <2>1, <3>1, <3>2, MoveKeepsCas DEF LookUpCa
    <2> QED
        BY <2>2, <2>3
<1>3. ASSUME NEW c \in Clients, CheckLimit(c)
      PROVE  TcaInv'
    <2>1. UNCHANGED <<log, docs, issued, announced, lost, contended, requests, losses,
                      retries, cas, caRaced>>
        BY <1>3 DEF CheckLimit, caUnchanged
    <2>2. CASE Abort(c)
        BY <1>1, <1>3, <2>1, <2>2, AbortKeepsCas DEF CheckLimit
    <2>3. CASE Move(c, "exists") /\ req' = req
        <3>1. caOnly
            BY <2>1, <2>3 DEF caOnly
        <3> QED
            BY <1>3, <2>1, <2>3, <3>1, MoveKeepsCas DEF CheckLimit
    <2> QED
        BY <1>3, <2>2, <2>3 DEF CheckLimit
<1>4. ASSUME NEW c \in Clients, CheckExistingCa(c)
      PROVE  TcaInv'
    <2>1. UNCHANGED <<log, docs, issued, announced, lost, contended, requests, losses,
                      retries, cas, caRaced>>
        BY <1>4 DEF CheckExistingCa, caUnchanged
    <2>2. CASE Abort(c)
        BY <1>1, <1>4, <2>1, <2>2, AbortKeepsCas DEF CheckExistingCa
    <2>3. CASE Move(c, "save") /\ req' = req
        <3>1. caOnly
            BY <2>1, <2>3 DEF caOnly
        <3> QED
            BY <1>4, <2>1, <2>3, <3>1, MoveKeepsCas DEF CheckExistingCa
    <2> QED
        BY <1>4, <2>2, <2>3 DEF CheckExistingCa
<1>5. ASSUME NEW c \in Clients, SaveCa(c)
      PROVE  TcaInv'
    <2>1. caOnly
        BY <1>5 DEF SaveCa, caUnchanged, caOnly
    <2> QED
        BY <1>1, <1>5, <2>1, MoveKeepsCas DEF SaveCa
<1>6. ASSUME NEW c \in Clients, CountDependents(c)
      PROVE  TcaInv'
    <2>1. UNCHANGED <<log, docs, issued, announced, lost, contended, requests, losses,
                      retries, cas, caRaced>>
        BY <1>6 DEF CountDependents, caUnchanged
    <2>2. CASE Abort(c)
        BY <1>1, <1>6, <2>1, <2>2, AbortKeepsCas DEF CountDependents
    <2>3. CASE Dependents(caReq[c].ca) = {} /\ Move(c, "remove") /\ req' = req
        <3>1. caOnly
            BY <2>1, <2>3 DEF caOnly
        <3> QED
            BY <1>6, <2>1, <2>3, <3>1, MoveKeepsCas DEF CountDependents
    <2> QED
        BY <1>6, <2>2, <2>3 DEF CountDependents
<1>7. ASSUME NEW c \in Clients, CaFails(c)
      PROVE  TcaInv'
    <2>1. losses' \in Nat
        BY <1>1, <1>7 DEF CaFails
    <2> QED
        BY <1>7, <2>1, AbortKeepsCas DEF CaFails
<1>8. ASSUME NEW c \in Clients, NEW ca \in CAs, PostCa(c, ca)
      PROVE  TcaInv'
    <2>1. At("limit", ca) \in CaRequest /\ At("limit", ca).phase = "limit"
        BY <1>1, BeginsWork
    <2>2. At("limit", ca).ca = ca /\ At("limit", ca).id = requests /\ ~At("limit", ca).forCert
        BY DEF At, CaIdle
    <2> QED
        BY <1>8, <2>1, <2>2, BeginKeepsCas DEF PostCa
<1>9. ASSUME NEW c \in Clients, NEW ca \in CAs, DeleteCaReads(c, ca)
      PROVE  TcaInv'
    <2>1. PICK r \in cas : r.ca = ca /\ BeginCa(c, [At("count", ca) EXCEPT !.id = r.id])
        BY <1>9 DEF DeleteCaReads
    <2>2. r.id \in Nat
        BY <1>1 DEF CaTypeOK
    <2> DEFINE w == [At("count", ca) EXCEPT !.id = r.id]
    <2>3. w \in CaRequest /\ w.phase = "count" /\ w.ca = ca /\ w.id = r.id /\ ~w.forCert
        <3>1. At("count", ca) \in CaRequest /\ At("count", ca).phase = "count"
            BY <1>1, BeginsWork
        <3>2. At("count", ca).ca = ca /\ ~At("count", ca).forCert
            BY DEF At, CaIdle
        <3> QED
            BY <2>2, <3>1, <3>2 DEF CaRequest
    <2> HIDE DEF w
    <2>4. BeginCa(c, w)
        BY <2>1 DEF w
    <2> QED
        BY <2>1, <2>3, <2>4, BeginKeepsCas
<1>10. ASSUME NEW c \in Clients, caReq[c] = CaIdle, UNCHANGED caVars,
              \/ OtherRequest(c)
              \/ DeleteRemoves(c) \/ DeleteRevokes(c) \/ Notifies(c) \/ NotifiesAgain(c) \/ Fails(c)
       PROVE  TcaInv'
    BY <1>1, <1>10, OtherRequestSeen, ServiceSeen, ServiceKeepsCas
<1>11. CASE Crash /\ caReq' = [c \in Clients |-> CaIdle] /\ UNCHANGED <<cas, caRaced>>
    <2>1. SvcInv'
        BY <1>1, <1>11, CrashKeeps
    <2>2. \A c \in Clients : caReq'[c] = CaIdle /\ caReq'[c].phase = "idle" /\ req'[c].phase = "idle"
        BY <1>11, IdleWork, IdleRequest DEF Crash
    <2>3. Held' = Held /\ requests' = requests /\ cas' = cas /\ caRaced' = caRaced
        BY <1>11, HeldStays DEF Crash
    <2>4. CaTypes' /\ CaRequestsOK'
        BY <2>2, <2>3 DEF TcaInv, CaSideInv, CaTypes, CaRequestsOK, CaSound
    <2>5. CaIdsOK'
        BY <2>2, <2>3 DEF TcaInv, CaSideInv, CaIdsOK, Adding
    <2>6. CaKept'
        BY <2>2, <2>3 DEF TcaInv, CaSideInv, CaKept, Relying, IsRegistered
    <2> QED
        BY <2>1, <2>4, <2>5, <2>6 DEF TcaInv, CaSideInv
<1>12. CASE UNCHANGED tcaVars
    <2>1. SvcInv'
        BY <1>1, <1>12, RestsKeeps DEF tcaVars, svcVars
    <2>2. UNCHANGED <<docs, req, requests, cas, caReq, caRaced>>
        BY <1>12 DEF tcaVars, svcVars, caVars
    <2>3. CaTypes' /\ CaRequestsOK' /\ CaIdsOK' /\ CaKept'
        BY <2>2 DEF TcaInv, CaSideInv, CaTypes, CaRequestsOK, CaIdsOK, CaKept, Held, Relying,
                    IsRegistered
    <2> QED
        BY <2>1, <2>3 DEF TcaInv, CaSideInv
<1> QED
    BY <1>2, <1>3, <1>4, <1>5, <1>6, <1>7, <1>8, <1>9, <1>10, <1>11, <1>12,
       NeedsCaKeeps, SavesTrustedKeeps, RemovesKeeps, NotifyCaKeeps DEF TcaNext, CaProgress

\* and so always.
LEMMA TcaInvariant == TcaSpec => []TcaInv
<1>1. CaInv => CaTypeOK
    BY DEF CaInv
<1> QED
    BY <1>1, CaInvInit, CaInvStep, TcaInvInit, TcaInvStep, PTL DEF TcaSpec

\* The state of x509-identity-mgmt keeps its shape: its records, its requests on
\* certificates and on CAs, its events and its history.
THEOREM TcaTypeCorrect == TcaSpec => []TcaTypeOK
<1>1. TcaInv => TcaTypeOK
    BY DEF TcaInv, SvcInv, CaSideInv, CaTypes, CaTypeOK, TcaTypeOK
<1> QED
    BY <1>1, TcaInvariant, PTL

\* For a certificate on which requests followed one another and none failed, the
\* last event published says what the database says, unless it is an application's.
THEOREM LogStaysInStep == TcaSpec => []LogFollowsDb
<1>1. TcaInv => LogFollowsDb
    BY RestFollowsDb DEF TcaInv
<1> QED
    BY <1>1, TcaInvariant, PTL

\* However requests overlap, and on whatever duplicate records they leave, every
\* owner a record names has been announced when the certificate is at rest.
THEOREM OwnersAreAnnounced == TcaSpec => []EveryOwnerAnnounced
<1>1. TcaInv => EveryOwnerAnnounced
    <2> SUFFICES ASSUME TcaInv, NEW f \in Fingerprints \ lost, Quiet(f), NEW o \in OwnersInDb(f)
                 PROVE  Announced(f, o)
        BY DEF EveryOwnerAnnounced
    <2>1. PICK i \in RecordsOf(f) : docs[i].owner = o /\ o # NoOwner
        BY DEF OwnersInDb
    <2>2. docs[i] \in Held /\ docs[i].fp = f
        BY DEF RecordsOf, Held
    <2>3. Announced(f, o) \/ ToAnnounce(f, o)
        BY <2>1, <2>2 DEF TcaInv, SvcInv, OwnersSaid
    <2>4. ~ToAnnounce(f, o)
        BY DEF ToAnnounce, Quiet, InProgress
    <2> QED
        BY <2>3, <2>4
<1> QED
    BY <1>1, TcaInvariant, PTL

\* A CA that certificates depend on is registered, unless its removal and the
\* registration of a certificate overlapped.
THEOREM DependentsStayTrusted == TcaSpec => []DependentsKeepCa
<1>1. TcaInv => DependentsKeepCa
    <2> SUFFICES ASSUME TcaInv, NEW i \in DOMAIN docs, docs[i].fp \in External,
                        CaOf[docs[i].fp] \notin caRaced
                 PROVE  IsRegistered(CaOf[docs[i].fp])
        BY DEF DependentsKeepCa
    <2>1. docs[i] \in Held
        BY DEF Held
    <2> QED
        BY <2>1 DEF TcaInv, CaSideInv, CaKept
<1> QED
    BY <1>1, TcaInvariant, PTL

-----------------------------------------------------------------------------
(***************************************************************************)
(* x509-identity-mgmt joined with certificate-acl: what the database says,  *)
(* the log says, and what the log says, Redis does.                        *)
(***************************************************************************)

\* The owner announced last is that of the last record of some partition.
LastIn(p, o, f) == o \in OffsetsOf(p, f) /\ \A n \in OffsetsOf(p, f) : n <= o
LastSays(f) ==
    \/ announced[f] = NoOwner /\ \A p \in Partitions : OffsetsOf(p, f) = {}
    \/ \E p \in Partitions, o \in Nat : LastIn(p, o, f) /\ announced[f] = log[p][o + 1].owner
LastSaid == \A f \in Fingerprints : LastSays(f)

\* The service appends an event that decides, and notes what it says.
AnnouncesOn(p, e) ==
    /\ Append2Partition(p, e) /\ Decides(e, e.fp)
    /\ announced' = [announced EXCEPT ![e.fp] = e.owner]

\* A step of the service keeps its invariant, and appends one event or none.
LEMMA ServiceMoves ==
    ASSUME SvcInv, SvcStep
    PROVE  /\ SvcInv'
           /\ UNCHANGED <<log, announced>> \/ \E p \in Partitions, e \in OwnershipEvent : AnnouncesOn(p, e)
<1>1. requests \in Nat /\ retries \in Nat
    BY DEF SvcInv, SvcTypeOK
<1>2. ASSUME NEW c \in Clients, OtherRequest(c)
      PROVE  SvcInv' /\ UNCHANGED <<log, announced>>
    BY <1>2, GenerateKeeps, ThrowAwayKeeps, DeleteReadsKeeps, ChangeOwnershipKeeps
    DEF OtherRequest, GenerateCertificate, ThrowAwayCertificate, DeleteReads, ChangeOwnership, Begin
<1>3. ASSUME NEW c \in Clients, NEW f \in Fingerprints, NEW o \in Devices \cup {NoOwner},
             RegisterChecks(c, f, o)
      PROVE  SvcInv' /\ UNCHANGED <<log, announced>>
    BY <1>3, RegisterChecksKeeps DEF RegisterChecks, Begin
<1>4. ASSUME NEW c \in Clients, RegisterSaves(c) \/ DeleteRemoves(c) \/ DeleteRevokes(c) \/ Fails(c)
      PROVE  SvcInv' /\ UNCHANGED <<log, announced>>
    BY <1>4, RegisterSavesKeeps, DeleteRemovesKeeps, DeleteRevokesKeeps, FailsKeeps
    DEF RegisterSaves, DeleteRemoves, DeleteRevokes, Fails
<1>5. ASSUME NEW c \in Clients, Notifies(c) \/ NotifiesAgain(c)
      PROVE  SvcInv' /\ \E p \in Partitions, e \in OwnershipEvent : AnnouncesOn(p, e)
    <2>1. Produce(c) /\ retries' \in Nat
        BY <1>1, <1>5 DEF Notifies, NotifiesAgain
    <2>2. PICK w \in {Idle, req[c]} : req' = [req EXCEPT ![c] = w]
        BY <1>5 DEF Notifies, NotifiesAgain, SvcInv, SvcTypeOK
    <2>3. SvcInv'
        BY <2>1, <2>2, ProduceKeeps
    <2>4. PICK p, e : p = PartitionOf[req[c].key] /\ e = req[c].event
        OBVIOUS
    <2>5. e \in OwnershipEvent /\ Decides(e, req[c].rec.fp) /\ req[c].key \in Owners
        BY <2>1, <2>4 DEF Produce, SvcInv, RequestsOK, RequestSound
    <2>6. p \in Partitions /\ Decides(e, e.fp)
        BY <2>4, <2>5, PartitionAssumption DEF Decides
    <2>7. AnnouncesOn(p, e)
        BY <2>1, <2>4, <2>6 DEF Produce, AnnouncesOn
    <2> QED
        BY <2>3, <2>5, <2>6, <2>7
<1>6. CASE Crash
    BY <1>6, CrashKeeps DEF Crash
<1> QED
    BY <1>2, <1>3, <1>4, <1>5, <1>6 DEF SvcStep, SvcProgress

\* The owner announced stays that of the last record.
LEMMA LastStaysSaid ==
    ASSUME LogTypeOK, announced \in [Fingerprints -> Owners \cup {NoOwner}], LastSaid,
           NEW p \in Partitions, NEW e \in OwnershipEvent, AnnouncesOn(p, e)
    PROVE  LastSaid'
<1>1. /\ log' = [log EXCEPT ![p] = Append(log[p], e)] /\ Decides(e, e.fp)
      /\ announced' = [announced EXCEPT ![e.fp] = e.owner] /\ e.fp \in Fingerprints
    BY DEF AnnouncesOn, Append2Partition, OwnershipEvent
<1>2. PICK k \in Nat : k = Len(log[p])
    BY DEF LogTypeOK
<1>3. log[p] \in Seq(OwnershipEvent) /\ \A s \in Partitions : s # p => log'[s] = log[s]
    BY <1>1 DEF LogTypeOK
<1>4. /\ log'[p] = Append(log[p], e) /\ Len(log'[p]) = k + 1 /\ log'[p][k + 1] = e
      /\ \A n \in 0 .. k - 1 : log'[p][n + 1] = log[p][n + 1]
    BY <1>1, <1>2, <1>3 DEF LogTypeOK
<1>5. 0 .. (k + 1) - 1 = (0 .. k - 1) \cup {k}
    OBVIOUS
<1>6. \A s \in Partitions : \A f :
          OffsetsOf(s, f)' = IF s = p /\ e.fp = f THEN OffsetsOf(s, f) \cup {k} ELSE OffsetsOf(s, f)
    <2> SUFFICES ASSUME NEW s \in Partitions, NEW f
                 PROVE  OffsetsOf(s, f)' =
                            IF s = p /\ e.fp = f THEN OffsetsOf(s, f) \cup {k} ELSE OffsetsOf(s, f)
        OBVIOUS
    <2>1. CASE s # p
        BY <1>3, <2>1 DEF OffsetsOf
    <2>2. CASE s = p
        <3>1. OffsetsOf(p, f)' = {n \in 0 .. (k + 1) - 1 : Decides(log'[p][n + 1], f)}
            BY <1>4 DEF OffsetsOf
        <3>2. OffsetsOf(p, f) = {n \in 0 .. k - 1 : Decides(log[p][n + 1], f)}
            BY <1>2 DEF OffsetsOf
        <3>3. Decides(log'[p][k + 1], f) <=> e.fp = f
            BY <1>1, <1>4 DEF Decides
        <3> QED
            BY <1>4, <1>5, <2>2, <3>1, <3>2, <3>3
    <2> QED
        BY <2>1, <2>2
<1> SUFFICES ASSUME NEW f \in Fingerprints
             PROVE  LastSays(f)'
    BY DEF LastSaid
<1>7. CASE f = e.fp
    <2>1. \A n \in OffsetsOf(p, f) : n <= k
        BY <1>2 DEF OffsetsOf
    <2>2. LastIn(p, k, f)'
        BY <1>6, <1>7, <2>1 DEF LastIn
    <2>3. announced'[f] = log'[p][k + 1].owner
        BY <1>1, <1>4, <1>7
    <2> QED
        BY <2>2, <2>3 DEF LastSays
<1>8. CASE f # e.fp
    <2>1. announced'[f] = announced[f] /\ \A s \in Partitions : OffsetsOf(s, f)' = OffsetsOf(s, f)
        BY <1>1, <1>6, <1>8
    <2>2. ASSUME NEW s \in Partitions, NEW o \in Nat, LastIn(s, o, f), announced[f] = log[s][o + 1].owner
          PROVE  LastIn(s, o, f)' /\ announced'[f] = log'[s][o + 1].owner
        <3>1. s = p => o \in 0 .. k - 1
            BY <1>2, <2>2 DEF LastIn, OffsetsOf
        <3>2. log'[s][o + 1] = log[s][o + 1]
            BY <1>3, <1>4, <3>1
        <3> QED
            BY <2>1, <2>2, <3>2 DEF LastIn
    <2>3. LastSays(f)
        BY DEF LastSaid
    <2> QED
        BY <2>1, <2>2, <2>3 DEF LastSays
<1> QED
    BY <1>7, <1>8

\* The invariants of the two services, and that the log ends with what was announced.
PipelineInv == SvcInv /\ TypeInv /\ ReplayInv /\ LastSaid

\* At the start nothing is recorded, announced or written.
LEMMA PipelineInit == Init => PipelineInv
<1> SUFFICES ASSUME Init
             PROVE  PipelineInv
    OBVIOUS
<1>1. SvcInv /\ TypeInv /\ ReplayInv
    BY SvcInvInit, TypeInit, ReplayInit DEF Init
<1>2. \A f \in Fingerprints : announced[f] = NoOwner /\ \A p \in Partitions : OffsetsOf(p, f) = {}
    <2>1. \A p \in Partitions : Len(log[p]) = 0
        BY DEF Init, InitLog
    <2>2. \A f \in Fingerprints : announced[f] = NoOwner
        BY DEF Init, SvcInit
    <2> QED
        BY <2>1, <2>2 DEF OffsetsOf
<1>3. LastSaid
    BY <1>2 DEF LastSaid, LastSays
<1> QED
    BY <1>1, <1>3 DEF PipelineInv

\* The database, the log and Redis keep together under the steps of both services.
LEMMA PipelineStep == PipelineInv /\ [Next]_vars => PipelineInv'
<1> SUFFICES ASSUME PipelineInv, [Next]_vars
             PROVE  PipelineInv'
    OBVIOUS
<1> USE DEF PipelineInv
<1>1. ASSUME UNCHANGED <<log, svcVars>>
      PROVE  SvcInv' /\ LastSaid'
    <2>1. UNCHANGED <<log, docs, req, issued, announced, lost, contended, losses, retries, requests>>
        BY <1>1 DEF svcVars
    <2>2. requests \in Nat
        BY DEF SvcInv, SvcTypeOK
    <2>3. requests' \in Nat /\ requests <= requests'
        BY <2>1, <2>2
    <2>4. SvcInv'
        BY <2>1, <2>3, RestsKeeps
    <2> QED
        BY <2>1, <2>4 DEF LastSaid, LastSays, LastIn, OffsetsOf
<1>2. CASE SvcStep /\ UNCHANGED aclVars
    <2>1. SvcInv' /\ (UNCHANGED <<log, announced>> \/ \E p \in Partitions, e \in OwnershipEvent : AnnouncesOn(p, e))
        BY <1>2, ServiceMoves
    <2>2. CASE UNCHANGED <<log, announced>>
        <3>1. UNCHANGED allVars
            BY <1>2, <2>2 DEF allVars
        <3>2. TypeInv' /\ ReplayInv'
            BY <3>1, TypeStep, ReplayStep
        <3>3. LastSaid'
            BY <2>2 DEF LastSaid, LastSays, LastIn, OffsetsOf
        <3> QED
            BY <2>1, <3>2, <3>3
    <2>3. ASSUME NEW p \in Partitions, NEW e \in OwnershipEvent, AnnouncesOn(p, e)
          PROVE  TypeInv' /\ ReplayInv' /\ LastSaid'
        <3>1. Append2Partition(p, e)
            BY <2>3 DEF AnnouncesOn
        <3>2. TypeInv'
            BY <1>2, <3>1, TypePublishes
        <3>3. ReplayInv'
            BY <1>2, <3>1, <3>2, ReplayPublishes
        <3>4. LogTypeOK /\ announced \in [Fingerprints -> Owners \cup {NoOwner}]
            BY DEF SvcInv, SvcTypeOK
        <3>5. LastSaid'
            BY <2>3, <3>4, LastStaysSaid
        <3> QED
            BY <3>2, <3>3, <3>5
    <2> QED
        BY <2>1, <2>2, <2>3
<1>3. CASE AclStep /\ UNCHANGED svcVars
    <2>1. AclNext
        BY <1>3 DEF AclNext
    <2>2. log' = log
        BY <1>3 DEF AclStep, Start, RedisConnects, RedisDisconnects, Terminated, Killed, Exit, DeliverOwnership,
                    DeliverForeign, DeliverMalformed, Commit, RedisExecutes, Ack, CommandTimesOut, QueryMisses,
                    QueryFills
    <2> QED
        BY <1>1, <1>3, <2>1, <2>2, TypeStep, ReplayStep
<1>4. ASSUME NEW q \in Queries, ServiceAnswersFromDb(q), UNCHANGED svcVars
      PROVE  PipelineInv'
    <2> DEFINE f == query[q].fp
    <2>1. DbOwner(f) \in Owners \cup {NoOwner}
        <3>1. docs \in Seq(Doc)
            BY DEF SvcInv, SvcTypeOK
        <3>2. RecordsOf(f) # {} => docs[FirstOf(f)] \in Doc
            BY <3>1, FirstIsRecord
        <3> QED
            BY <3>2 DEF DbOwner, Doc, Owners
    <2>2. AclNext
        BY <1>4, <2>1 DEF ServiceAnswersFromDb, AclNext
    <2>3. log' = log
        BY <1>4 DEF ServiceAnswersFromDb, ServiceAnswers
    <2> QED
        BY <1>1, <1>4, <2>2, <2>3, TypeStep, ReplayStep
<1>5. CASE UNCHANGED vars
    <2>1. UNCHANGED allVars /\ UNCHANGED <<log, svcVars>>
        BY <1>5 DEF vars, allVars
    <2> QED
        BY <1>1, <2>1, TypeStep, ReplayStep
<1> QED
    BY <1>2, <1>3, <1>4, <1>5 DEF Next

\* Of the partitions with records of a certificate there is one at most, when they count so.
LEMMA OneOfThem ==
    ASSUME NEW P \in SUBSET Partitions, Cardinality(P) <= 1, NEW p \in P, NEW s \in P
    PROVE  p = s
<1> SUFFICES ASSUME p # s
             PROVE  FALSE
    OBVIOUS
<1>1. IsFiniteSet(P) /\ Cardinality(P) \in Nat
    BY PartitionsAreFinite, FS_Subset, FS_CardinalityType
<1>2. Cardinality(P \ {p}) = Cardinality(P) - 1 /\ IsFiniteSet(P \ {p})
    BY <1>1, FS_RemoveElement
<1>3. Cardinality(P \ {p}) = 0
    BY <1>1, <1>2, FS_CardinalityType
<1> QED
    BY <1>2, <1>3, FS_EmptySet

\* End to end: once the requests have ended and the consumer has caught up, Redis names the owner
\* that the database has, for every certificate on which requests followed one another and none failed,
\* that no query wrote, and whose events went to one partition; through every crash and redelivery.
THEOREM RedisFollowsDb == Spec => []AclMatchesDb
<1>1. PipelineInv => AclMatchesDb
    <2> SUFFICES ASSUME PipelineInv, Settled, NEW f \in Orderly, Recorded(f),
                        Cardinality({p \in Partitions : OffsetsOf(p, f) # {}}) <= 1
                 PROVE  redis[f] = DbOwner(f)
        BY DEF AclMatchesDb
    <2> DEFINE P == {p \in Partitions : OffsetsOf(p, f) # {}}
    <2>1. f \in Fingerprints \ (lost \cup contended) /\ f \in Fingerprints \ filled
        BY DEF Orderly
    <2>2. announced[f] = DbOwner(f)
        <3>1. Quiet(f)
            BY DEF Settled, Quiet, InProgress
        <3> QED
            BY <2>1, <3>1, RestFollowsDb DEF PipelineInv, LogFollowsDb
    <2>3. IF P = {} THEN redis[f] = NoOwner ELSE \E p \in P : redis[f] = OutcomeIn(p, f)
        BY <2>1, CaughtUpFollows DEF PipelineInv, AclFollowsLog, Settled
    <2>4. LastSays(f)
        BY <2>1 DEF PipelineInv, LastSaid
    <2>5. CASE P = {}
        <3>1. announced[f] = NoOwner
            BY <2>4, <2>5 DEF LastSays, LastIn
        <3> QED
            BY <2>2, <2>3, <2>5, <3>1
    <2>6. CASE P # {}
        <3>1. PICK p \in P : redis[f] = OutcomeIn(p, f)
            BY <2>3, <2>6
        <3>2. PICK s \in Partitions, o \in Nat : LastIn(s, o, f) /\ announced[f] = log[s][o + 1].owner
            BY <2>4, <2>6 DEF LastSays
        <3>3. s \in P
            BY <3>2 DEF LastIn
        <3>4. p = s
            BY <3>3, OneOfThem
        <3>5. Latest(OffsetsOf(s, f)) = o
            BY <3>2, LatestIs DEF LastIn, PipelineInv
        <3> QED
            BY <2>2, <3>1, <3>2, <3>4, <3>5 DEF OutcomeIn
    <2> QED
        BY <2>5, <2>6
<1>2. Spec => []PipelineInv
    BY PipelineInit, PipelineStep, PTL DEF Spec
<1> QED
    BY <1>1, <1>2, PTL

=============================================================================
