----------------------------- MODULE CertSidecar -----------------------------
(***************************************************************************)
(* tools/cert-sidecar: keeps the private key, the certificate, the CA's    *)
(* certificate, the bundle and the CRL of a service in files.  They are    *)
(* made at the start and renewed by cron jobs, which run side by side in   *)
(* one event loop, each awaiting openssl, x509-identity-mgmt and the disk. *)
(* A job is the sequence of the operations it has yet to do.               *)
(***************************************************************************)
EXTENDS Naturals, Sequences

CONSTANTS
    MaxKeys,        \* keys made
    MaxVersions,    \* versions of the CA and of the CRL
    MaxTicks,       \* runs of the cron jobs
    MaxCertFaults   \* failed operations

ASSUME CertSidecarAssumption ==
    MaxKeys \in Nat /\ MaxVersions \in Nat /\ MaxTicks \in Nat /\ MaxCertFaults \in Nat

VARIABLES
    deletes,        \* app.delete.certificates
    running,
    memory, disk,   \* fields of Certificates, and the files; 0: none
    authority,      \* x509-identity-mgmt: versions of its CA and its CRL
    keyOf,          \* the key of each certificate issued
    keys,           \* number of keys made
    todo, value,    \* operations left of each job, and what its last one fetched
    ticks, certFaults,
    expired,        \* a certificate was renewed because it expires (history)
    ragged          \* a job failed, two jobs wrote a file at once, or a job ran beside the end (history)

certWorld == <<deletes, authority>>
pairVars == <<keyOf, keys>>
boundVars == <<ticks, certFaults>>
certVars == <<certWorld, running, memory, disk, pairVars, todo, value, boundVars, expired, ragged>>

Crons == {"crl", "expiry", "revocation", "bundle"}
Jobs == Crons \cup {"init", "shutdown"}

\* CertificatesMgmt.init, the cron jobs, and deleteAllFiles in its order.
Program(job) ==
    CASE job = "init" -> <<"key", "csr", "ca", "bundle", "crl">>
      [] job = "crl" -> <<"crl">>
      [] job = "bundle" -> <<"bundle">>
      [] job = "expiry" -> <<"checkCa", "checkCert">>
      [] job = "revocation" -> <<"checkRevoked">>
      [] job = "shutdown" -> IF deletes THEN <<"unlink crl", "unlink ca", "unlink bundle", "unlink cert", "unlink key", "exit">>
                             ELSE <<"exit">>

CertInit ==
    /\ deletes \in BOOLEAN /\ running = TRUE
    /\ memory = [key |-> 0, cert |-> 0, ca |-> 0, crl |-> 0]
    /\ disk = [key |-> 0, cert |-> 0, ca |-> 0, bundle |-> 0, crl |-> 0]
    /\ authority = [ca |-> 1, crl |-> 1]
    /\ keyOf = <<>> /\ keys = 0
    /\ todo = [j \in Jobs |-> IF j = "init" THEN Program(j) ELSE <<>>]
    /\ value = [j \in Jobs |-> 0]
    /\ ticks = 0 /\ certFaults = 0 /\ expired = FALSE /\ ragged = FALSE

Started == todo["init"] = <<>>
Idle == \A j \in Jobs : todo[j] = <<>>
Doing(j, operation) == running /\ todo[j] # <<>> /\ Head(todo[j]) = operation
\* The job goes on with some operations before the rest of its program.
Continues(j, operations) == todo' = [todo EXCEPT ![j] = operations \o Tail(@)]
Fetches(j, v) == value' = [value EXCEPT ![j] = v]

-----------------------------------------------------------------------------
\* A tick of a cron job: nothing stops them when the process is being shut down.
Ticks(j) ==
    /\ running /\ Started
    /\ todo[j] = <<>>
    /\ ticks < MaxTicks /\ ticks' = ticks + 1
    /\ todo' = [todo EXCEPT ![j] = Program(j)]
    /\ ragged' = (ragged \/ todo["shutdown"] # <<>>)
    /\ UNCHANGED <<certWorld, running, memory, disk, pairVars, value, certFaults, expired>>

\* The CA or the CRL changes at x509-identity-mgmt.
AuthorityChanges(field) ==
    /\ authority[field] < MaxVersions
    /\ authority' = [authority EXCEPT ![field] = @ + 1]
    /\ UNCHANGED <<deletes, running, memory, disk, pairVars, todo, value, boundVars, expired, ragged>>

\* generatePrivateKey
MakesKey(j) ==
    /\ Doing(j, "key") /\ keys < MaxKeys
    /\ keys' = keys + 1
    /\ memory' = [memory EXCEPT !.key = keys'] /\ Fetches(j, keys')
    /\ Continues(j, <<"write key">>)
    /\ UNCHANGED <<certWorld, running, disk, keyOf, boundVars, expired, ragged>>

\* generateCertificate: the CSR is made for the key in memory; without one,
\* createCSR of the pem library makes a key that nobody keeps.
MakesCsr(j) ==
    /\ Doing(j, "csr")
    /\ IF memory.key # 0 THEN Fetches(j, memory.key) /\ UNCHANGED keys
       ELSE keys < MaxKeys /\ keys' = keys + 1 /\ Fetches(j, keys')
    /\ Continues(j, <<"sign">>)
    /\ UNCHANGED <<certWorld, running, memory, disk, keyOf, boundVars, expired, ragged>>

Signs(j) ==
    /\ Doing(j, "sign")
    /\ keyOf' = Append(keyOf, value[j])
    /\ memory' = [memory EXCEPT !.cert = Len(keyOf')] /\ Fetches(j, Len(keyOf'))
    /\ Continues(j, <<"write cert">>)
    /\ UNCHANGED <<certWorld, running, disk, keys, boundVars, expired, ragged>>

RetrievesCa(j) ==
    /\ Doing(j, "ca")
    /\ memory' = [memory EXCEPT !.ca = authority.ca] /\ Fetches(j, authority.ca)
    /\ Continues(j, <<"write ca">>)
    /\ ragged' = (ragged \/ \E other \in Jobs \ {j} : Doing(other, "write ca"))
    /\ UNCHANGED <<certWorld, running, disk, pairVars, boundVars, expired>>

RetrievesBundle(j) ==
    /\ Doing(j, "bundle")
    /\ Fetches(j, authority.ca)
    /\ Continues(j, <<"write bundle">>)
    /\ UNCHANGED <<certWorld, running, memory, disk, pairVars, boundVars, expired, ragged>>

\* Mutant: the new CRL is compared with the one before it was kept.
RetrievesCrlOnce(j) ==
    /\ Doing(j, "crl")
    /\ Fetches(j, authority.crl)
    /\ memory' = [memory EXCEPT !.crl = authority.crl]
    /\ Continues(j, IF memory.crl = 0 THEN <<"write crl">> ELSE <<>>)
    /\ UNCHANGED <<certWorld, running, disk, pairVars, boundVars, expired, ragged>>

\* retrieveCRL: a CRL with the fingerprint of the one in memory is not written again.
RetrievesCrl(j) ==
    /\ Doing(j, "crl")
    /\ Fetches(j, authority.crl)
    /\ memory' = [memory EXCEPT !.crl = authority.crl]
    /\ Continues(j, IF memory.crl # authority.crl THEN <<"write crl">> ELSE <<>>)
    /\ UNCHANGED <<certWorld, running, disk, pairVars, boundVars, expired, ragged>>

Written == [key |-> "write key", cert |-> "write cert", ca |-> "write ca", bundle |-> "write bundle", crl |-> "write crl"]
Unlinked == [key |-> "unlink key", cert |-> "unlink cert", ca |-> "unlink ca", bundle |-> "unlink bundle", crl |-> "unlink crl"]

\* createFile
WritesFile(j, file) ==
    /\ Doing(j, Written[file])
    /\ disk' = [disk EXCEPT ![file] = value[j]]
    /\ Continues(j, <<>>)
    /\ UNCHANGED <<certWorld, running, memory, pairVars, value, boundVars, expired, ragged>>

\* deleteFile
Unlinks(j, file) ==
    /\ Doing(j, Unlinked[file]) /\ disk[file] # 0
    /\ disk' = [disk EXCEPT ![file] = 0]
    /\ Continues(j, <<>>)
    /\ UNCHANGED <<certWorld, running, memory, pairVars, value, boundVars, expired, ragged>>

Deletion(files) == IF deletes THEN files ELSE <<>>

\* certsWillExpire: the CA, then the certificate.
ChecksCa(j) ==
    /\ Doing(j, "checkCa") /\ memory.ca # 0
    /\ \/ Continues(j, <<>>)
       \/ Continues(j, Deletion(<<"unlink ca">>) \o <<"drop ca", "ca">>)
    /\ UNCHANGED <<certWorld, running, memory, disk, pairVars, value, boundVars, expired, ragged>>

ChecksCert(j) ==
    /\ Doing(j, "checkCert") /\ memory.cert # 0
    /\ \/ Continues(j, <<>>) /\ UNCHANGED expired
       \/ /\ Continues(j, Deletion(<<"unlink key", "unlink cert">>) \o <<"drop cert", "csr">>)
          /\ expired' = TRUE
    /\ UNCHANGED <<certWorld, running, memory, disk, pairVars, value, boundVars, ragged>>

DropsCa(j) ==
    /\ Doing(j, "drop ca")
    /\ memory' = [memory EXCEPT !.ca = 0]
    /\ Continues(j, <<>>)
    /\ UNCHANGED <<certWorld, running, disk, pairVars, value, boundVars, expired, ragged>>

DropsCert(j) ==
    /\ Doing(j, "drop cert")
    /\ memory' = [memory EXCEPT !.key = 0, !.cert = 0]
    /\ Continues(j, <<>>)
    /\ UNCHANGED <<certWorld, running, disk, pairVars, value, boundVars, expired, ragged>>

\* certHasRevoked: whether openssl finds the certificate in the CRL is left open.
ChecksRevoked(j) ==
    /\ Doing(j, "checkRevoked") /\ memory.cert # 0
    /\ \/ Continues(j, <<>>)
       \/ Continues(j, <<"key", "csr", "ca">>)
    /\ UNCHANGED <<certWorld, running, memory, disk, pairVars, value, boundVars, expired, ragged>>

\* A check of what is not in memory, and the deletion of a missing file, fail.
Hopeless(j) ==
    \/ Doing(j, "checkCa") /\ memory.ca = 0
    \/ (Doing(j, "checkCert") \/ Doing(j, "checkRevoked")) /\ memory.cert = 0
    \/ \E file \in DOMAIN disk : Doing(j, Unlinked[file]) /\ disk[file] = 0

\* A job that fails ends, and is only logged: errorHandle, when there is one, is no function.  A
\* failed start makes no cron job, deletes the files and ends the process.
CertFails(j) ==
    /\ running /\ todo[j] # <<>> /\ Head(todo[j]) \notin {"exit", "drop ca", "drop cert", "failed"}
    /\ IF Hopeless(j) THEN UNCHANGED certFaults ELSE certFaults < MaxCertFaults /\ certFaults' = certFaults + 1
    /\ todo' = IF j = "init" THEN [todo EXCEPT ![j] = <<"failed">>, !["shutdown"] = Program("shutdown")]
               ELSE [todo EXCEPT ![j] = IF j = "shutdown" THEN <<"exit">> ELSE <<>>]
    /\ ragged' = (ragged \/ j # "shutdown" \/ ~Hopeless(j))
    /\ UNCHANGED <<certWorld, running, memory, disk, pairVars, value, ticks, expired>>

\* SIGTERM, or the shutdown that the start asks for with shutdown.enable: lightship
\* runs the handlers.  Ours is registered last by init; before, the process ends at once.
Terminates ==
    /\ running
    /\ \/ /\ Started /\ todo["shutdown"] = <<>>
          /\ todo' = [todo EXCEPT !["shutdown"] = Program("shutdown")]
          /\ UNCHANGED running
       \/ ~Started /\ running' = FALSE /\ UNCHANGED todo
    /\ ragged' = (ragged \/ ~Idle)
    /\ UNCHANGED <<certWorld, memory, disk, pairVars, value, boundVars, expired>>

Exits ==
    /\ Doing("shutdown", "exit")
    /\ running' = FALSE
    /\ UNCHANGED <<certWorld, memory, disk, pairVars, todo, value, boundVars, expired, ragged>>

CertNext ==
    \/ \E j \in Crons : Ticks(j)
    \/ \E field \in {"ca", "crl"} : AuthorityChanges(field)
    \/ \E j \in Jobs :
        \/ MakesKey(j) \/ MakesCsr(j) \/ Signs(j)
        \/ RetrievesCa(j) \/ RetrievesBundle(j) \/ RetrievesCrl(j)
        \/ ChecksCa(j) \/ ChecksCert(j) \/ DropsCa(j) \/ DropsCert(j) \/ ChecksRevoked(j)
        \/ CertFails(j)
        \/ \E file \in DOMAIN disk : WritesFile(j, file) \/ Unlinks(j, file)
    \/ Terminates \/ Exits

CertSpec == CertInit /\ [][CertNext]_certVars

-----------------------------------------------------------------------------
CertTypeOK ==
    /\ \A file \in DOMAIN disk : disk[file] \in Nat
    /\ memory.cert \in 0..Len(keyOf)
    /\ \A c \in DOMAIN keyOf : keyOf[c] \in 1..keys

Paired == disk.cert # 0 /\ keyOf[disk.cert] = disk.key

\* With no job under way the certificate's file goes with the key's file,
\* through renewals of a revoked certificate that failed in no step (certHasRevoked).
PairRenewed == running /\ Idle /\ ~ragged /\ ~expired => Paired

\* The same whatever the reason of the renewal (README.md:29 "generate a key
\* pair and then a CSR"): certsWillExpire forgets the key and makes none.
KeyGoesWithCertificate == running /\ Idle /\ ~ragged => Paired

\* With no job under way the files of the CA and of the CRL are what the process
\* has in memory and goes by, unless a step failed or two jobs fetched the CA at once.
FilesFollowMemory == running /\ Idle /\ ~ragged => disk.ca = memory.ca /\ disk.crl = memory.crl

\* When no job had failed, and none was under way or began while files were deleted, a
\* termination with app.delete.certificates leaves none, the private key least of all (deleteAllFiles).
NothingLeftBehind ==
    ~running /\ deletes /\ ~ragged => \A file \in DOMAIN disk : disk[file] = 0

\* All three: what the pod reads is what the process goes by, until it leaves nothing.
FilesFollowProcess == PairRenewed /\ FilesFollowMemory /\ NothingLeftBehind
=============================================================================
