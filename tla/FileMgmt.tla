------------------------------ MODULE FileMgmt ------------------------------
(***************************************************************************)
(* storage/file/minio/file-mgmt: files of a tenant in a MinIO bucket.  An  *)
(* upload is streamed into a temporary object while its form is parsed,    *)
(* then copied to its path or rolled back; Kafka's tenant events and the   *)
(* start of the service create and remove the bucket.  One tenant, one path*)
(***************************************************************************)
EXTENDS Naturals

CONSTANTS
    Uploads,
    NoUpload,       \* the path holds nothing
    Removers,       \* removals of the bucket that may run at once
    MaxTenancies,   \* creations and removals of the tenant
    MaxFileFaults   \* failed requests and kills

ASSUME FileMgmtAssumption ==
    /\ NoUpload \notin Uploads
    /\ MaxTenancies \in Nat /\ MaxFileFaults \in Nat

VARIABLES
    service,        \* App.init: "starting", "serving", or "failed"
    admitted, shared,
                    \* the tenant is in the list the authentication was given; that list is still listTenants
    bucket, file, tmp,
                    \* MinIO: whether the bucket exists, the object at the path, those under /.tmp/
    upload,         \* requests being handled
    deletion,       \* DELETE /files/remove: "idle", or "stated" once statObject found the file
    tenancies,      \* events of the tenant published so far: creations and removals in turn
    consumed, committed,
                    \* Kafka: events taken, and the offset a restart begins from
    tenancy,        \* handling of an event: "idle", "start", "bucket", "push"
    listed,         \* the tenant is in listTenants
    remover,        \* removeBucket, which nobody awaits
    fileFaults,
    leftover,       \* uploads whose temporary object may stay (history)
    overlapped      \* the bucket may be missing (history)

objectVars == <<file, tmp>>
uploadVars == <<upload, leftover>>
tenancyVars == <<tenancies, consumed, committed, tenancy, listed>>
serviceVars == <<service, admitted, shared>>
fileVars == <<serviceVars, bucket, objectVars, uploadVars, deletion, tenancyVars, remover, fileFaults, overlapped>>

Exists == tenancies % 2 = 1     \* in Keycloak

Fresh == [phase |-> "idle", kind |-> "good", big |-> FALSE, put |-> "none",
          rollback |-> "none", finished |-> FALSE, called |-> FALSE, answer |-> "none"]
NotRemoving == [phase |-> "none", objects |-> {}]

FileInit ==
    /\ service = "starting" /\ admitted = FALSE /\ shared = TRUE
    /\ bucket = FALSE /\ file = NoUpload /\ tmp = {}
    /\ upload = [u \in Uploads |-> Fresh] /\ leftover = {}
    /\ deletion = "idle"
    /\ tenancies = 0 /\ consumed = 0 /\ committed = 0 /\ tenancy = "idle" /\ listed = FALSE
    /\ remover = [r \in Removers |-> NotRemoving]
    /\ fileFaults = 0 /\ overlapped = FALSE

FileFault == fileFaults < MaxFileFaults /\ fileFaults' = fileFaults + 1

-----------------------------------------------------------------------------
(* Uploads: busboy-interceptor and FileUploadService *)

\* Several fields of a request change at once.
Becomes(u, r) == upload' = [upload EXCEPT ![u] = r]
Answered(r, code) == IF r.answer = "none" THEN [r EXCEPT !.answer = code] ELSE r
\* next(error): express skips the controller, unless next() got there first.
Fails(r, code) == [Answered(r, code) EXCEPT !.called = TRUE]
\* next() on loaded-end, once the object is put and the form is parsed.
LoadedEnd(r) ==
    IF r.put = "done" /\ r.finished /\ ~r.called THEN [r EXCEPT !.called = TRUE, !.phase = "validate"] ELSE r

\* The interceptor checks the bucket and pipes the form into busboy; putTmpObject
\* starts when the file's part begins.  "bad": a wrong path or checksum.
Receives(u) ==
    /\ service = "serving" /\ admitted
    /\ upload[u].phase = "idle"
    /\ \E kind \in {"good", "bad", "no file"}, big \in BOOLEAN :
        /\ big => kind # "no file"
        /\ Becomes(u, IF ~bucket THEN Fails([Fresh EXCEPT !.phase = "over", !.kind = kind], "400")
                      ELSE [Fresh EXCEPT !.phase = "receiving", !.kind = kind, !.big = big,
                                         !.put = IF kind = "no file" THEN "none" ELSE "sent"])
    /\ UNCHANGED <<serviceVars, bucket, objectVars, leftover, deletion, tenancyVars, remover, fileFaults, overlapped>>

\* A text field named 'file' is answered, but the rest of the form, and a part of that
\* name with it, is received all the same; the controller is not reached any more.
FieldNamedFile(u) ==
    /\ upload[u].phase = "receiving" /\ ~upload[u].finished
    /\ Becomes(u, Fails(upload[u], "400"))
    /\ leftover' = leftover \cup {u}
    /\ UNCHANGED <<serviceVars, bucket, objectVars, deletion, tenancyVars, remover, fileFaults, overlapped>>

\* The part grows over the limit: it ends here and the temporary object is
\* rolled back, though its put may not have reached MinIO.
LimitReached(u) ==
    /\ upload[u].big /\ upload[u].rollback = "none"
    /\ Becomes(u, [upload[u] EXCEPT !.rollback = "sent"])
    /\ leftover' = leftover \cup {u}
    /\ UNCHANGED <<serviceVars, bucket, objectVars, deletion, tenancyVars, remover, fileFaults, overlapped>>

LimitRolledBack(u) ==
    /\ upload[u].rollback = "sent" /\ bucket
    /\ tmp' = tmp \ {u}
    /\ Becomes(u, [upload[u] EXCEPT !.rollback = "removed"])
    /\ UNCHANGED <<serviceVars, bucket, file, leftover, deletion, tenancyVars, remover, fileFaults, overlapped>>

\* ... and answered once that is done: the object may have been put, and the controller called, by then.
LimitAnswered(u) ==
    /\ upload[u].rollback = "removed"
    /\ Becomes(u, Fails([upload[u] EXCEPT !.rollback = "done"], "413"))
    /\ UNCHANGED <<serviceVars, bucket, objectVars, leftover, deletion, tenancyVars, remover, fileFaults, overlapped>>

PartEnds(u) == upload[u].big => upload[u].rollback # "none"

\* Mutant: the file is put at its path.
PutsInPlace(u) ==
    /\ upload[u].put = "sent" /\ PartEnds(u)
    /\ \/ /\ bucket
          /\ file' = u /\ tmp' = tmp \cup {u}
          /\ Becomes(u, LoadedEnd([upload[u] EXCEPT !.put = "done"]))
          /\ UNCHANGED fileFaults
       \/ /\ (~bucket /\ UNCHANGED fileFaults) \/ FileFault
          /\ Becomes(u, Fails([upload[u] EXCEPT !.put = "failed"], "500"))
          /\ UNCHANGED objectVars
    /\ UNCHANGED <<serviceVars, bucket, leftover, deletion, tenancyVars, remover, overlapped>>

\* putTmpObject: MinIO takes the object when its part is over.  A request that fails
\* may have been executed, here and below.
PutsTmpObject(u) ==
    /\ upload[u].put = "sent" /\ PartEnds(u)
    /\ \/ /\ bucket
          /\ tmp' = tmp \cup {u}
          /\ Becomes(u, LoadedEnd([upload[u] EXCEPT !.put = "done"]))
          /\ UNCHANGED <<fileFaults, leftover>>
       \/ /\ \/ ~bucket /\ UNCHANGED <<tmp, fileFaults, leftover>>
             \/ FileFault /\ bucket /\ tmp' \in {tmp, tmp \cup {u}} /\ leftover' = leftover \cup {u}
          /\ Becomes(u, Fails([upload[u] EXCEPT !.put = "failed"], "500"))
    /\ UNCHANGED <<serviceVars, bucket, file, deletion, tenancyVars, remover, overlapped>>

\* busboy finishes the form; one without a file is never answered.
FormFinishes(u) ==
    /\ upload[u].phase = "receiving" /\ ~upload[u].finished /\ PartEnds(u)
    /\ Becomes(u, LoadedEnd([upload[u] EXCEPT !.finished = TRUE]))
    /\ UNCHANGED <<serviceVars, bucket, objectVars, leftover, deletion, tenancyVars, remover, fileFaults, overlapped>>

\* A wrong path or checksum: rollbackObject, then the error.
RollsBack(u) ==
    /\ upload[u].phase = "validate" /\ upload[u].kind # "good"
    /\ \/ tmp' = tmp \ {u} /\ UNCHANGED <<fileFaults, leftover>>
       \/ FileFault /\ leftover' = leftover \cup {u} /\ tmp' \in {tmp, tmp \ {u}}
    /\ Becomes(u, Answered([upload[u] EXCEPT !.phase = "over"],
                           IF bucket /\ fileFaults' = fileFaults THEN "400" ELSE "500"))
    /\ UNCHANGED <<serviceVars, bucket, file, deletion, tenancyVars, remover, overlapped>>

\* commitObject: copyObject, which MinIO may execute after the answer was given up ...
Copies(u) ==
    /\ upload[u].phase = "validate" /\ upload[u].kind = "good"
    /\ \/ /\ bucket /\ u \in tmp
          /\ file' = u /\ Becomes(u, [upload[u] EXCEPT !.phase = "copied"])
          /\ UNCHANGED <<fileFaults, leftover>>
       \/ /\ \/ u \notin tmp /\ UNCHANGED fileFaults
                /\ Becomes(u, Answered([upload[u] EXCEPT !.phase = "over"], "500"))
             \/ FileFault /\ Becomes(u, Answered([upload[u] EXCEPT !.phase = "lost"], "500"))
          /\ leftover' = leftover \cup {u} /\ UNCHANGED file
    /\ UNCHANGED <<serviceVars, bucket, tmp, deletion, tenancyVars, remover, overlapped>>

LostCopy(u) ==
    /\ upload[u].phase = "lost"
    /\ bucket /\ u \in tmp
    /\ file' = u /\ Becomes(u, [upload[u] EXCEPT !.phase = "over"])
    /\ UNCHANGED <<serviceVars, bucket, tmp, leftover, deletion, tenancyVars, remover, fileFaults, overlapped>>

\* ... and removeObject of the temporary one.
RemovesTmpObject(u) ==
    /\ upload[u].phase = "copied"
    /\ \/ tmp' = tmp \ {u} /\ UNCHANGED <<fileFaults, leftover>>
       \/ FileFault /\ leftover' = leftover \cup {u} /\ tmp' \in {tmp, tmp \ {u}}
    /\ Becomes(u, Answered([upload[u] EXCEPT !.phase = "over"],
                           IF bucket /\ fileFaults' = fileFaults THEN "201" ELSE "500"))
    /\ UNCHANGED <<serviceVars, bucket, file, deletion, tenancyVars, remover, overlapped>>

\* FileRemovalService: statObject and removeObject.
DeletionStats ==
    /\ service = "serving" /\ admitted /\ deletion = "idle" /\ file # NoUpload
    /\ deletion' = "stated"
    /\ UNCHANGED <<serviceVars, bucket, objectVars, uploadVars, tenancyVars, remover, fileFaults, overlapped>>

DeletionRemoves ==
    /\ deletion = "stated" /\ deletion' = "idle"
    /\ file' = NoUpload
    /\ UNCHANGED <<serviceVars, bucket, tmp, uploadVars, tenancyVars, remover, fileFaults, overlapped>>

-----------------------------------------------------------------------------
(* Buckets: TenantService and KafkaController *)

TenantChanges ==
    /\ tenancies < MaxTenancies
    /\ tenancies' = tenancies + 1
    /\ UNCHANGED <<serviceVars, bucket, objectVars, uploadVars, deletion, consumed, committed, tenancy, listed, remover, fileFaults, overlapped>>

\* removeBucket returns while its stream of objects is being read.
StartsRemover == \E r \in Removers :
    remover[r] = NotRemoving /\ remover' = [remover EXCEPT ![r].phase = "list"]

Creates == tenancy' = IF listed THEN "idle" ELSE "start"

\* updateListTenants: a bucket without a tenant is removed, a tenant is created.
Starts ==
    /\ service = "starting" /\ tenancy = "idle"
    /\ IF Exists THEN Creates /\ UNCHANGED <<serviceVars, remover>>
       ELSE /\ service' = "serving" /\ UNCHANGED <<admitted, shared, tenancy>>
            /\ IF bucket THEN StartsRemover ELSE UNCHANGED remover
    /\ UNCHANGED <<bucket, objectVars, uploadVars, deletion, tenancies, consumed, committed, listed, fileFaults, overlapped>>

\* handleTenancy; one event at a time (sdk.in.processing.max.messages), and
\* acknowledged when it is over.
TakesCreation ==
    /\ service = "serving" /\ tenancy = "idle"
    /\ consumed < tenancies /\ consumed % 2 = 0
    /\ consumed' = consumed + 1
    /\ Creates
    /\ UNCHANGED <<serviceVars, bucket, objectVars, uploadVars, deletion, tenancies, committed, listed, remover, fileFaults, overlapped>>

TakesRemoval ==
    /\ service = "serving" /\ tenancy = "idle"
    /\ consumed < tenancies /\ consumed % 2 = 1
    /\ consumed' = consumed + 1
    /\ StartsRemover
    /\ listed' = FALSE /\ shared' = (shared /\ ~listed)
    /\ UNCHANGED <<service, admitted, bucket, objectVars, uploadVars, deletion, tenancies, committed, tenancy, fileFaults, overlapped>>

Commits ==
    /\ tenancy = "idle" /\ committed < consumed
    /\ committed' = consumed
    /\ UNCHANGED <<serviceVars, bucket, objectVars, uploadVars, deletion, tenancies, consumed, tenancy, listed, remover, fileFaults, overlapped>>

\* The session starts, or it fails: the event is given up, the start of the service too.
SessionStarts ==
    /\ tenancy = "start"
    /\ \/ Exists /\ tenancy' = "bucket" /\ UNCHANGED <<serviceVars, fileFaults>>
       \/ /\ (~Exists /\ UNCHANGED fileFaults) \/ FileFault
          /\ tenancy' = "idle"
          /\ service' = (IF service = "starting" THEN "failed" ELSE service)
          /\ UNCHANGED <<admitted, shared>>
    /\ UNCHANGED <<bucket, objectVars, uploadVars, deletion, tenancies, consumed, committed, listed, remover, overlapped>>

RemoverBusy == \E r \in Removers : remover[r] # NotRemoving

\* Mutant: the check for the bucket is the wrong way round.
EnsuresNoBucket ==
    /\ tenancy = "bucket" /\ tenancy' = "push"
    /\ overlapped' = RemoverBusy
    /\ UNCHANGED <<serviceVars, bucket, fileFaults, objectVars, uploadVars, deletion, tenancies, consumed, committed, listed, remover>>

\* bucketExists and createBucket; a failure is only logged.
EnsuresBucket ==
    /\ tenancy = "bucket" /\ tenancy' = "push"
    /\ \/ bucket' = TRUE /\ overlapped' = RemoverBusy /\ UNCHANGED fileFaults
       \/ FileFault /\ overlapped' = TRUE /\ bucket' \in {bucket, TRUE}
    /\ UNCHANGED <<serviceVars, objectVars, uploadVars, deletion, tenancies, consumed, committed, listed, remover>>

\* listTenants.push; at the start the web server is set up next.
PushesTenant ==
    /\ tenancy = "push" /\ tenancy' = "idle"
    /\ listed' = TRUE /\ service' = "serving"
    /\ admitted' = (admitted \/ shared)
    /\ UNCHANGED <<shared, bucket, objectVars, uploadVars, deletion, tenancies, consumed, committed, remover, fileFaults, overlapped>>

RemoverLists(r) ==
    /\ remover[r].phase = "list"
    /\ remover' = [remover EXCEPT ![r] = IF bucket THEN [phase |-> "objects", objects |-> tmp \cup {file}] ELSE NotRemoving]
    /\ UNCHANGED <<serviceVars, bucket, objectVars, uploadVars, deletion, tenancyVars, fileFaults, overlapped>>

\* The listed names are removed, whatever they hold by now.
RemoverEmpties(r) ==
    /\ remover[r].phase = "objects"
    /\ tmp' = tmp \ remover[r].objects
    /\ file' = IF remover[r].objects \subseteq tmp THEN file ELSE NoUpload
    /\ remover' = [remover EXCEPT ![r].phase = "bucket"]
    /\ UNCHANGED <<serviceVars, bucket, uploadVars, deletion, tenancyVars, fileFaults, overlapped>>

\* MinIO refuses to remove a bucket that is not empty.
RemoverRemoves(r) ==
    /\ remover[r].phase = "bucket"
    /\ bucket' = (bucket /\ (tmp # {} \/ file # NoUpload))
    /\ remover' = [remover EXCEPT ![r] = NotRemoving]
    /\ UNCHANGED <<serviceVars, objectVars, uploadVars, deletion, tenancyVars, fileFaults, overlapped>>

\* A copy under way may still be executed.
Forgotten(r) ==
    IF r.phase = "idle" THEN Fresh
    ELSE [Fresh EXCEPT !.phase = IF r.phase = "lost" \/ (r.phase = "validate" /\ r.kind = "good") THEN "lost" ELSE "over",
                       !.kind = r.kind, !.answer = r.answer]

\* The process ends: requests and removals are forgotten, their objects stay.  It is killed,
\* or the limit's rollback is rejected, which nothing catches and Node.js 16 does not survive.
Killed ==
    /\ FileFault \/ (~bucket /\ UNCHANGED fileFaults /\ \E u \in Uploads : upload[u].rollback = "sent")
    /\ service' = "starting" /\ admitted' = FALSE /\ shared' = TRUE
    /\ listed' = FALSE /\ tenancy' = "idle" /\ consumed' = committed
    /\ upload' = [u \in Uploads |-> Forgotten(upload[u])]
    /\ leftover' = Uploads
    /\ deletion' = "idle"
    /\ remover' = [r \in Removers |-> NotRemoving]
    /\ overlapped' = FALSE
    /\ UNCHANGED <<bucket, objectVars, tenancies, committed>>

FileNext ==
    \/ \E u \in Uploads :
        \/ Receives(u) \/ FieldNamedFile(u) \/ LimitReached(u) \/ LimitRolledBack(u) \/ LimitAnswered(u)
        \/ PutsTmpObject(u) \/ FormFinishes(u)
        \/ RollsBack(u) \/ Copies(u) \/ LostCopy(u) \/ RemovesTmpObject(u)
    \/ DeletionStats \/ DeletionRemoves
    \/ TenantChanges \/ Starts \/ TakesCreation \/ TakesRemoval \/ Commits
    \/ SessionStarts \/ EnsuresBucket \/ PushesTenant
    \/ \E r \in Removers : RemoverLists(r) \/ RemoverEmpties(r) \/ RemoverRemoves(r)
    \/ Killed

FileSpec == FileInit /\ [][FileNext]_fileVars
-----------------------------------------------------------------------------
FileTypeOK ==
    /\ bucket \/ (tmp = {} /\ file = NoUpload)
    /\ tmp \subseteq Uploads /\ file \in Uploads \cup {NoUpload}
    /\ service \in {"starting", "serving", "failed"}
    /\ \A u \in Uploads : upload[u].answer \in {"none", "201", "400", "413", "500"}
    /\ committed <= consumed /\ consumed <= tenancies

\* The path holds nothing or one upload, stored at once and at most once.  What a wrong path,
\* a wrong checksum or a failed put refused is never stored; an upload over the limit is stored
\* after its refusal only if the controller was called while the rollback was awaited, and
\* another one only if the answer to its copy was lost, with the process or without.
Pending == {u \in Uploads : upload[u].answer = "none" /\ upload[u].phase \notin {"copied", "over", "lost"}}
Overdue == {u \in Uploads : \/ upload[u].phase = "lost"
                            \/ upload[u].phase = "validate" /\ upload[u].big /\ upload[u].answer # "none"}
Files == INSTANCE FileStore WITH pending <- Pending, late <- Overdue
StoresAtomically == Files!StoreSpec

\* Nothing more is done for the request.
Through(r) == \/ r.phase \in {"over", "lost"}
              \/ r.phase = "receiving" /\ r.called /\ r.finished /\ r.put # "sent"

\* A request that is over leaves no temporary object, unless a request to MinIO
\* failed, the limit was reached, its form had a text field named 'file' as well,
\* or the service was killed.
LeavesNoTemporaries ==
    \A u \in tmp : Through(upload[u]) => u \in leftover

\* A tenant of the list has its bucket, which nobody is removing, through restarts and events
\* delivered again, unless its creation failed or overlapped with a removal nobody awaited.
TenantsHaveBucket == listed => (bucket /\ ~RemoverBusy) \/ overlapped

\* Both: the bucket of a tenant of the list is there, with nothing left over from requests.
BucketsAreSound == TenantsHaveBucket /\ LeavesNoTemporaries
=============================================================================
