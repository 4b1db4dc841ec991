------------------------------ MODULE Reports ------------------------------
(***************************************************************************)
(* data-visualization/reports/report-manager: a report is a row and a job  *)
(* of a Bull queue; a worker makes its file, stores it in file-mgmt and    *)
(* records it.  Requests delete reports at any time, and the events of the *)
(* tenant create and drop the schema all the rows are in.  A worker may die*)
(* and a job may stall: the queue then runs it once more, even beside the  *)
(* first run.  One tenant.                                                 *)
(***************************************************************************)
EXTENDS Naturals

CONSTANTS
    Reports,
    NoReport,
    Workers,         \* jobs processed at once: one per replica
    MaxEvents,       \* events of the tenant
    MaxReportFaults  \* failed calls, stalled jobs and killed workers

ASSUME ReportsAssumption ==
    /\ NoReport \notin Reports
    /\ MaxEvents \in Nat /\ MaxReportFaults \in Nat

VARIABLES
    start,           \* App.init: "consuming", "updating", "serving"
    snapshot,        \* the answer of keycloak: the tenant exists
    inList,          \* the tenant is in TenantManager.tenants
    admits, captive, \* it is in the array the authentication was given; that array is still tenants
    schema,          \* the schema of the tenant exists
    turns, taken,    \* events published (creations and removals in turn), and handled
    dropped,         \* TenantManager.delete, after dropSchema
    rows, recorded,  \* the tables report and report_file
    storedFiles,     \* files in file-mgmt, by report
    wipes,           \* removals of the tenant file-mgmt has handled
    wiped,           \* reports whose file went with the bucket of the tenant (history)
    attempted,       \* outcomes of the attempts of a report
    job,             \* job of the queue, by report
    again,           \* jobs Bull has run once more
    worker,          \* the report and the step of each worker
    erasing,         \* reports whose file a deletion still has to remove
    reportFaults

tenancyState == <<start, snapshot, inList, admits, captive, turns, taken, dropped>>
reportTables == <<rows, recorded, attempted>>
bucketVars == <<wipes, wiped>>
queueVars == <<job, again, worker>>
reportVars == <<tenancyState, schema, reportTables, storedFiles, bucketVars, queueVars, erasing, reportFaults>>

TenantExists == turns % 2 = 1
IdleWorker == [report |-> NoReport, step |-> "idle"]

ReportsInit ==
    /\ start = "consuming" /\ snapshot = FALSE /\ inList = FALSE /\ admits = FALSE /\ captive = FALSE
    /\ schema = FALSE /\ turns = 0 /\ taken = 0 /\ dropped = FALSE
    /\ rows = {} /\ recorded = {} /\ storedFiles = {} /\ wipes = 0 /\ wiped = {} /\ attempted = [r \in Reports |-> {}]
    /\ job = [r \in Reports |-> "none"] /\ again = {}
    /\ worker = [w \in Workers |-> IdleWorker]
    /\ erasing = {} /\ reportFaults = 0

Faulty == reportFaults < MaxReportFaults /\ reportFaults' = reportFaults + 1

-----------------------------------------------------------------------------
(* TenantManager, KafkaConsumer, App.init *)

TenantTurns ==
    /\ turns < MaxEvents /\ turns' = turns + 1
    /\ UNCHANGED <<start, snapshot, inList, admits, captive, taken, dropped, schema, reportTables, storedFiles, bucketVars, queueVars, erasing, reportFaults>>

\* create: the migrations may fail; push reaches the authentication while it holds the same array.
CreatesTenant ==
    /\ ~dropped /\ taken < turns /\ taken % 2 = 0
    /\ taken' = taken + 1
    /\ \/ /\ schema' = TRUE /\ inList' = TRUE /\ admits' = (admits \/ captive)
          /\ UNCHANGED reportFaults
       \/ Faulty /\ UNCHANGED <<schema, inList, admits>>
    /\ UNCHANGED <<start, snapshot, captive, turns, dropped, reportTables, storedFiles, bucketVars, queueVars, erasing>>

\* delete: dropSchema takes the rows with it, and answers false when it fails.
DropsSchema ==
    /\ ~dropped /\ taken < turns /\ taken % 2 = 1
    /\ \/ /\ schema /\ schema' = FALSE /\ dropped' = TRUE
          /\ rows' = {} /\ recorded' = {}
          /\ UNCHANGED <<taken, reportFaults>>
       \/ /\ taken' = taken + 1
          /\ IF schema THEN Faulty ELSE UNCHANGED reportFaults
          /\ UNCHANGED <<schema, dropped, rows, recorded>>
    /\ UNCHANGED <<start, snapshot, inList, admits, captive, turns, attempted, storedFiles, bucketVars, queueVars, erasing>>

\* tenants = tenants.filter(...): another array from now on.
ForgetsTenant ==
    /\ dropped /\ dropped' = FALSE /\ taken' = taken + 1
    /\ inList' = FALSE /\ captive' = FALSE
    /\ UNCHANGED <<start, snapshot, admits, turns, schema, reportTables, storedFiles, bucketVars, queueVars, erasing, reportFaults>>

\* update: DojotHttpClient asks until it is answered.
AsksTenants ==
    /\ start = "consuming" /\ start' = "updating" /\ snapshot' = TenantExists
    /\ UNCHANGED <<inList, admits, captive, turns, taken, dropped, schema, reportTables, storedFiles, bucketVars, queueVars, erasing, reportFaults>>

\* The list as answered, whatever the events did meanwhile; the server then takes it.
Updates ==
    /\ start = "updating" /\ start' = "serving"
    /\ inList' = snapshot /\ admits' = snapshot /\ captive' = TRUE
    /\ \/ schema' = (schema \/ snapshot) /\ UNCHANGED reportFaults
       \/ snapshot /\ Faulty /\ UNCHANGED schema
    /\ UNCHANGED <<snapshot, turns, taken, dropped, reportTables, storedFiles, bucketVars, queueVars, erasing>>

\* file-mgmt hears of the removal by itself, before or after the rows are gone, and empties the bucket
\* (TenantService.remove): a file put after it listed the objects stays, with the bucket.
WipesFiles ==
    /\ 2 * (wipes + 1) <= turns /\ wipes' = wipes + 1
    /\ storedFiles' \in SUBSET storedFiles
    /\ wiped' = wiped \cup (storedFiles \ storedFiles')
    /\ UNCHANGED <<tenancyState, schema, reportTables, queueVars, erasing, reportFaults>>

-----------------------------------------------------------------------------
(* Requests *)

\* DeviceService.create: the row, then the job; without the schema the row is refused.
CreatesReport(r) ==
    /\ start = "serving" /\ admits /\ schema
    /\ job[r] = "none" /\ r \notin rows
    /\ rows' = rows \cup {r}
    /\ \/ job' = [job EXCEPT ![r] = "waiting"] /\ UNCHANGED reportFaults
       \/ Faulty /\ UNCHANGED job
    /\ UNCHANGED <<tenancyState, schema, recorded, attempted, storedFiles, bucketVars, again, worker, erasing>>

\* Mutant: the file goes first, and the row stays when the database fails.
DeletesFileFirst(r) ==
    /\ start = "serving" /\ admits /\ r \in rows
    /\ storedFiles' = storedFiles \ {r}
    /\ UNCHANGED <<tenancyState, schema, reportTables, bucketVars, queueVars, erasing, reportFaults>>

\* ReportService.delete: the row, and with it the record of the file, whose path it returns.
DeletesReport(r) ==
    /\ start = "serving" /\ admits /\ r \in rows
    /\ rows' = rows \ {r} /\ recorded' = recorded \ {r}
    /\ erasing' = IF r \in recorded THEN erasing \cup {r} ELSE erasing
    /\ UNCHANGED <<tenancyState, schema, attempted, storedFiles, bucketVars, queueVars, reportFaults>>

\* fileManagementApi.delete: an error is only logged.
Erases(r) ==
    /\ r \in erasing /\ erasing' = erasing \ {r}
    /\ \/ storedFiles' = storedFiles \ {r} /\ UNCHANGED reportFaults
       \/ Faulty /\ UNCHANGED storedFiles
    /\ UNCHANGED <<tenancyState, schema, reportTables, bucketVars, queueVars>>

-----------------------------------------------------------------------------
(* DeviceReportProcessor.process; Bull is external *)

At(w, step) == worker[w].step = step
StepsTo(w, step) == worker' = [worker EXCEPT ![w].step = step]
Report(w) == worker[w].report

\* Another run may have ended the job already: Bull ignores this one's result.
EndsJob(w, state) ==
    /\ worker' = [worker EXCEPT ![w] = IdleWorker]
    /\ job' = [job EXCEPT ![Report(w)] = IF @ = "active" THEN state ELSE @]

\* The attempt is created outside the try: without the report the job just fails.
Begins(w, r) ==
    /\ At(w, "idle") /\ job[r] = "waiting"
    /\ IF r \in rows THEN /\ job' = [job EXCEPT ![r] = "active"]
                          /\ worker' = [worker EXCEPT ![w] = [report |-> r, step |-> "data"]]
       ELSE job' = [job EXCEPT ![r] = "failed"] /\ UNCHANGED worker
    /\ UNCHANGED <<tenancyState, schema, reportTables, storedFiles, bucketVars, again, erasing, reportFaults>>

\* The session, the retriever and the rendering; an error leads to the catch.
MakesFile(w) ==
    /\ At(w, "data")
    /\ \/ StepsTo(w, "upload") /\ UNCHANGED reportFaults
       \/ StepsTo(w, "catch") /\ Faulty
    /\ UNCHANGED <<tenancyState, schema, reportTables, storedFiles, bucketVars, job, again, erasing>>

\* The file may be stored though the answer is lost.
UploadsFile(w) ==
    /\ At(w, "upload")
    /\ \/ StepsTo(w, "finish") /\ storedFiles' = storedFiles \cup {Report(w)} /\ UNCHANGED reportFaults
       \/ StepsTo(w, "catch") /\ Faulty /\ storedFiles' \in {storedFiles, storedFiles \cup {Report(w)}}
    /\ UNCHANGED <<tenancyState, schema, reportTables, bucketVars, job, again, erasing>>

\* finishedAt; the attempt is gone when its report is.
Finishes(w) ==
    /\ At(w, "finish")
    /\ IF Report(w) \in rows
       THEN StepsTo(w, "record") /\ attempted' = [attempted EXCEPT ![Report(w)] = @ \cup {"finished"}]
       ELSE StepsTo(w, "catch") /\ UNCHANGED attempted
    /\ UNCHANGED <<tenancyState, schema, rows, recorded, storedFiles, bucketVars, job, again, erasing, reportFaults>>

\* report_file.report_id is unique, and refers to the report.
Records(w) ==
    /\ At(w, "record")
    /\ IF Report(w) \in rows \ recorded
       THEN recorded' = recorded \cup {Report(w)} /\ EndsJob(w, "completed")
       ELSE StepsTo(w, "catch") /\ UNCHANGED <<recorded, job>>
    /\ UNCHANGED <<tenancyState, schema, rows, attempted, storedFiles, bucketVars, again, erasing, reportFaults>>

\* failedAt, even of an attempt that has its finishedAt.
Catches(w) ==
    /\ At(w, "catch") /\ EndsJob(w, "failed")
    /\ attempted' = IF Report(w) \in rows THEN [attempted EXCEPT ![Report(w)] = @ \cup {"failed"}] ELSE attempted
    /\ UNCHANGED <<tenancyState, schema, rows, recorded, storedFiles, bucketVars, again, erasing, reportFaults>>

\* The lock of the job expires (the migrations block the event loop, say) or its worker is killed:
\* maxStalledCount lets it run once more, with the first run going on or not.
Stalls(w) ==
    /\ ~At(w, "idle") /\ job[Report(w)] = "active" /\ Faulty
    /\ job' = [job EXCEPT ![Report(w)] = IF Report(w) \in again THEN "failed" ELSE "waiting"]
    /\ again' = again \cup {Report(w)}
    /\ \/ UNCHANGED worker
       \/ worker' = [worker EXCEPT ![w] = IdleWorker]
    /\ UNCHANGED <<tenancyState, schema, reportTables, storedFiles, bucketVars, erasing>>

ReportsNext ==
    \/ TenantTurns \/ CreatesTenant \/ DropsSchema \/ ForgetsTenant \/ WipesFiles \/ AsksTenants \/ Updates
    \/ \E r \in Reports : CreatesReport(r) \/ DeletesReport(r) \/ Erases(r)
    \/ \E w \in Workers : \/ \E r \in Reports : Begins(w, r)
                          \/ MakesFile(w) \/ UploadsFile(w) \/ Finishes(w) \/ Records(w) \/ Catches(w) \/ Stalls(w)

ReportsSpec == ReportsInit /\ [][ReportsNext]_reportVars

-----------------------------------------------------------------------------
ReportsTypeOK ==
    /\ start \in {"consuming", "updating", "serving"}
    /\ {snapshot, inList, admits, captive, schema, dropped} \subseteq BOOLEAN
    /\ turns \in 0..MaxEvents /\ taken \in 0..turns
    /\ recorded \subseteq rows /\ rows \subseteq Reports
    /\ wipes \in Nat /\ 2 * wipes <= turns
    /\ {storedFiles, wiped, again, erasing} \subseteq SUBSET Reports
    /\ attempted \in [Reports -> SUBSET {"finished", "failed"}]
    /\ job \in [Reports -> {"none", "waiting", "active", "completed", "failed"}]
    /\ worker \in [Workers -> [report : Reports \cup {NoReport},
                               step : {"idle", "data", "upload", "finish", "record", "catch"}]]
    /\ reportFaults \in 0..MaxReportFaults

\* A report that shows a file has it in file-mgmt, and a job that completed left the record of its file
\* and a finished attempt unless the report was deleted, with deletions, stalled jobs run twice at once,
\* lost answers and dropped schemas (DeviceReport.processor.ts, Report.service.ts).  Only the removal of
\* the tenant takes the file from a report: file-mgmt empties the bucket at the event, and the schema
\* outlives it when report-manager is late or its DROP SCHEMA fails.
ReportsHaveTheirFile ==
    /\ recorded \subseteq storedFiles \cup wiped
    /\ \A r \in rows : job[r] = "completed" => r \in recorded /\ "finished" \in attempted[r]
=============================================================================
