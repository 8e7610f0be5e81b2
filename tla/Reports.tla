------------------------------- MODULE Reports -------------------------------
(***************************************************************************)
(* Reports: create_report persists a QUEUED row and sends its id, a worker *)
(* renders the data and stores the object, mails that it is ready, and     *)
(* completes the row; an hourly sweep deletes the objects of old reports;  *)
(* members download.  The object store, the mail service and the database  *)
(* do not commit together.                                                 *)
(***************************************************************************)
EXTENDS Integers, FiniteSets

CONSTANTS
    Reports,      \* the ids that may be created (each a fresh uuid)
    Requested,    \* bound: those that a request of a member may get
    Aging,        \* bound: those that live to see their expires_at
    Schedules,    \* rows of report_schedules
    Workers,      \* Celery worker processes
    MaxContent,   \* bound: how many different datasets a report may get
    Faults,       \* what may go wrong: see FaultKinds
    MaxFaults,    \* bound: how many things go wrong
    None          \* no report, no schedule

(* As in SyncDispatch; and the store may fail after it took the object.    *)
FaultKinds == {"crash", "child_lost", "api_crash", "lost_reply", "duplicate",
               "database", "storage"}

ASSUME ReportsAssumption ==
    /\ Requested \subseteq Reports
    /\ Aging \subseteq Reports
    /\ MaxContent \in Nat
    /\ Faults \subseteq FaultKinds
    /\ MaxFaults \in Nat
    /\ None \notin Reports \cup Schedules

VARIABLES
    report,   \* generated_reports
    old,      \* the reports whose expires_at has passed
    objects,  \* the object store: the content under each report's key
    mailed,   \* reports that were announced by mail
    noted,    \* report_notifications: reports with a delivery record
    request,  \* where the create_report call of each report stands
    ready,    \* ids in the Celery queue
    unacked,  \* ids delivered and not acknowledged
    pc,       \* where each worker stands
    task,     \* the report each worker works on
    mem,      \* the row as the worker's session last saw or set it
    made,     \* what each worker has rendered
    code,     \* the error code a worker is about to record
    sweep,    \* the hourly expiration: what it has still to delete, has deleted
    reading,  \* the report whose object a download is about to read
    faults,   \* how many things have gone wrong
    lost,     \* history: reports whose process, store or database failed
    doubled   \* history: reports that two parties may have worked on at once

storeVars == <<objects, mailed, noted>>
brokerVars == <<ready, unacked>>
workerVars == <<pc, task, mem, made, code>>
faultVars == <<faults, lost, doubled>>
reportVars == <<report, old, storeVars, request, brokerVars, workerVars, sweep,
                reading, faultVars>>
-----------------------------------------------------------------------------
Active == {"QUEUED", "RUNNING"}
Ended  == {"COMPLETED", "FAILED", "EXPIRED"}
Codes  == {"NONE", "DISPATCH_FAILED", "STORAGE_FAILED", "GENERATION_FAILED"}

(* content stands for storage_key and checksum_sha256; 0: no key.          *)
Row == [status: Active \cup Ended \cup {"ABSENT"}, content: 0..MaxContent,
        error: Codes, schedule: Schedules \cup {None}]
NoRow == [status |-> "ABSENT", content |-> 0, error |-> "NONE", schedule |-> None]
Queued(s) == [NoRow EXCEPT !.status = "QUEUED", !.schedule = s]
Completed(row, c) == [row EXCEPT !.status = "COMPLETED", !.content = c]
Failed(row, e) == [row EXCEPT !.status = "FAILED", !.error = e]
(* Mutant: the status is forgotten.                                        *)
Emptied(row) == [row EXCEPT !.content = 0]

Expired(row) == [row EXCEPT !.status = "EXPIRED", !.content = 0]

(* A flush writes the attributes that differ from what was loaded.         *)
Flush(row, loaded, set) ==
    [row EXCEPT
        !.status  = IF set.status # loaded.status THEN set.status ELSE @,
        !.content = IF set.content # loaded.content THEN set.content ELSE @,
        !.error   = IF set.error # loaded.error THEN set.error ELSE @]

WorkerPCs == {"idle", "load", "claim", "collect", "put", "notify", "commit",
              "failRead", "failWrite", "ack"}

NoSweep == [due |-> {}, gone |-> {}]

ReportsTypeOK ==
    /\ report \in [Reports -> Row]
    /\ old \subseteq Reports
    /\ objects \in [Reports -> 0..MaxContent]
    /\ mailed \subseteq Reports
    /\ noted \subseteq Reports
    /\ request \in [Reports -> {"idle", "send", "mark", "done", "died"}]
    /\ ready \subseteq Reports
    /\ unacked \subseteq Reports
    /\ pc \in [Workers -> WorkerPCs]
    /\ task \in [Workers -> Reports \cup {None}]
    /\ \A w \in Workers : task[w] = None <=> pc[w] = "idle"
    /\ mem \in [Workers -> Row]
    /\ made \in [Workers -> 0..MaxContent]
    /\ code \in [Workers -> Codes]
    /\ sweep \in [due: SUBSET Reports, gone: SUBSET Reports]
    /\ reading \in Reports \cup {None}
    /\ faults \in 0..MaxFaults
    /\ lost \subseteq Reports
    /\ doubled \subseteq Reports

ReportsInit ==
    /\ report = [r \in Reports |-> NoRow]
    /\ old = {}
    /\ objects = [r \in Reports |-> 0]
    /\ mailed = {}
    /\ noted = {}
    /\ request = [r \in Reports |-> "idle"]
    /\ ready = {}
    /\ unacked = {}
    /\ pc = [w \in Workers |-> "idle"]
    /\ task = [w \in Workers |-> None]
    /\ mem = [w \in Workers |-> NoRow]
    /\ made = [w \in Workers |-> 0]
    /\ code = [w \in Workers |-> "NONE"]
    /\ sweep = NoSweep
    /\ reading = None
    /\ faults = 0
    /\ lost = {}
    /\ doubled = {}

Fault(kind) ==
    /\ kind \in Faults
    /\ faults < MaxFaults
    /\ faults' = faults + 1

(* _notify's query flushes the completed row of a scheduled report, which  *)
(* stays locked until the transaction ends: others' updates wait.          *)
Unlocked(r) ==
    \A w \in Workers : ~ /\ task[w] = r
                         /\ pc[w] = "commit"
                         /\ mem[w].schedule # None

(* The configured number of days passes.                                   *)
Age(r) ==
    /\ report[r].status # "ABSENT"
    /\ r \in Aging \ old
    /\ old' = old \cup {r}
    /\ UNCHANGED <<report, storeVars, request, brokerVars, workerVars, sweep,
                   reading, faultVars>>

-----------------------------------------------------------------------------
(* The request, in the API process.                                        *)

CreateReport(r) ==
    /\ r \in Requested
    /\ report[r].status = "ABSENT"
    /\ report' = [report EXCEPT ![r] = Queued(None)]
    /\ request' = [request EXCEPT ![r] = "send"]
    /\ UNCHANGED <<old, storeVars, brokerVars, workerVars, sweep, reading, faultVars>>

(* send_task returns; or it raises although the broker took the message.   *)
SendTask(r) ==
    /\ request[r] = "send"
    /\ ready' = ready \cup {r}
    /\ \/ /\ request' = [request EXCEPT ![r] = "done"]
          /\ UNCHANGED faultVars
       \/ /\ request' = [request EXCEPT ![r] = "mark"]
          /\ Fault("lost_reply")
          /\ doubled' = doubled \cup {r}
          /\ lost' = lost
    /\ UNCHANGED <<report, old, storeVars, unacked, workerVars, sweep, reading>>

(* Mutant: the error is swallowed.                                         *)
SendSwallows(r) ==
    /\ request[r] = "send"
    /\ request' = [request EXCEPT ![r] = "done"]
    /\ UNCHANGED <<report, old, storeVars, brokerVars, workerVars, sweep, reading,
                   faultVars>>

SendRaises(r) ==
    /\ request[r] = "send"
    /\ request' = [request EXCEPT ![r] = "mark"]
    /\ UNCHANGED <<report, old, storeVars, brokerVars, workerVars, sweep, reading,
                   faultVars>>

MarkDispatchFailed(r) ==
    /\ request[r] = "mark"
    /\ Unlocked(r)
    /\ report' = [report EXCEPT ![r] =
                    Flush(@, Queued(None), Failed(Queued(None), "DISPATCH_FAILED"))]
    /\ request' = [request EXCEPT ![r] = "done"]
    /\ UNCHANGED <<old, storeVars, brokerVars, workerVars, sweep, reading, faultVars>>

ApiCrash(r) ==
    /\ Fault("api_crash")
    /\ request[r] \in {"send", "mark"}
    /\ request' = [request EXCEPT ![r] = "died"]
    /\ lost' = lost \cup {r}
    /\ UNCHANGED <<report, old, storeVars, brokerVars, workerVars, sweep, reading,
                   doubled>>

RequestStep(r) == SendTask(r) \/ SendRaises(r) \/ MarkDispatchFailed(r)

-----------------------------------------------------------------------------
(* The worker: _generate_report.                                           *)

Goto(w, next) == pc' = [pc EXCEPT ![w] = next]

GoIdle(w) ==
    /\ Goto(w, "idle")
    /\ task' = [task EXCEPT ![w] = None]
    /\ mem' = [mem EXCEPT ![w] = NoRow]
    /\ made' = [made EXCEPT ![w] = 0]
    /\ code' = [code EXCEPT ![w] = "NONE"]

Take(w, r) ==
    /\ pc[w] = "idle"
    /\ r \in ready
    /\ ready' = ready \ {r}
    /\ unacked' = unacked \cup {r}
    /\ task' = [task EXCEPT ![w] = r]
    /\ Goto(w, "load")
    /\ UNCHANGED <<report, old, storeVars, request, mem, made, code, sweep, reading,
                   faultVars>>

IsGenerable(row) == row.status = "QUEUED"

(* The row is read without a lock; what is not QUEUED is left alone.       *)
Load(w) ==
    /\ pc[w] = "load"
    /\ mem' = [mem EXCEPT ![w] = report[task[w]]]
    /\ Goto(w, IF IsGenerable(report[task[w]]) THEN "claim" ELSE "ack")
    /\ UNCHANGED <<report, old, storeVars, request, brokerVars, task, made, code,
                   sweep, reading, faultVars>>

Claim(w) ==
    LET running == [mem[w] EXCEPT !.status = "RUNNING"]
    IN  /\ pc[w] = "claim"
        /\ Unlocked(task[w])
        /\ report' = [report EXCEPT ![task[w]] = Flush(@, mem[w], running)]
        /\ mem' = [mem EXCEPT ![w] = running]
        /\ Goto(w, "collect")
        /\ UNCHANGED <<old, storeVars, request, brokerVars, task, made, code, sweep,
                       reading, faultVars>>

(* _dataset and the renderer: what the tables say now.                     *)
Collect(w) ==
    /\ pc[w] = "collect"
    /\ \E c \in 1..MaxContent : made' = [made EXCEPT ![w] = c]
    /\ Goto(w, "put")
    /\ UNCHANGED <<report, old, storeVars, request, brokerVars, task, mem, code,
                   sweep, reading, faultVars>>

(* The except blocks roll the session back.                                *)
Failing(w, e) ==
    /\ code' = [code EXCEPT ![w] = e]
    /\ Goto(w, "failRead")

CollectRaises(w) ==
    /\ pc[w] = "collect"
    /\ Failing(w, "GENERATION_FAILED")
    /\ UNCHANGED <<report, old, storeVars, request, brokerVars, task, mem, made,
                   sweep, reading, faultVars>>

(* storage.put; then _notify, for a report of a schedule.                  *)
Put(w) ==
    /\ pc[w] = "put"
    /\ objects' = [objects EXCEPT ![task[w]] = made[w]]
    /\ Goto(w, IF mem[w].schedule # None THEN "notify" ELSE "commit")
    /\ UNCHANGED <<report, old, mailed, noted, request, brokerVars, task, mem, made,
                   code, sweep, reading, faultVars>>

(* ReportStorageError: nothing was stored; or the answer was lost.         *)
PutRaises(w) ==
    /\ pc[w] = "put"
    /\ \/ UNCHANGED <<objects, faultVars>>
       \/ /\ objects' = [objects EXCEPT ![task[w]] = made[w]]
          /\ Fault("storage")
          /\ lost' = lost \cup {task[w]}
          /\ doubled' = doubled
    /\ Failing(w, "STORAGE_FAILED")
    /\ UNCHANGED <<report, old, mailed, noted, request, brokerVars, task, mem, made,
                   sweep, reading>>

(* The mail is sent, or it fails or is skipped; the record of it waits for *)
(* the commit.  The query before it flushes the row.                       *)
Notify(w) ==
    /\ pc[w] = "notify"
    /\ Unlocked(task[w])
    /\ mailed' \in {mailed, mailed \cup {task[w]}}
    /\ Goto(w, "commit")
    /\ UNCHANGED <<report, old, objects, noted, request, brokerVars, task, mem, made,
                   code, sweep, reading, faultVars>>

(* Mutant: the delivery record is forgotten.                               *)
CommitWithoutNote(w) ==
    /\ pc[w] = "commit"
    /\ report' = [report EXCEPT ![task[w]] =
                    Flush(@, mem[w], Completed(mem[w], made[w]))]
    /\ Goto(w, "ack")
    /\ UNCHANGED <<old, storeVars, request, brokerVars, task, mem, made, code, sweep,
                   reading, faultVars>>

Commit(w) ==
    /\ pc[w] = "commit"
    /\ mem[w].schedule = None => Unlocked(task[w])
    /\ report' = [report EXCEPT ![task[w]] =
                    Flush(@, mem[w], Completed(mem[w], made[w]))]
    /\ noted' = IF mem[w].schedule = None THEN noted ELSE noted \cup {task[w]}
    /\ Goto(w, "ack")
    /\ UNCHANGED <<old, objects, mailed, request, brokerVars, task, mem, made, code,
                   sweep, reading, faultVars>>

(* Between the object and the commit: the transaction is rolled back.      *)
CommitRaises(w) ==
    /\ Fault("database")
    /\ pc[w] \in {"notify", "commit"}
    /\ lost' = lost \cup {task[w]}
    /\ Failing(w, "GENERATION_FAILED")
    /\ UNCHANGED <<report, old, storeVars, request, brokerVars, task, mem, made,
                   sweep, reading, doubled>>

(* A database call that no handler covers raises: the task is over.        *)
TaskRaises(w) ==
    /\ Fault("database")
    /\ pc[w] \in {"load", "claim", "failRead", "failWrite"}
    /\ lost' = lost \cup {task[w]}
    /\ Goto(w, "ack")
    /\ UNCHANGED <<report, old, storeVars, request, brokerVars, task, mem, made,
                   code, sweep, reading, doubled>>

(* _mark_failed: a session of its own reads the row, and makes it FAILED.  *)
FailRead(w) ==
    /\ pc[w] = "failRead"
    /\ mem' = [mem EXCEPT ![w] = report[task[w]]]
    /\ Goto(w, "failWrite")
    /\ UNCHANGED <<report, old, storeVars, request, brokerVars, task, made, code,
                   sweep, reading, faultVars>>

FailWrite(w) ==
    /\ pc[w] = "failWrite"
    /\ Unlocked(task[w])
    /\ report' = [report EXCEPT ![task[w]] =
                    Flush(@, mem[w], Failed(mem[w], code[w]))]
    /\ Goto(w, "ack")
    /\ UNCHANGED <<old, storeVars, request, brokerVars, task, mem, made, code, sweep,
                   reading, faultVars>>

Ack(w) ==
    /\ pc[w] = "ack"
    /\ unacked' = unacked \ {task[w]}
    /\ GoIdle(w)
    /\ UNCHANGED <<report, old, storeVars, request, ready, sweep, reading, faultVars>>

(* A worker dies, its message unacked; a pool child, its message acked.    *)
WorkerLost(w) ==
    /\ pc[w] # "idle"
    /\ \/ Fault("crash") /\ unacked' = unacked
       \/ Fault("child_lost") /\ unacked' = unacked \ {task[w]}
    /\ lost' = lost \cup {task[w]}
    /\ GoIdle(w)
    /\ UNCHANGED <<report, old, storeVars, request, ready, sweep, reading, doubled>>

Redeliver(r) ==
    /\ r \in unacked
    /\ \/ /\ \A w \in Workers : task[w] # r
          /\ UNCHANGED faultVars
       \/ /\ \E w \in Workers : task[w] = r
          /\ Fault("duplicate")
          /\ doubled' = doubled \cup {r}
          /\ lost' = lost
    /\ unacked' = unacked \ {r}
    /\ ready' = ready \cup {r}
    /\ UNCHANGED <<report, old, storeVars, request, workerVars, sweep, reading>>

Generate(w) ==
    \/ Load(w) \/ Claim(w) \/ Collect(w) \/ CollectRaises(w) \/ Put(w) \/ PutRaises(w)
    \/ Notify(w) \/ Commit(w) \/ CommitRaises(w) \/ TaskRaises(w)
    \/ FailRead(w) \/ FailWrite(w) \/ Ack(w)

-----------------------------------------------------------------------------
(* _expire_reports, and the download route.                                *)

(* Mutant: everything that is completed.                                   *)
AnyCompleted(r) == report[r].status = "COMPLETED"

IsOverdue(r) == report[r].status = "COMPLETED" /\ r \in old

StartSweep ==
    /\ sweep = NoSweep
    /\ \E r \in Reports : IsOverdue(r)
    /\ sweep' = [NoSweep EXCEPT !.due = {r \in Reports : IsOverdue(r)}]
    /\ UNCHANGED <<report, old, storeVars, request, brokerVars, workerVars, reading,
                   faultVars>>

DeleteObject(r) ==
    /\ r \in sweep.due
    /\ objects' = [objects EXCEPT ![r] = 0]
    /\ sweep' = [due |-> sweep.due \ {r}, gone |-> sweep.gone \cup {r}]
    /\ UNCHANGED <<report, old, mailed, noted, request, brokerVars, workerVars,
                   reading, faultVars>>

(* Mutant: the error is logged and the report expired all the same.        *)
DeleteIgnored(r) ==
    /\ r \in sweep.due
    /\ sweep' = [due |-> sweep.due \ {r}, gone |-> sweep.gone \cup {r}]
    /\ UNCHANGED <<report, old, storeVars, request, brokerVars, workerVars, reading,
                   faultVars>>

(* The store refuses: the report is left for the next sweep.               *)
DeleteRaises(r) ==
    /\ r \in sweep.due
    /\ sweep' = [sweep EXCEPT !.due = @ \ {r}]
    /\ UNCHANGED <<report, old, storeVars, request, brokerVars, workerVars, reading,
                   faultVars>>

CommitSweep ==
    /\ sweep.due = {}
    /\ sweep.gone # {}
    /\ \A r \in sweep.gone : Unlocked(r)
    /\ report' = [r \in Reports |-> IF r \in sweep.gone THEN Expired(report[r])
                                    ELSE report[r]]
    /\ sweep' = NoSweep
    /\ UNCHANGED <<old, storeVars, request, brokerVars, workerVars, reading, faultVars>>

(* The sweep dies, or its commit raises: the next one does it again.       *)
SweepLost ==
    /\ Fault("crash") \/ Fault("database")
    /\ sweep # NoSweep
    /\ sweep' = NoSweep
    /\ UNCHANGED <<report, old, storeVars, request, brokerVars, workerVars, reading,
                   lost, doubled>>

Sweep == StartSweep \/ CommitSweep \/ \E r \in Reports : DeleteObject(r) \/ DeleteRaises(r)

IsDownloadable(r) ==
    /\ r \notin old
    /\ report[r].status = "COMPLETED"
    /\ report[r].content # 0

StartDownload(r) ==
    /\ reading = None
    /\ IsDownloadable(r)
    /\ reading' = r
    /\ UNCHANGED <<report, old, storeVars, request, brokerVars, workerVars, sweep,
                   faultVars>>

(* The object, or 503 if it is gone or the store does not answer.          *)
EndDownload ==
    /\ reading # None
    /\ reading' = None
    /\ UNCHANGED <<report, old, storeVars, request, brokerVars, workerVars, sweep,
                   faultVars>>

-----------------------------------------------------------------------------
(* What a report promises.                                                 *)

(* A report that is completed and has not expired has its object, and the  *)
(* object is the one whose checksum the row records, unless its id was     *)
(* delivered to two workers at once or the API failed it meanwhile.  So a  *)
(* download that passed the checks finds it, or finds it expired.          *)
CompletedHasObject ==
    \A r \in Reports :
        /\ IsDownloadable(r) \/ (reading = r /\ r \notin old)
        => /\ objects[r] # 0
           /\ r \notin doubled => objects[r] = report[r].content

AtWork(r) == \E w \in Workers : task[w] = r

(* Every stored object can be found from its row, so that the expiration   *)
(* will delete it: an object without is of a report whose worker, store or *)
(* database failed, or that two parties worked on.                         *)
ObjectsAreKnown ==
    \A r \in Reports :
        objects[r] # 0 /\ ~AtWork(r) =>
            \/ report[r].status = "COMPLETED" /\ report[r].content # 0
            \/ r \in lost \cup doubled

(* Who is told by mail that a report is ready can download it until it     *)
(* expires, and the delivery is on record; same exceptions.                *)
NoticesAreTrue ==
    \A r \in mailed :
        \/ r \in noted /\ report[r].status \in {"COMPLETED", "EXPIRED"}
        \/ AtWork(r)
        \/ r \in lost \cup doubled

(* A report ends, unless its process or the database failed.               *)
ReportsEndUnlessLost ==
    \A r \in Reports :
        report[r].status \in Active ~> report[r].status \in Ended \/ r \in lost

(* Old reports are expired, although deletions and sweeps may fail.        *)
OldReportsExpire ==
    \A r \in Reports : IsOverdue(r) ~> ~IsOverdue(r)
=============================================================================
