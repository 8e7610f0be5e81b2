---------------------------- MODULE ReportsProofs ----------------------------
(***************************************************************************)
(* A report's row, its object and its mails, and the periods of the        *)
(* reports of a schedule, for any number of reports, schedules, workers    *)
(* and dispatchers, any calendar and all faults.                           *)
(***************************************************************************)
EXTENDS ReportContents, TLAPS

DispatchTypes ==
    /\ now \in 0..MaxTime
    /\ dispatch \in [Dispatchers -> [pc: {"idle", "select", "commit", "send"},
                                     at: 0..MaxTime, rows: SUBSET Schedules,
                                     send: SUBSET Reports]]

Types == ReportsTypeOK /\ DispatchTypes

Requesting(r) == request[r] \in {"send", "mark"}
Dispatched(r) == \E d \in Dispatchers : r \in dispatch[d].send

(* Nothing has been done with an id that has no row.                       *)
Fresh ==
    \A r \in Reports : report[r].status = "ABSENT" =>
        /\ report[r].content = 0 /\ report[r].schedule = None
        /\ r \notin old \cup mailed \cup ready \cup unacked
        /\ objects[r] = 0
        /\ request[r] = "idle"
        /\ ~AtWork(r) /\ ~Dispatched(r)
        /\ r \notin sweep.due \cup sweep.gone
        /\ reading # r

(* The id of a report is in one place: with the request or the dispatcher  *)
(* that sends it, in the queue, or with the worker that it was given to.   *)
OnePlace ==
    \A r \in Reports \ doubled :
        /\ \A v, w \in Workers : task[v] = r /\ task[w] = r => v = w
        /\ \A d, e \in Dispatchers :
              r \in dispatch[d].send /\ r \in dispatch[e].send => d = e
        /\ AtWork(r) \/ r \in unacked => r \notin ready
        /\ Requesting(r) \/ Dispatched(r)
              => ~AtWork(r) /\ r \notin ready \cup unacked
        /\ Requesting(r) => ~Dispatched(r) /\ report[r].status = "QUEUED"

(* What a worker has read is what the row says.                            *)
Loaded ==
    \A w \in Workers : pc[w] # "idle" /\ task[w] \notin doubled =>
        LET row == report[task[w]] IN
        /\ pc[w] = "claim" => row.status = "QUEUED"
        /\ pc[w] \in {"collect", "put", "notify", "commit", "failRead",
                      "failWrite"} => row.status = "RUNNING"
        /\ pc[w] \in {"claim", "collect", "put", "notify", "commit", "failWrite"}
              => mem[w].status = row.status /\ mem[w].content = row.content
        /\ pc[w] \in {"notify", "commit"} => objects[task[w]] = made[w]

(* A key is recorded after its object is stored, and an object is deleted  *)
(* when its report is old.                                                 *)
Stored ==
    /\ \A r \in Reports :
          /\ r \notin old /\ report[r].content # 0 => objects[r] # 0
          /\ r \in sweep.due \cup sweep.gone => r \in old
          /\ reading = r /\ r \notin old => report[r].content # 0
    /\ \A w \in Workers :
          /\ pc[w] \in {"put", "notify", "commit"} => made[w] # 0
          /\ pc[w] \in {"notify", "commit"}
                => objects[task[w]] # 0 \/ task[w] \in old
          /\ pc[w] = "notify" => mem[w].schedule # None

(* The row records the object that is stored while it is completed.        *)
Recorded ==
    \A r \in Reports \ doubled :
        /\ report[r].content # 0 <=> report[r].status = "COMPLETED"
        /\ r \in sweep.due \cup sweep.gone => report[r].status = "COMPLETED"
        /\ r \in sweep.gone => objects[r] = 0
        /\ r \notin old /\ report[r].content # 0
              => objects[r] = report[r].content

(* An object or a mail without its record is about to get it.              *)
Known ==
    \A r \in Reports \ (lost \cup doubled) :
        objects[r] # 0 =>
            \/ report[r].status = "COMPLETED"
            \/ \E w \in Workers : task[w] = r /\ pc[w] \in {"notify", "commit"}

Told ==
    \A r \in Reports \ (lost \cup doubled) :
        r \in mailed =>
            \/ r \in noted /\ report[r].status \in {"COMPLETED", "EXPIRED"}
            \/ \E w \in Workers : /\ task[w] = r
                                  /\ pc[w] = "commit"
                                  /\ mem[w].schedule # None

Inv == /\ Types /\ Fresh /\ OnePlace /\ Loaded /\ Stored /\ Recorded
       /\ Known /\ Told
-----------------------------------------------------------------------------
USE DEF Types, ReportsTypeOK, DispatchTypes, Active, Ended, WorkerPCs, NoSweep,
        storeVars, brokerVars, workerVars, faultVars, reportVars, scheduleVars,
        vars, Goto, Fault

(* The rows that the steps make, field by field.                           *)
LEMMA RowFields ==
  ASSUME NEW row \in Row
  PROVE  /\ row.status \in Active \cup Ended \cup {"ABSENT"}
         /\ row.content \in 0..MaxContent
         /\ row.error \in Codes
         /\ row.schedule \in Schedules \cup {None}
  BY DEF Row

LEMMA FlushFields ==
  ASSUME NEW row \in Row, NEW loaded \in Row, NEW set \in Row, NEW n,
         n = Flush(row, loaded, set)
  PROVE  /\ n \in Row
         /\ n.status = IF set.status # loaded.status THEN set.status ELSE row.status
         /\ n.content = IF set.content # loaded.content THEN set.content
                        ELSE row.content
         /\ n.schedule = row.schedule
  BY DEF Row, Flush

LEMMA CompletedFields ==
  ASSUME NEW row \in Row, NEW c \in 0..MaxContent, NEW n, n = Completed(row, c)
  PROVE  n \in Row /\ n.status = "COMPLETED" /\ n.content = c
  BY DEF Row, Completed

LEMMA FailedFields ==
  ASSUME NEW row \in Row, NEW e \in Codes, NEW n, n = Failed(row, e)
  PROVE  n \in Row /\ n.status = "FAILED" /\ n.content = row.content
  BY DEF Row, Failed

LEMMA ExpiredFields ==
  ASSUME NEW row \in Row, NEW n, n = Expired(row)
  PROVE  n \in Row /\ n.status = "EXPIRED" /\ n.content = 0
  <1>1. 0 \in 0..MaxContent
    BY ReportsAssumption
  <1> QED
    BY <1>1 DEF Row, Expired

LEMMA QueuedFields ==
  ASSUME NEW s \in Schedules \cup {None}, NEW n, n = Queued(s)
  PROVE  n \in Row /\ n.status = "QUEUED" /\ n.content = 0 /\ n.schedule = s
  <1>1. 0 \in 0..MaxContent
    BY ReportsAssumption
  <1> QED
    BY <1>1 DEF Row, Queued, NoRow, Codes

LEMMA RunningFields ==
  ASSUME NEW row \in Row, NEW n, n = [row EXCEPT !.status = "RUNNING"]
  PROVE  n \in Row /\ n.status = "RUNNING" /\ n.content = row.content
         /\ n.schedule = row.schedule
  BY DEF Row

LEMMA InitInv == Init => Inv
  <1> SUFFICES ASSUME Init PROVE Inv
    OBVIOUS
  <1> USE ReportsAssumption DEF Init, ReportsInit
  <1>1. /\ NoRow \in Row /\ NoRow.status = "ABSENT"
        /\ NoRow.content = 0 /\ NoRow.schedule = None
    BY DEF NoRow, Row, Codes
  <1>2. Types
    BY <1>1, SchedulesAssumption DEF Idle, Run, Codes
  <1>3. \A d \in Dispatchers : dispatch[d].send = {}
    BY DEF Idle, Run
  <1>4. Fresh /\ OnePlace
    BY <1>1, <1>3 DEF Fresh, OnePlace, Requesting, Dispatched, AtWork
  <1>5. Loaded /\ Stored /\ Recorded /\ Known /\ Told
    BY <1>1 DEF Loaded, Stored, Recorded, Known, Told
  <1> QED
    BY <1>2, <1>4, <1>5 DEF Inv

-----------------------------------------------------------------------------
(* The steps that leave the rows alone.                                    *)
LEMMA TakeKeeps ==
  ASSUME Inv, NEW w \in Workers, NEW r \in Reports, Take(w, r),
         UNCHANGED scheduleVars
  PROVE  Inv'
  <1> USE ReportsAssumption DEF Inv, Take
  <1>1. Types'
    OBVIOUS
  <1>2. Fresh'
    BY DEF Fresh, AtWork, Dispatched
  <1>3. OnePlace'
    BY DEF OnePlace, AtWork, Dispatched, Requesting
  <1>4. Loaded'
    BY DEF Loaded
  <1>5. Stored'
    BY DEF Stored
  <1>6. Recorded'
    BY DEF Recorded
  <1>7. Known'
    BY DEF Known
  <1>8. Told'
    BY DEF Told
  <1> QED
    BY <1>1, <1>2, <1>3, <1>4, <1>5, <1>6, <1>7, <1>8

LEMMA LoadKeeps ==
  ASSUME Inv, NEW w \in Workers, Load(w),
         UNCHANGED scheduleVars
  PROVE  Inv'
  <1> USE ReportsAssumption DEF Inv, Load, IsGenerable
  <1>1. Types'
    OBVIOUS
  <1>2. Fresh'
    BY DEF Fresh, AtWork, Dispatched
  <1>3. OnePlace'
    BY DEF OnePlace, AtWork, Dispatched, Requesting
  <1>4. Loaded'
    BY DEF Loaded
  <1>5. Stored'
    BY DEF Stored
  <1>6. Recorded'
    BY DEF Recorded
  <1>7. Known'
    BY DEF Known
  <1>8. Told'
    BY DEF Told
  <1> QED
    BY <1>1, <1>2, <1>3, <1>4, <1>5, <1>6, <1>7, <1>8

LEMMA CollectKeeps ==
  ASSUME Inv, NEW w \in Workers, Collect(w),
         UNCHANGED scheduleVars
  PROVE  Inv'
  <1> USE ReportsAssumption DEF Inv, Collect
  <1>1. Types'
    OBVIOUS
  <1>2. Fresh'
    BY DEF Fresh, AtWork, Dispatched
  <1>3. OnePlace'
    BY DEF OnePlace, AtWork, Dispatched, Requesting
  <1>4. Loaded'
    BY DEF Loaded
  <1>5. Stored'
    BY DEF Stored
  <1>6. Recorded'
    BY DEF Recorded
  <1>7. Known'
    BY DEF Known
  <1>8. Told'
    BY DEF Told
  <1> QED
    BY <1>1, <1>2, <1>3, <1>4, <1>5, <1>6, <1>7, <1>8

LEMMA CollectRaisesKeeps ==
  ASSUME Inv, NEW w \in Workers, CollectRaises(w),
         UNCHANGED scheduleVars
  PROVE  Inv'
  <1> USE ReportsAssumption DEF Inv, CollectRaises, Failing, Codes
  <1>1. Types'
    OBVIOUS
  <1>2. Fresh'
    BY DEF Fresh, AtWork, Dispatched
  <1>3. OnePlace'
    BY DEF OnePlace, AtWork, Dispatched, Requesting
  <1>4. Loaded'
    BY DEF Loaded
  <1>5. Stored'
    BY DEF Stored
  <1>6. Recorded'
    BY DEF Recorded
  <1>7. Known'
    BY DEF Known
  <1>8. Told'
    BY DEF Told
  <1> QED
    BY <1>1, <1>2, <1>3, <1>4, <1>5, <1>6, <1>7, <1>8

LEMMA PutKeeps ==
  ASSUME Inv, NEW w \in Workers, Put(w),
         UNCHANGED scheduleVars
  PROVE  Inv'
  <1> USE ReportsAssumption DEF Inv, Put
  <1>1. Types'
    OBVIOUS
  <1>2. Fresh'
    BY DEF Fresh, AtWork, Dispatched
  <1>3. OnePlace'
    BY DEF OnePlace, AtWork, Dispatched, Requesting
  <1>4. Loaded'
    BY DEF Loaded, OnePlace, AtWork, Dispatched, Requesting
  <1>5. Stored'
    BY DEF Stored
  <1>6. Recorded'
    BY DEF Recorded, Loaded
  <1>7. Known'
    BY DEF Known, OnePlace, AtWork, Dispatched, Requesting, Loaded, Recorded
  <1>8. Told'
    BY DEF Told
  <1> QED
    BY <1>1, <1>2, <1>3, <1>4, <1>5, <1>6, <1>7, <1>8

LEMMA PutRaisesKeeps ==
  ASSUME Inv, NEW w \in Workers, PutRaises(w),
         UNCHANGED scheduleVars
  PROVE  Inv'
  <1> USE ReportsAssumption DEF Inv, PutRaises, Failing, Codes
  <1>1. Types'
    OBVIOUS
  <1>2. Fresh'
    BY DEF Fresh, AtWork, Dispatched
  <1>3. OnePlace'
    BY DEF OnePlace, AtWork, Dispatched, Requesting
  <1>4. Loaded'
    BY DEF Loaded, OnePlace, AtWork, Dispatched, Requesting
  <1>5. Stored'
    BY DEF Stored
  <1>6. Recorded'
    BY DEF Recorded, Loaded
  <1>7. Known'
    BY DEF Known, OnePlace, AtWork, Dispatched, Requesting, Loaded, Recorded
  <1>8. Told'
    BY DEF Told, OnePlace, AtWork, Dispatched, Requesting
  <1> QED
    BY <1>1, <1>2, <1>3, <1>4, <1>5, <1>6, <1>7, <1>8

LEMMA NotifyKeeps ==
  ASSUME Inv, NEW w \in Workers, Notify(w),
         UNCHANGED scheduleVars
  PROVE  Inv'
  <1> USE ReportsAssumption DEF Inv, Notify
  <1>1. Types'
    OBVIOUS
  <1>2. Fresh'
    BY DEF Fresh, AtWork, Dispatched
  <1>3. OnePlace'
    BY DEF OnePlace, AtWork, Dispatched, Requesting
  <1>4. Loaded'
    BY DEF Loaded
  <1>5. Stored'
    BY DEF Stored
  <1>6. Recorded'
    BY DEF Recorded
  <1>7. Known'
    BY DEF Known
  <1>8. Told'
    BY DEF Told, Stored
  <1> QED
    BY <1>1, <1>2, <1>3, <1>4, <1>5, <1>6, <1>7, <1>8

LEMMA CommitRaisesKeeps ==
  ASSUME Inv, NEW w \in Workers, CommitRaises(w),
         UNCHANGED scheduleVars
  PROVE  Inv'
  <1> USE ReportsAssumption DEF Inv, CommitRaises, Failing, Codes
  <1>1. Types'
    OBVIOUS
  <1>2. Fresh'
    BY DEF Fresh, AtWork, Dispatched
  <1>3. OnePlace'
    BY DEF OnePlace, AtWork, Dispatched, Requesting
  <1>4. Loaded'
    BY DEF Loaded
  <1>5. Stored'
    BY DEF Stored
  <1>6. Recorded'
    BY DEF Recorded
  <1>7. Known'
    BY DEF Known
  <1>8. Told'
    BY DEF Told
  <1> QED
    BY <1>1, <1>2, <1>3, <1>4, <1>5, <1>6, <1>7, <1>8

LEMMA TaskRaisesKeeps ==
  ASSUME Inv, NEW w \in Workers, TaskRaises(w),
         UNCHANGED scheduleVars
  PROVE  Inv'
  <1> USE ReportsAssumption DEF Inv, TaskRaises
  <1>1. Types'
    OBVIOUS
  <1>2. Fresh'
    BY DEF Fresh, AtWork, Dispatched
  <1>3. OnePlace'
    BY DEF OnePlace, AtWork, Dispatched, Requesting
  <1>4. Loaded'
    BY DEF Loaded
  <1>5. Stored'
    BY DEF Stored
  <1>6. Recorded'
    BY DEF Recorded
  <1>7. Known'
    BY DEF Known
  <1>8. Told'
    BY DEF Told
  <1> QED
    BY <1>1, <1>2, <1>3, <1>4, <1>5, <1>6, <1>7, <1>8

LEMMA FailReadKeeps ==
  ASSUME Inv, NEW w \in Workers, FailRead(w),
         UNCHANGED scheduleVars
  PROVE  Inv'
  <1> USE ReportsAssumption DEF Inv, FailRead
  <1>1. Types'
    OBVIOUS
  <1>2. Fresh'
    BY DEF Fresh, AtWork, Dispatched
  <1>3. OnePlace'
    BY DEF OnePlace, AtWork, Dispatched, Requesting
  <1>4. Loaded'
    BY DEF Loaded
  <1>5. Stored'
    BY DEF Stored
  <1>6. Recorded'
    BY DEF Recorded
  <1>7. Known'
    BY DEF Known
  <1>8. Told'
    BY DEF Told
  <1> QED
    BY <1>1, <1>2, <1>3, <1>4, <1>5, <1>6, <1>7, <1>8

LEMMA AckKeeps ==
  ASSUME Inv, NEW w \in Workers, Ack(w),
         UNCHANGED scheduleVars
  PROVE  Inv'
  <1> USE ReportsAssumption DEF Inv, Ack, GoIdle, NoRow, Row, Codes
  <1>1. Types'
    OBVIOUS
  <1>2. Fresh'
    BY DEF Fresh, AtWork, Dispatched
  <1>3. OnePlace'
    BY DEF OnePlace, AtWork, Dispatched, Requesting
  <1>4. Loaded'
    BY DEF Loaded
  <1>5. Stored'
    BY DEF Stored
  <1>6. Recorded'
    BY DEF Recorded
  <1>7. Known'
    BY DEF Known
  <1>8. Told'
    BY DEF Told
  <1> QED
    BY <1>1, <1>2, <1>3, <1>4, <1>5, <1>6, <1>7, <1>8

LEMMA WorkerLostKeeps ==
  ASSUME Inv, NEW w \in Workers, WorkerLost(w),
         UNCHANGED scheduleVars
  PROVE  Inv'
  <1> USE ReportsAssumption DEF Inv, WorkerLost, GoIdle, NoRow, Row, Codes
  <1>1. Types'
    OBVIOUS
  <1>2. Fresh'
    BY DEF Fresh, AtWork, Dispatched
  <1>3. OnePlace'
    BY DEF OnePlace, AtWork, Dispatched, Requesting
  <1>4. Loaded'
    BY DEF Loaded
  <1>5. Stored'
    BY DEF Stored
  <1>6. Recorded'
    BY DEF Recorded
  <1>7. Known'
    BY DEF Known
  <1>8. Told'
    BY DEF Told
  <1> QED
    BY <1>1, <1>2, <1>3, <1>4, <1>5, <1>6, <1>7, <1>8

LEMMA RedeliverKeeps ==
  ASSUME Inv, NEW r \in Reports, Redeliver(r),
         UNCHANGED scheduleVars
  PROVE  Inv'
  <1> USE ReportsAssumption DEF Inv, Redeliver
  <1>1. Types'
    OBVIOUS
  <1>2. Fresh'
    BY DEF Fresh, AtWork, Dispatched
  <1>3. OnePlace'
    BY DEF OnePlace, AtWork, Dispatched, Requesting
  <1>4. Loaded'
    BY DEF Loaded
  <1>5. Stored'
    BY DEF Stored
  <1>6. Recorded'
    BY DEF Recorded
  <1>7. Known'
    BY DEF Known
  <1>8. Told'
    BY DEF Told
  <1> QED
    BY <1>1, <1>2, <1>3, <1>4, <1>5, <1>6, <1>7, <1>8

LEMMA SendTaskKeeps ==
  ASSUME Inv, NEW r \in Reports, SendTask(r),
         UNCHANGED scheduleVars
  PROVE  Inv'
  <1> USE ReportsAssumption DEF Inv, SendTask
  <1>1. Types'
    OBVIOUS
  <1>2. Fresh'
    BY DEF Fresh, AtWork, Dispatched
  <1>3. OnePlace'
    BY DEF OnePlace, AtWork, Dispatched, Requesting
  <1>4. Loaded'
    BY DEF Loaded
  <1>5. Stored'
    BY DEF Stored
  <1>6. Recorded'
    BY DEF Recorded
  <1>7. Known'
    BY DEF Known
  <1>8. Told'
    BY DEF Told
  <1> QED
    BY <1>1, <1>2, <1>3, <1>4, <1>5, <1>6, <1>7, <1>8

LEMMA SendRaisesKeeps ==
  ASSUME Inv, NEW r \in Reports, SendRaises(r),
         UNCHANGED scheduleVars
  PROVE  Inv'
  <1> USE ReportsAssumption DEF Inv, SendRaises
  <1>1. Types'
    OBVIOUS
  <1>2. Fresh'
    BY DEF Fresh, AtWork, Dispatched
  <1>3. OnePlace'
    BY DEF OnePlace, AtWork, Dispatched, Requesting
  <1>4. Loaded'
    BY DEF Loaded
  <1>5. Stored'
    BY DEF Stored
  <1>6. Recorded'
    BY DEF Recorded
  <1>7. Known'
    BY DEF Known
  <1>8. Told'
    BY DEF Told
  <1> QED
    BY <1>1, <1>2, <1>3, <1>4, <1>5, <1>6, <1>7, <1>8

LEMMA ApiCrashKeeps ==
  ASSUME Inv, NEW r \in Reports, ApiCrash(r),
         UNCHANGED scheduleVars
  PROVE  Inv'
  <1> USE ReportsAssumption DEF Inv, ApiCrash
  <1>1. Types'
    OBVIOUS
  <1>2. Fresh'
    BY DEF Fresh, AtWork, Dispatched
  <1>3. OnePlace'
    BY DEF OnePlace, AtWork, Dispatched, Requesting
  <1>4. Loaded'
    BY DEF Loaded
  <1>5. Stored'
    BY DEF Stored
  <1>6. Recorded'
    BY DEF Recorded
  <1>7. Known'
    BY DEF Known
  <1>8. Told'
    BY DEF Told
  <1> QED
    BY <1>1, <1>2, <1>3, <1>4, <1>5, <1>6, <1>7, <1>8

LEMMA AgeKeeps ==
  ASSUME Inv, NEW r \in Reports, Age(r),
         UNCHANGED scheduleVars
  PROVE  Inv'
  <1> USE ReportsAssumption DEF Inv, Age
  <1>1. Types'
    OBVIOUS
  <1>2. Fresh'
    BY DEF Fresh, AtWork, Dispatched
  <1>3. OnePlace'
    BY DEF OnePlace, AtWork, Dispatched, Requesting
  <1>4. Loaded'
    BY DEF Loaded
  <1>5. Stored'
    BY DEF Stored
  <1>6. Recorded'
    BY DEF Recorded
  <1>7. Known'
    BY DEF Known
  <1>8. Told'
    BY DEF Told
  <1> QED
    BY <1>1, <1>2, <1>3, <1>4, <1>5, <1>6, <1>7, <1>8

LEMMA StartSweepKeeps ==
  ASSUME Inv, StartSweep,
         UNCHANGED scheduleVars
  PROVE  Inv'
  <1> USE ReportsAssumption DEF Inv, StartSweep, IsOverdue
  <1>1. Types'
    OBVIOUS
  <1>2. Fresh'
    BY DEF Fresh, AtWork, Dispatched
  <1>3. OnePlace'
    BY DEF OnePlace, AtWork, Dispatched, Requesting
  <1>4. Loaded'
    BY DEF Loaded
  <1>5. Stored'
    BY DEF Stored, Recorded
  <1>6. Recorded'
    BY DEF Recorded
  <1>7. Known'
    BY DEF Known
  <1>8. Told'
    BY DEF Told
  <1> QED
    BY <1>1, <1>2, <1>3, <1>4, <1>5, <1>6, <1>7, <1>8

LEMMA DeleteObjectKeeps ==
  ASSUME Inv, NEW r \in Reports, DeleteObject(r),
         UNCHANGED scheduleVars
  PROVE  Inv'
  <1> USE ReportsAssumption DEF Inv, DeleteObject
  <1>1. Types'
    OBVIOUS
  <1>2. Fresh'
    BY DEF Fresh, AtWork, Dispatched
  <1>3. OnePlace'
    BY DEF OnePlace, AtWork, Dispatched, Requesting
  <1>4. Loaded'
    BY DEF Loaded, Recorded
  <1>5. Stored'
    BY DEF Stored
  <1>6. Recorded'
    BY DEF Recorded, Stored
  <1>7. Known'
    BY DEF Known
  <1>8. Told'
    BY DEF Told
  <1> QED
    BY <1>1, <1>2, <1>3, <1>4, <1>5, <1>6, <1>7, <1>8

LEMMA DeleteRaisesKeeps ==
  ASSUME Inv, NEW r \in Reports, DeleteRaises(r),
         UNCHANGED scheduleVars
  PROVE  Inv'
  <1> USE ReportsAssumption DEF Inv, DeleteRaises
  <1>1. Types'
    OBVIOUS
  <1>2. Fresh'
    BY DEF Fresh, AtWork, Dispatched
  <1>3. OnePlace'
    BY DEF OnePlace, AtWork, Dispatched, Requesting
  <1>4. Loaded'
    BY DEF Loaded
  <1>5. Stored'
    BY DEF Stored
  <1>6. Recorded'
    BY DEF Recorded
  <1>7. Known'
    BY DEF Known
  <1>8. Told'
    BY DEF Told
  <1> QED
    BY <1>1, <1>2, <1>3, <1>4, <1>5, <1>6, <1>7, <1>8

LEMMA SweepLostKeeps ==
  ASSUME Inv, SweepLost,
         UNCHANGED scheduleVars
  PROVE  Inv'
  <1> USE ReportsAssumption DEF Inv, SweepLost
  <1>1. Types'
    OBVIOUS
  <1>2. Fresh'
    BY DEF Fresh, AtWork, Dispatched
  <1>3. OnePlace'
    BY DEF OnePlace, AtWork, Dispatched, Requesting
  <1>4. Loaded'
    BY DEF Loaded
  <1>5. Stored'
    BY DEF Stored
  <1>6. Recorded'
    BY DEF Recorded
  <1>7. Known'
    BY DEF Known
  <1>8. Told'
    BY DEF Told
  <1> QED
    BY <1>1, <1>2, <1>3, <1>4, <1>5, <1>6, <1>7, <1>8

LEMMA StartDownloadKeeps ==
  ASSUME Inv, NEW r \in Reports, StartDownload(r),
         UNCHANGED scheduleVars
  PROVE  Inv'
  <1> USE ReportsAssumption DEF Inv, StartDownload, IsDownloadable
  <1>1. Types'
    OBVIOUS
  <1>2. Fresh'
    BY DEF Fresh, AtWork, Dispatched
  <1>3. OnePlace'
    BY DEF OnePlace, AtWork, Dispatched, Requesting
  <1>4. Loaded'
    BY DEF Loaded
  <1>5. Stored'
    BY DEF Stored
  <1>6. Recorded'
    BY DEF Recorded
  <1>7. Known'
    BY DEF Known
  <1>8. Told'
    BY DEF Told
  <1> QED
    BY <1>1, <1>2, <1>3, <1>4, <1>5, <1>6, <1>7, <1>8

LEMMA EndDownloadKeeps ==
  ASSUME Inv, EndDownload,
         UNCHANGED scheduleVars
  PROVE  Inv'
  <1> USE ReportsAssumption DEF Inv, EndDownload
  <1>1. Types'
    OBVIOUS
  <1>2. Fresh'
    BY DEF Fresh, AtWork, Dispatched
  <1>3. OnePlace'
    BY DEF OnePlace, AtWork, Dispatched, Requesting
  <1>4. Loaded'
    BY DEF Loaded
  <1>5. Stored'
    BY DEF Stored
  <1>6. Recorded'
    BY DEF Recorded
  <1>7. Known'
    BY DEF Known
  <1>8. Told'
    BY DEF Told
  <1> QED
    BY <1>1, <1>2, <1>3, <1>4, <1>5, <1>6, <1>7, <1>8

-----------------------------------------------------------------------------
(* The steps that write a row.                                             *)
LEMMA CreateReportKeeps ==
  ASSUME Inv, NEW r \in Reports, CreateReport(r),
         UNCHANGED scheduleVars
  PROVE  Inv'
  <1> USE ReportsAssumption DEF Inv, CreateReport
  <1>0. /\ report'[r] \in Row /\ report'[r].status = "QUEUED"
        /\ report'[r].content = 0
    BY QueuedFields
  <1>u. \A q \in Reports \ {r} : report'[q] = report[q]
    OBVIOUS
  <1>1. Types'
    BY <1>0, <1>u
  <1>2. Fresh'
    BY <1>0, <1>u DEF Fresh, AtWork, Dispatched
  <1>3. OnePlace'
    BY <1>0, <1>u DEF OnePlace, AtWork, Dispatched, Requesting, Fresh
  <1>4. Loaded'
    BY <1>0, <1>u DEF Loaded, Fresh, AtWork, Dispatched
  <1>5. Stored'
    BY <1>0, <1>u DEF Stored, Fresh, AtWork, Dispatched
  <1>6. Recorded'
    BY <1>0, <1>u DEF Recorded, Fresh, AtWork, Dispatched
  <1>7. Known'
    BY <1>0, <1>u DEF Known, Fresh, AtWork, Dispatched
  <1>8. Told'
    BY <1>0, <1>u DEF Told, Fresh, AtWork, Dispatched
  <1> QED
    BY <1>1, <1>2, <1>3, <1>4, <1>5, <1>6, <1>7, <1>8

LEMMA MarkKeeps ==
  ASSUME Inv, NEW r \in Reports, MarkDispatchFailed(r),
         UNCHANGED scheduleVars
  PROVE  Inv'
  <1> USE ReportsAssumption DEF Inv, MarkDispatchFailed
  <1>q. /\ Queued(None) \in Row /\ Queued(None).status = "QUEUED"
        /\ Queued(None).content = 0
    BY QueuedFields
  <1>f. LET failed == Failed(Queued(None), "DISPATCH_FAILED") IN
        failed \in Row /\ failed.status = "FAILED" /\ failed.content = 0
    BY <1>q, FailedFields DEF Codes
  <1>0. /\ report'[r] \in Row /\ report'[r].status = "FAILED"
        /\ report'[r].content = report[r].content
    BY <1>q, <1>f, FlushFields
  <1>u. \A q \in Reports \ {r} : report'[q] = report[q]
    OBVIOUS
  <1>1. Types'
    BY <1>0, <1>u
  <1>2. Fresh'
    BY <1>0, <1>u DEF Fresh, AtWork, Dispatched
  <1>3. OnePlace'
    BY <1>0, <1>u DEF OnePlace, AtWork, Dispatched, Requesting
  <1>4. Loaded'
    BY <1>0, <1>u DEF Loaded, OnePlace, AtWork, Dispatched, Requesting
  <1>5. Stored'
    BY <1>0, <1>u DEF Stored
  <1>6. Recorded'
    BY <1>0, <1>u DEF Recorded, OnePlace, AtWork, Dispatched, Requesting
  <1>7. Known'
    BY <1>0, <1>u DEF Known, OnePlace, AtWork, Dispatched, Requesting
  <1>8. Told'
    BY <1>0, <1>u DEF Told, OnePlace, AtWork, Dispatched, Requesting
  <1> QED
    BY <1>1, <1>2, <1>3, <1>4, <1>5, <1>6, <1>7, <1>8

LEMMA ClaimKeeps ==
  ASSUME Inv, NEW w \in Workers, Claim(w),
         UNCHANGED scheduleVars
  PROVE  Inv'
  <1> USE ReportsAssumption DEF Inv, Claim
  <1>t. task[w] \in Reports
    BY DEF Loaded
  <1>u. \A q \in Reports \ {task[w]} : report'[q] = report[q]
    OBVIOUS
  <1> DEFINE running == [mem[w] EXCEPT !.status = "RUNNING"]
  <1>r. /\ running \in Row /\ running.status = "RUNNING"
        /\ running.content = mem[w].content
    BY RunningFields
  <1>m. mem' = [mem EXCEPT ![w] = running]
    OBVIOUS
  <1>e. report'[task[w]] = Flush(report[task[w]], mem[w], running)
    BY <1>t
  <1>l. mem[w] \in Row /\ report[task[w]] \in Row
    BY <1>t
  <1> HIDE DEF running
  <1>0. /\ report'[task[w]] \in Row
        /\ report'[task[w]].status = IF mem[w].status # "RUNNING" THEN "RUNNING"
                                      ELSE report[task[w]].status
        /\ report'[task[w]].content = report[task[w]].content
    BY <1>r, <1>l, <1>e, FlushFields
  <1>1. Types'
    BY <1>0, <1>u, <1>t, <1>r, <1>m
  <1>2. Fresh'
    BY <1>0, <1>u, <1>t, <1>r, <1>m DEF Fresh, AtWork, Dispatched
  <1>3. OnePlace'
    BY <1>0, <1>u, <1>t, <1>r, <1>m DEF OnePlace, AtWork, Dispatched, Requesting
  <1>4. Loaded'
    BY <1>0, <1>u, <1>t, <1>r, <1>m DEF Loaded, OnePlace, AtWork, Dispatched, Requesting
  <1>5. Stored'
    BY <1>0, <1>u, <1>t, <1>r, <1>m DEF Stored
  <1>6. Recorded'
    BY <1>0, <1>u, <1>t, <1>r, <1>m DEF Recorded, Loaded
  <1>7. Known'
    BY <1>0, <1>u, <1>t, <1>r, <1>m DEF Known, OnePlace, AtWork, Dispatched, Requesting, Loaded
  <1>8. Told'
    BY <1>0, <1>u, <1>t, <1>r, <1>m DEF Told, Loaded
  <1> QED
    BY <1>1, <1>2, <1>3, <1>4, <1>5, <1>6, <1>7, <1>8

LEMMA CommitKeeps ==
  ASSUME Inv, NEW w \in Workers, Commit(w),
         UNCHANGED scheduleVars
  PROVE  Inv'
  <1> USE ReportsAssumption DEF Inv, Commit
  <1>t. task[w] \in Reports
    BY DEF Loaded
  <1>u. \A q \in Reports \ {task[w]} : report'[q] = report[q]
    OBVIOUS
  <1> DEFINE done == Completed(mem[w], made[w])
  <1>r. done \in Row /\ done.status = "COMPLETED" /\ done.content = made[w]
    <2>1. mem[w] \in Row /\ made[w] \in 0..MaxContent
      OBVIOUS
    <2> QED
      BY ONLY <2>1, CompletedFields
  <1>0. /\ report'[task[w]] \in Row
        /\ report'[task[w]].status = IF mem[w].status # "COMPLETED"
                                      THEN "COMPLETED" ELSE report[task[w]].status
        /\ report'[task[w]].content = IF made[w] # mem[w].content THEN made[w]
                                       ELSE report[task[w]].content
    BY <1>r, <1>t, FlushFields
  <1> HIDE DEF done
  <1>1. Types'
    BY <1>0, <1>u, <1>t
  <1>2. Fresh'
    BY <1>0, <1>u, <1>t DEF Fresh, AtWork, Dispatched
  <1>3. OnePlace'
    BY <1>0, <1>u, <1>t DEF OnePlace, AtWork, Dispatched, Requesting
  <1>4. Loaded'
    BY <1>0, <1>u, <1>t DEF Loaded, OnePlace, AtWork, Dispatched, Requesting
  <1>5. Stored'
    BY <1>0, <1>u, <1>t DEF Stored
  <1>6. Recorded'
    BY <1>0, <1>u, <1>t DEF Recorded, Loaded, Stored
  <1>7. Known'
    BY <1>0, <1>u, <1>t DEF Known, OnePlace, AtWork, Dispatched, Requesting, Loaded
  <1>8. Told'
    BY <1>0, <1>u, <1>t DEF Told, OnePlace, AtWork, Dispatched, Requesting, Loaded
  <1> QED
    BY <1>1, <1>2, <1>3, <1>4, <1>5, <1>6, <1>7, <1>8

LEMMA FailWriteKeeps ==
  ASSUME Inv, NEW w \in Workers, FailWrite(w),
         UNCHANGED scheduleVars
  PROVE  Inv'
  <1> USE ReportsAssumption DEF Inv, FailWrite
  <1>t. task[w] \in Reports
    BY DEF Loaded
  <1>u. \A q \in Reports \ {task[w]} : report'[q] = report[q]
    OBVIOUS
  <1> DEFINE failed == Failed(mem[w], code[w])
  <1>r. failed \in Row /\ failed.status = "FAILED" /\ failed.content = mem[w].content
    BY FailedFields
  <1>0. /\ report'[task[w]] \in Row
        /\ report'[task[w]].status = IF mem[w].status # "FAILED"
                                      THEN "FAILED" ELSE report[task[w]].status
        /\ report'[task[w]].content = report[task[w]].content
    BY <1>r, <1>t, FlushFields
  <1> HIDE DEF failed
  <1>1. Types'
    BY <1>0, <1>u, <1>t
  <1>2. Fresh'
    BY <1>0, <1>u, <1>t DEF Fresh, AtWork, Dispatched
  <1>3. OnePlace'
    BY <1>0, <1>u, <1>t DEF OnePlace, AtWork, Dispatched, Requesting
  <1>4. Loaded'
    BY <1>0, <1>u, <1>t DEF Loaded, OnePlace, AtWork, Dispatched, Requesting
  <1>5. Stored'
    BY <1>0, <1>u, <1>t DEF Stored
  <1>6. Recorded'
    BY <1>0, <1>u, <1>t DEF Recorded, Loaded, Stored
  <1>7. Known'
    BY <1>0, <1>u, <1>t DEF Known, OnePlace, AtWork, Dispatched, Requesting, Loaded
  <1>8. Told'
    BY <1>0, <1>u, <1>t DEF Told, OnePlace, AtWork, Dispatched, Requesting, Loaded
  <1> QED
    BY <1>1, <1>2, <1>3, <1>4, <1>5, <1>6, <1>7, <1>8

LEMMA CommitSweepKeeps ==
  ASSUME Inv, CommitSweep,
         UNCHANGED scheduleVars
  PROVE  Inv'
  <1> USE ReportsAssumption DEF Inv, CommitSweep
  <1>0. \A r \in sweep.gone : /\ report'[r] \in Row
                             /\ report'[r].status = "EXPIRED"
                             /\ report'[r].content = 0
    BY ExpiredFields
  <1>u. \A q \in Reports \ sweep.gone : report'[q] = report[q]
    OBVIOUS
  <1>r. report' \in [Reports -> Row]
    BY <1>0, <1>u
  <1>s. sweep'.due = {} /\ sweep'.gone = {} /\ sweep.gone \subseteq Reports
    OBVIOUS
  <1>1. Types'
    BY <1>0, <1>u, <1>r, <1>s
  <1>2. Fresh'
    <2> SUFFICES ASSUME NEW r \in Reports, report'[r].status = "ABSENT"
                 PROVE  report[r].status = "ABSENT" /\ report'[r] = report[r]
      BY <1>s DEF Fresh, AtWork, Dispatched
    <2>1. r \notin sweep.gone
      BY <1>0
    <2> QED
      BY <2>1, <1>u
  <1>3. OnePlace'
    BY <1>0, <1>u, <1>r, <1>s DEF OnePlace, AtWork, Dispatched, Requesting, Recorded
  <1>4. Loaded'
    BY <1>0, <1>u, <1>r, <1>s DEF Loaded, Recorded
  <1>5. Stored'
    BY <1>0, <1>u, <1>r, <1>s DEF Stored
  <1>6. Recorded'
    BY <1>0, <1>u, <1>r, <1>s DEF Recorded
  <1>7. Known'
    BY <1>0, <1>u, <1>r, <1>s DEF Known, Recorded
  <1>8. Told'
    <2> SUFFICES ASSUME NEW r \in Reports, r \in sweep.gone, r \notin doubled
                 PROVE  /\ report'[r].status = "EXPIRED"
                        /\ report[r].status = "COMPLETED"
      BY <1>u DEF Told
    <2> QED
      BY <1>0 DEF Recorded
  <1> QED
    BY <1>1, <1>2, <1>3, <1>4, <1>5, <1>6, <1>7, <1>8

-----------------------------------------------------------------------------
(* The dispatcher, and what is of schedules only.                          *)
LEMMA SchedulesKeep ==
  ASSUME Inv, now' \in 0..MaxTime,
         UNCHANGED <<reportVars, dispatch>>
  PROVE  Inv'
  <1> USE ReportsAssumption DEF Inv
  <1>1. Types'
    OBVIOUS
  <1>2. Fresh'
    BY DEF Fresh, AtWork, Dispatched
  <1>3. OnePlace'
    BY DEF OnePlace, AtWork, Dispatched, Requesting
  <1>4. Loaded'
    BY DEF Loaded
  <1>5. Stored'
    BY DEF Stored
  <1>6. Recorded'
    BY DEF Recorded
  <1>7. Known'
    BY DEF Known
  <1>8. Told'
    BY DEF Told
  <1> QED
    BY <1>1, <1>2, <1>3, <1>4, <1>5, <1>6, <1>7, <1>8

Runs == [pc: {"idle", "select", "commit", "send"}, at: 0..MaxTime,
         rows: SUBSET Schedules, send: SUBSET Reports]

(* A dispatcher that has nothing to send, or gives up what it had.         *)
LEMMA RunKeeps ==
  ASSUME Inv, NEW d \in Dispatchers, NEW n \in Runs, n.send = {},
         dispatch' = [dispatch EXCEPT ![d] = n],
         UNCHANGED <<report, old, storeVars, request, brokerVars, workerVars,
                     sweep, reading, doubled>>,
         now' \in 0..MaxTime, faults' \in 0..MaxFaults,
         lost \subseteq lost', lost' \subseteq Reports
  PROVE  Inv'
  <1> USE ReportsAssumption DEF Inv
  <1>z. /\ dispatch' \in [Dispatchers -> Runs]
        /\ dispatch'[d].send = {}
        /\ \A e \in Dispatchers \ {d} : dispatch'[e] = dispatch[e]
    BY DEF Runs
  <1>1. Types'
    BY <1>z DEF Runs
  <1>2. Fresh'
    BY <1>z DEF Fresh, AtWork, Dispatched
  <1>3. OnePlace'
    BY <1>z DEF OnePlace, AtWork, Dispatched, Requesting
  <1>4. Loaded'
    BY <1>z DEF Loaded
  <1>5. Stored'
    BY <1>z DEF Stored
  <1>6. Recorded'
    BY <1>z DEF Recorded
  <1>7. Known'
    BY <1>z DEF Known
  <1>8. Told'
    BY <1>z DEF Told
  <1> QED
    BY <1>1, <1>2, <1>3, <1>4, <1>5, <1>6, <1>7, <1>8

LEMMA Bounds ==
  ASSUME Inv
  PROVE  /\ 0 \in 0..MaxTime /\ now \in 0..MaxTime
         /\ faults \in 0..MaxFaults
         /\ lost \subseteq Reports
         /\ \A d \in Dispatchers : /\ dispatch[d].at \in 0..MaxTime
                                   /\ dispatch[d].send \subseteq Reports
                                   /\ dispatch[d].rows \subseteq Schedules
  BY SchedulesAssumption DEF Inv

LEMMA IdleRun == Inv => Idle \in Runs /\ Idle.send = {}
  BY Bounds DEF Idle, Run, Runs

LEMMA StartDispatchKeeps ==
  ASSUME Inv, NEW d \in Dispatchers, StartDispatch(d)
  PROVE  Inv'
  <1> DEFINE n == Run("select", now, {}, {})
  <1>1. n \in Runs /\ n.send = {}
    BY Bounds DEF Run, Runs
  <1>2. /\ dispatch' = [dispatch EXCEPT ![d] = n]
        /\ UNCHANGED <<reportVars, now>>
    BY DEF StartDispatch
  <1> HIDE DEF n
  <1> QED
    BY <1>1, <1>2, Bounds, RunKeeps

LEMMA SelectDueKeeps ==
  ASSUME Inv, NEW d \in Dispatchers, SelectDue(d)
  PROVE  Inv'
  <1>1. UNCHANGED <<reportVars, now>>
    BY DEF SelectDue
  <1>2. CASE dispatch' = [dispatch EXCEPT ![d] = Idle]
    BY <1>1, <1>2, Bounds, IdleRun, RunKeeps
  <1>3. ASSUME NEW rows \in SUBSET Schedules,
               dispatch' = [dispatch EXCEPT
                  ![d] = Run("commit", dispatch[d].at, rows, {})]
        PROVE  Inv'
    <2> DEFINE n == Run("commit", dispatch[d].at, rows, {})
    <2>1. n \in Runs /\ n.send = {}
      BY Bounds DEF Run, Runs
    <2>2. dispatch' = [dispatch EXCEPT ![d] = n]
      BY <1>3
    <2> HIDE DEF n
    <2> QED
      BY <1>1, <2>1, <2>2, Bounds, RunKeeps
  <1> QED
    BY <1>2, <1>3 DEF SelectDue, Claimable

LEMMA OutOfIdsKeeps ==
  ASSUME Inv, NEW d \in Dispatchers, OutOfIds(d)
  PROVE  Inv'
  <1>1. /\ dispatch' = [dispatch EXCEPT ![d] = Idle]
        /\ UNCHANGED <<reportVars, now>>
    BY DEF OutOfIds
  <1> QED
    BY <1>1, Bounds, IdleRun, RunKeeps

LEMMA DispatchLostKeeps ==
  ASSUME Inv, NEW d \in Dispatchers, DispatchLost(d)
  PROVE  Inv'
  <1>1. /\ dispatch' = [dispatch EXCEPT ![d] = Idle]
        /\ UNCHANGED <<report, old, storeVars, request, brokerVars, workerVars,
                       sweep, reading, doubled, now>>
        /\ lost' = lost \cup dispatch[d].send
    BY DEF DispatchLost
  <1>2. faults' \in 0..MaxFaults
    BY ReportsAssumption, Bounds DEF DispatchLost
  <1> QED
    BY <1>1, <1>2, Bounds, IdleRun, RunKeeps

LEMMA SendNextKeeps ==
  ASSUME Inv, NEW d \in Dispatchers, NEW r \in Reports, SendNext(d, r)
  PROVE  Inv'
  <1> USE ReportsAssumption DEF Inv
  <1> DEFINE left == dispatch[d].send \ {r}
             n == IF left = {} THEN Idle ELSE Run("send", dispatch[d].at, {}, left)
  <1>b. left \subseteq Reports
    OBVIOUS
  <1>n. /\ n \in [pc: {"idle", "select", "commit", "send"}, at: 0..MaxTime,
                   rows: SUBSET Schedules, send: SUBSET Reports]
        /\ n.send = left
    <2>1. CASE left = {}
      BY <2>1, Bounds DEF Idle, Run
    <2>2. CASE left # {}
      BY <2>2, <1>b, Bounds DEF Run
    <2> QED
      BY <2>1, <2>2
  <1>d. dispatch' = [dispatch EXCEPT ![d] = n] /\ r \in dispatch[d].send
    BY DEF SendNext, Sent
  <1> HIDE DEF n
  <1>z. /\ dispatch' \in [Dispatchers -> [pc: {"idle", "select", "commit", "send"},
                                     at: 0..MaxTime, rows: SUBSET Schedules,
                                     send: SUBSET Reports]]
        /\ dispatch'[d].send = left
        /\ \A e \in Dispatchers \ {d} : dispatch'[e] = dispatch[e]
    BY <1>n, <1>d
  <1>1. Types'
    BY <1>z, <1>d DEF SendNext
  <1>2. Fresh'
    BY <1>z, <1>d DEF Fresh, AtWork, Dispatched, SendNext
  <1>3. OnePlace'
    BY <1>z, <1>d DEF OnePlace, AtWork, Dispatched, Requesting, SendNext
  <1>4. Loaded'
    BY <1>z, <1>d DEF Loaded, SendNext
  <1>5. Stored'
    BY <1>z, <1>d DEF Stored, SendNext
  <1>6. Recorded'
    BY <1>z, <1>d DEF Recorded, SendNext
  <1>7. Known'
    BY <1>z, <1>d DEF Known, SendNext
  <1>8. Told'
    BY <1>z, <1>d DEF Told, SendNext
  <1> QED
    BY <1>1, <1>2, <1>3, <1>4, <1>5, <1>6, <1>7, <1>8

LEMMA CommitDispatchKeeps ==
  ASSUME Inv, NEW d \in Dispatchers, CommitDispatch(d)
  PROVE  Inv'
  <1> USE ReportsAssumption DEF Inv
  <1> DEFINE rows == dispatch[d].rows
             id == CHOOSE any \in FreshIds(rows) : TRUE
             created == {id[s] : s \in rows}
             for(r) == CHOOSE s \in rows : id[s] = r
             n == Run("send", dispatch[d].at, {}, created)
  <1>a. id \in FreshIds(rows) /\ rows \subseteq Schedules
    BY Bounds DEF CommitDispatch, EnoughIds
  <1>d. /\ dispatch' = [dispatch EXCEPT ![d] = n]
        /\ report' = [r \in Reports |->
                        IF r \in created THEN Queued(for(r)) ELSE report[r]]
        /\ UNCHANGED <<old, storeVars, request, brokerVars, workerVars, sweep,
                       reading, faultVars, now>>
    BY DEF CommitDispatch
  <1> HIDE DEF id
  <1>b. id \in [rows -> {r \in Reports : report[r].status = "ABSENT"}]
    BY <1>a DEF FreshIds
  <1>c. created \subseteq {r \in Reports : report[r].status = "ABSENT"}
    BY <1>b
  <1>f. \A r \in created : for(r) \in Schedules
    BY <1>a
  <1>n. n \in Runs /\ n.send = created
    BY <1>c, Bounds DEF Run, Runs
  <1> HIDE DEF n, id, created, for, rows
  <1>0. \A r \in created : /\ report'[r] \in Row
                           /\ report'[r].status = "QUEUED"
                           /\ report'[r].content = 0
    BY <1>c, <1>d, <1>f, QueuedFields
  <1>u. \A r \in Reports \ created : report'[r] = report[r]
    BY <1>d
  <1>z. /\ dispatch' \in [Dispatchers -> Runs]
        /\ dispatch'[d].send = created
        /\ \A e \in Dispatchers \ {d} : dispatch'[e] = dispatch[e]
    BY <1>n, <1>d DEF Runs
  <1>r. report' \in [Reports -> Row]
    BY <1>0, <1>u, <1>d
  <1>1. Types'
    BY <1>0, <1>u, <1>c, <1>d, <1>z, <1>r DEF Runs
  <1>2. Fresh'
    <2> SUFFICES ASSUME NEW r \in Reports, report'[r].status = "ABSENT"
                 PROVE  /\ report[r].status = "ABSENT" /\ report'[r] = report[r]
                        /\ Dispatched(r)' => Dispatched(r)
      BY <1>d DEF Fresh, AtWork
    <2>1. r \notin created
      BY <1>0
    <2> QED
      BY <2>1, <1>u, <1>z DEF Dispatched
  <1>3. OnePlace'
    BY <1>0, <1>u, <1>c, <1>d, <1>z, <1>r DEF OnePlace, AtWork, Dispatched, Requesting, Fresh
  <1>4. Loaded'
    BY <1>0, <1>u, <1>c, <1>d, <1>z, <1>r DEF Loaded, Fresh, AtWork, Dispatched
  <1>5. Stored'
    BY <1>0, <1>u, <1>c, <1>d, <1>z, <1>r DEF Stored, Fresh, AtWork, Dispatched
  <1>6. Recorded'
    BY <1>0, <1>u, <1>c, <1>d, <1>z, <1>r DEF Recorded, Fresh, AtWork, Dispatched
  <1>7. Known'
    BY <1>0, <1>u, <1>c, <1>d, <1>z, <1>r DEF Known, Fresh, AtWork, Dispatched
  <1>8. Told'
    BY <1>0, <1>u, <1>c, <1>d, <1>z, <1>r DEF Told, Fresh, AtWork, Dispatched
  <1> QED
    BY <1>1, <1>2, <1>3, <1>4, <1>5, <1>6, <1>7, <1>8

-----------------------------------------------------------------------------
(* All steps together.                                                     *)
LEMMA RequestKeeps ==
  ASSUME Inv, NEW r \in Reports,
         Call(r) \/ ((CreateReport(r) \/ ApiCrash(r)) /\ UNCHANGED scheduleVars)
  PROVE  Inv'
  BY SendTaskKeeps, SendRaisesKeeps, MarkKeeps, CreateReportKeeps, ApiCrashKeeps
  DEF Call, RequestStep

LEMMA GenerateKeeps ==
  ASSUME Inv, NEW w \in Workers, Work(w)
  PROVE  Inv'
  BY LoadKeeps, ClaimKeeps, CollectKeeps, CollectRaisesKeeps, PutKeeps,
     PutRaisesKeeps, NotifyKeeps, CommitKeeps, CommitRaisesKeeps,
     TaskRaisesKeeps, FailReadKeeps, FailWriteKeeps, AckKeeps
  DEF Work, Generate

LEMMA SweepKeeps ==
  ASSUME Inv, Expire
  PROVE  Inv'
  BY StartSweepKeeps, CommitSweepKeeps, DeleteObjectKeeps, DeleteRaisesKeeps
  DEF Expire, Sweep

LEMMA DispatchKeeps ==
  ASSUME Inv, NEW d \in Dispatchers, Dispatch(d) \/ DispatchLost(d)
  PROVE  Inv'
  BY StartDispatchKeeps, SelectDueKeeps, CommitDispatchKeeps, OutOfIdsKeeps,
     SendNextKeeps, DispatchLostKeeps
  DEF Dispatch

LEMMA PlanKeeps ==
  ASSUME Inv,
         \/ Tick
         \/ \E s \in Schedules : CreateSchedule(s) \/ ReadSchedule(s)
         \/ SaveSchedule
  PROVE  Inv'
  <1>1. now' \in 0..MaxTime /\ UNCHANGED <<reportVars, dispatch>>
    <2>1. CASE Tick
      BY <2>1, SchedulesAssumption DEF Tick, Inv
    <2>2. CASE UNCHANGED <<reportVars, dispatch, now>>
      BY <2>2, Bounds
    <2> HIDE DEF reportVars
    <2> QED
      BY <2>1, <2>2 DEF CreateSchedule, ReadSchedule, SaveSchedule
  <1> QED
    BY <1>1, SchedulesKeep

LEMMA NextKeeps ==
  ASSUME Inv, [Next]_vars
  PROVE  Inv'
  <1>1. CASE UNCHANGED vars
    BY <1>1, SchedulesKeep, Bounds
  <1>2. ASSUME NEW r \in Reports, Receive(r) \/ Return(r)
        PROVE  Inv'
    BY <1>2, TakeKeeps, RedeliverKeeps DEF Receive, Return
  <1>3. ASSUME NEW r \in Reports, Age(r) \/ StartDownload(r),
               UNCHANGED scheduleVars
        PROVE  Inv'
    BY <1>3, AgeKeeps, StartDownloadKeeps
  <1>4. ASSUME NEW w \in Workers, WorkerLost(w), UNCHANGED scheduleVars
        PROVE  Inv'
    BY <1>4, WorkerLostKeeps
  <1>5. ASSUME SweepLost \/ EndDownload, UNCHANGED scheduleVars
        PROVE  Inv'
    BY <1>5, SweepLostKeeps, EndDownloadKeeps
  <1> HIDE DEF vars, scheduleVars
  <1> QED
    BY <1>1, <1>2, <1>3, <1>4, <1>5, RequestKeeps, GenerateKeeps, SweepKeeps,
       DispatchKeeps, PlanKeeps
    DEF Next

(* The invariant that the theorems below rest on.                          *)
THEOREM InvHolds == Spec => []Inv
  <1>1. Init => Inv
    BY InitInv
  <1>2. Inv /\ [Next]_vars => Inv'
    BY NextKeeps
  <1> QED
    BY <1>1, <1>2, PTL DEF Spec

(* Every row, object, message and worker keeps its type.                   *)
THEOREM ReportTypesHold == Spec => []ReportsTypeOK
  <1>1. Inv => ReportsTypeOK
    BY DEF Inv
  <1> QED
    BY <1>1, InvHolds, PTL

(* A report that can be downloaded, or is being downloaded before its      *)
(* expires_at, has the object whose checksum its row records: a row gets   *)
(* its key after the object is stored, and only the sweep, which takes old *)
(* reports, deletes one.                                                   *)
THEOREM CompletedHasObjectHolds == Spec => []CompletedHasObject
  <1>1. Inv => CompletedHasObject
    BY DEF Inv, Stored, Recorded, CompletedHasObject, IsDownloadable
  <1> QED
    BY <1>1, InvHolds, PTL

(* No object is forgotten, unless its worker, the store or the database    *)
(* failed, or two parties worked on the report: an object without a record *)
(* belongs to a worker that is about to commit.                            *)
THEOREM ObjectsAreKnownHolds == Spec => []ObjectsAreKnown
  <1>1. Inv => ObjectsAreKnown
    BY DEF Inv, Known, Recorded, ObjectsAreKnown, AtWork
  <1> QED
    BY <1>1, InvHolds, PTL

(* A mail announces what is completed and recorded; same exceptions.       *)
THEOREM NoticesAreTrueHolds == Spec => []NoticesAreTrue
  <1>1. Inv => NoticesAreTrue
    BY DEF Inv, Told, NoticesAreTrue, AtWork
  <1> QED
    BY <1>1, InvHolds, PTL
-----------------------------------------------------------------------------
(* Days and months, and when the periods of two runs can meet.             *)
Times == 0..MaxTime

LEMMA DayBounds ==
  ASSUME NEW t \in Int
  PROVE  /\ Day(t) \in Int
         /\ Day(t) * DayLength <= t
         /\ t < Day(t) * DayLength + DayLength
  BY SchedulesAssumption, SMT DEF Day

LEMMA DayAtLeast ==
  ASSUME NEW t \in Int, NEW m \in Int, t >= m * DayLength
  PROVE  Day(t) >= m
  <1> SUFFICES ASSUME Day(t) + 1 <= m PROVE FALSE
    BY DayBounds
  <1>1. (Day(t) + 1) * DayLength <= m * DayLength
    BY DayBounds, SchedulesAssumption, SMT
  <1>2. (Day(t) + 1) * DayLength = Day(t) * DayLength + DayLength
    BY DayBounds, SchedulesAssumption, SMT
  <1>3. m * DayLength \in Int /\ (Day(t) + 1) * DayLength \in Int
    BY DayBounds, SchedulesAssumption, SMT
  <1> QED
    BY <1>1, <1>2, <1>3, DayBounds

LEMMA DayMonotone ==
  ASSUME NEW t \in Int, NEW u \in Int, t <= u
  PROVE  Day(t) <= Day(u)
  <1>1. Day(t) \in Int /\ Day(t) * DayLength \in Int /\ Day(t) * DayLength <= t
    BY DayBounds, SchedulesAssumption, SMT
  <1>2. Day(t) * DayLength <= u
    BY <1>1
  <1> QED
    BY <1>1, <1>2, DayAtLeast, DayBounds

LEMMA DaysLater ==
  ASSUME NEW t \in Int, NEW k \in Int, NEW u \in Int, u >= t + k * DayLength
  PROVE  Day(u) >= Day(t) + k
  <1>1. /\ Day(t) \in Int /\ Day(t) * DayLength \in Int
        /\ Day(t) * DayLength <= t /\ k * DayLength \in Int
    BY DayBounds, SchedulesAssumption, SMT
  <1>2. (Day(t) + k) * DayLength = Day(t) * DayLength + k * DayLength
    BY <1>1, SchedulesAssumption, SMT
  <1>3. u >= (Day(t) + k) * DayLength
    BY <1>1, <1>2
  <1> QED
    BY <1>1, <1>3, DayAtLeast

LEMMA MonthFacts ==
  ASSUME NEW day, \E m \in MonthStarts : BeginsMonthOf(m, day)
  PROVE  MonthOf(day) \in MonthStarts /\ BeginsMonthOf(MonthOf(day), day)
  BY DEF MonthOf

LEMMA NextMonthFacts ==
  ASSUME NEW day, \E m \in MonthStarts : FollowsMonthOf(m, day)
  PROVE  NextMonth(day) \in MonthStarts /\ FollowsMonthOf(NextMonth(day), day)
  BY DEF NextMonth

LEMMA DayInCalendar ==
  ASSUME NEW t \in Times
  PROVE  Day(t) \in 0..Day(MaxTime) /\ Day(t) \in Nat
  <1>1. t \in Int /\ MaxTime \in Int /\ t <= MaxTime /\ t >= 0 * DayLength
    BY SchedulesAssumption DEF Times
  <1> QED
    BY <1>1, DayMonotone, DayAtLeast, DayBounds

(* A monthly run at t reports the month before that of t's day.            *)
LEMMA MonthlyFacts ==
  ASSUME NEW t \in Times, "monthly" \in Frequencies
  PROVE  /\ MonthOf(Day(t)) \in MonthStarts
         /\ BeginsMonthOf(MonthOf(Day(t)), Day(t))
         /\ MonthOf(MonthOf(Day(t)) - 1) \in MonthStarts
         /\ BeginsMonthOf(MonthOf(MonthOf(Day(t)) - 1), MonthOf(Day(t)) - 1)
         /\ NextMonth(Day(t)) \in MonthStarts
         /\ FollowsMonthOf(NextMonth(Day(t)), Day(t))
  BY CalendarAssumption, DayInCalendar, MonthFacts, NextMonthFacts

LEMMA NextRunLater ==
  ASSUME NEW t \in Times, NEW f \in Frequencies
  PROVE  NextRun(t, f) \in Nat /\ NextRun(t, f) > t
  <1>0. t \in Nat /\ Day(t) \in Nat /\ f \in {"daily", "weekly", "monthly"}
    BY DayInCalendar, SchedulesAssumption DEF Times
  <1>1. CASE f = "daily"
    BY <1>0, <1>1, SchedulesAssumption DEF NextRun
  <1>2. CASE f = "weekly"
    <2>1. WeekLength * DayLength \in Nat \ {0}
      BY SchedulesAssumption, SMT
    <2> QED
      BY <1>0, <1>2, <2>1 DEF NextRun
  <1>3. CASE f = "monthly"
    <2> DEFINE m == NextMonth(Day(t))
    <2>0. m \in Int /\ m > Day(t)
      BY <1>3, MonthlyFacts, SchedulesAssumption DEF FollowsMonthOf
    <2>1. m \in Int /\ m >= Day(t) + 1
      BY <1>0, <2>0
    <2>2. t % DayLength \in Nat /\ t = Day(t) * DayLength + (t % DayLength)
      BY <1>0, SchedulesAssumption, SMT DEF Day
    <2> HIDE DEF m
    <2>3. m * DayLength \in Int /\ m * DayLength >= (Day(t) + 1) * DayLength
      BY <1>0, <2>1, SchedulesAssumption, SMT
    <2>4. /\ (Day(t) + 1) * DayLength = Day(t) * DayLength + DayLength
          /\ Day(t) * DayLength \in Int
      BY <1>0, SchedulesAssumption, SMT
    <2>5. m * DayLength + (t % DayLength) > t
      BY <1>0, <2>2, <2>3, <2>4, SchedulesAssumption
    <2>6. NextRun(t, f) = m * DayLength + (t % DayLength)
      BY <1>3 DEF NextRun, m
    <2> QED
      BY <1>0, <2>2, <2>3, <2>5, <2>6
  <1> QED
    BY <1>0, <1>1, <1>2, <1>3

LEMMA PeriodShape ==
  ASSUME NEW t \in Times, NEW f \in Frequencies
  PROVE  /\ PeriodOf(Day(t), f) \in Int \X Int
         /\ PeriodOf(Day(t), f)[1] <= PeriodOf(Day(t), f)[2]
  <1>0. Day(t) \in Nat /\ f \in {"daily", "weekly", "monthly"}
    BY DayInCalendar, SchedulesAssumption
  <1>1. CASE f \in {"daily", "weekly"}
    BY <1>0, <1>1, SchedulesAssumption DEF PeriodOf
  <1>2. CASE f = "monthly"
    BY <1>0, <1>2, MonthlyFacts, SchedulesAssumption DEF PeriodOf, BeginsMonthOf
  <1> QED
    BY <1>0, <1>1, <1>2

(* The later a run, the later its period ends.                             *)
LEMMA PeriodEnds ==
  ASSUME NEW t \in Times, NEW u \in Times, t <= u, NEW f \in Frequencies
  PROVE  PeriodOf(Day(t), f)[2] <= PeriodOf(Day(u), f)[2]
  <1>0. /\ Day(t) \in Nat /\ Day(u) \in Nat /\ Day(t) <= Day(u)
        /\ f \in {"daily", "weekly", "monthly"}
    BY DayInCalendar, DayMonotone, SchedulesAssumption DEF Times
  <1>1. CASE f \in {"daily", "weekly"}
    BY <1>0, <1>1, SchedulesAssumption DEF PeriodOf
  <1>2. CASE f = "monthly"
    <2>0. /\ MonthOf(Day(t)) \in MonthStarts /\ MonthOf(Day(t)) <= Day(t)
          /\ MonthOf(Day(u)) \in MonthStarts
          /\ \A n \in MonthStarts : n <= Day(u) => n <= MonthOf(Day(u))
      BY <1>2, MonthlyFacts DEF BeginsMonthOf
    <2>1. MonthOf(Day(t)) \in Int /\ MonthOf(Day(u)) \in Int
      BY <2>0, SchedulesAssumption
    <2>2. MonthOf(Day(t)) <= Day(u)
      BY <1>0, <2>0, <2>1
    <2>3. MonthOf(Day(t)) <= MonthOf(Day(u))
      BY <2>0, <2>2
    <2> QED
      BY <1>2, <2>1, <2>3 DEF PeriodOf
  <1> QED
    BY <1>0, <1>1, <1>2

(* A run that is not due before next_run reports what comes after.         *)
LEMMA PeriodsFollow ==
  ASSUME NEW t \in Times, NEW u \in Times, NEW f \in Frequencies,
         u >= NextRun(t, f)
  PROVE  PeriodOf(Day(t), f)[2] < PeriodOf(Day(u), f)[1]
  <1>0. /\ t \in Nat /\ u \in Nat /\ Day(t) \in Nat /\ Day(u) \in Nat
        /\ f \in {"daily", "weekly", "monthly"}
    BY DayInCalendar, SchedulesAssumption DEF Times
  <1>1. CASE f = "daily"
    <2>1. Day(u) >= Day(t) + 1
      <3>1. u >= t + 1 * DayLength
        BY <1>0, <1>1, SchedulesAssumption DEF NextRun
      <3> QED
        BY <3>1, <1>0, DaysLater
    <2> QED
      BY <1>0, <1>1, <2>1 DEF PeriodOf
  <1>2. CASE f = "weekly"
    <2>1. Day(u) >= Day(t) + WeekLength
      BY <1>0, <1>2, DaysLater, SchedulesAssumption DEF NextRun
    <2> QED
      BY <1>0, <1>2, <2>1, SchedulesAssumption DEF PeriodOf
  <1>3. CASE f = "monthly"
    <2> DEFINE m == NextMonth(Day(t))
    <2>1. m \in MonthStarts /\ m \in Int /\ m > Day(t)
      BY <1>3, MonthlyFacts, SchedulesAssumption DEF FollowsMonthOf
    <2>2. t % DayLength \in Nat /\ m * DayLength \in Int
      BY <1>0, <2>1, SchedulesAssumption, SMT
    <2>3. Day(u) >= m
      <3>1. u >= m * DayLength + (t % DayLength)
        BY <1>3 DEF NextRun
      <3> HIDE DEF m
      <3>2. u >= m * DayLength
        BY <1>0, <2>2, <3>1
      <3> QED
        BY <1>0, <2>1, <3>2, DayAtLeast
    <2> HIDE DEF m
    <2>4. /\ MonthOf(Day(u)) \in Int /\ MonthOf(Day(u)) >= m
      BY <1>0, <1>3, <2>1, <2>3, MonthlyFacts, SchedulesAssumption DEF BeginsMonthOf
    <2>5. /\ MonthOf(Day(t)) \in MonthStarts /\ MonthOf(Day(t)) \in Int
          /\ MonthOf(Day(t)) <= Day(t)
      BY <1>0, <1>3, MonthlyFacts, SchedulesAssumption DEF BeginsMonthOf
    <2>6. MonthOf(Day(t)) <= MonthOf(Day(u)) - 1
      BY <1>0, <2>1, <2>4, <2>5
    <2>7. MonthOf(Day(t)) <= MonthOf(MonthOf(Day(u)) - 1)
      BY <1>3, <2>5, <2>6, MonthlyFacts DEF BeginsMonthOf
    <2>8. MonthOf(MonthOf(Day(u)) - 1) \in Int
      BY <1>3, MonthlyFacts, SchedulesAssumption
    <2> QED
      BY <1>3, <2>5, <2>7, <2>8 DEF PeriodOf
  <1> QED
    BY <1>0, <1>1, <1>2, <1>3

(* The day and the month of a time that is known to be in it.              *)
LEMMA DayIs ==
  ASSUME NEW t \in Int, NEW m \in Int,
         m * DayLength <= t, t < m * DayLength + DayLength
  PROVE  Day(t) = m
  <1>1. Day(t) \in Int /\ Day(t) >= m /\ m * DayLength \in Int
    BY DayAtLeast, DayBounds, SchedulesAssumption, SMT
  <1>2. ASSUME Day(t) >= m + 1 PROVE FALSE
    <2>1. Day(t) * DayLength >= (m + 1) * DayLength
      BY <1>1, <1>2, SchedulesAssumption, SMT
    <2>2. (m + 1) * DayLength = m * DayLength + DayLength
      BY SchedulesAssumption, SMT
    <2>3. Day(t) * DayLength \in Int /\ Day(t) * DayLength <= t
      BY <1>1, DayBounds, SchedulesAssumption, SMT
    <2> QED
      BY <1>1, <2>1, <2>2, <2>3, SchedulesAssumption
  <1> QED
    BY <1>1, <1>2

LEMMA MonthIs ==
  ASSUME NEW day \in Int, NEW m \in MonthStarts, BeginsMonthOf(m, day)
  PROVE  MonthOf(day) = m
  <1>1. MonthOf(day) \in MonthStarts /\ BeginsMonthOf(MonthOf(day), day)
    BY MonthFacts
  <1>2. m \in Int /\ MonthOf(day) \in Int
    BY <1>1, SchedulesAssumption
  <1>3. m <= MonthOf(day) /\ MonthOf(day) <= m
    BY <1>1, <1>2 DEF BeginsMonthOf
  <1> QED
    BY <1>2, <1>3

(* A run at the time of next_run reports from the day after this one's.    *)
LEMMA PeriodsMeet ==
  ASSUME NEW t \in Times, NEW f \in Frequencies
  PROVE  PeriodOf(Day(t), f)[2] + 1 = PeriodOf(Day(NextRun(t, f)), f)[1]
  <1>0. /\ t \in Int /\ Day(t) \in Int /\ f \in {"daily", "weekly", "monthly"}
        /\ Day(t) * DayLength \in Int
        /\ Day(t) * DayLength <= t /\ t < Day(t) * DayLength + DayLength
    BY DayInCalendar, DayBounds, SchedulesAssumption, SMT DEF Times
  <1>d. ASSUME NEW k \in Int, k * DayLength \in Int
        PROVE  Day(t + k * DayLength) = Day(t) + k
    <2>1. (Day(t) + k) * DayLength = Day(t) * DayLength + k * DayLength
      BY <1>0, <1>d, SchedulesAssumption, SMT
    <2>2. t + k * DayLength \in Int /\ Day(t) + k \in Int
      BY <1>0, <1>d
    <2> QED
      BY <1>0, <1>d, <2>1, <2>2, DayIs, SchedulesAssumption
  <1>1. CASE f = "daily"
    <2>1. NextRun(t, f) = t + 1 * DayLength
      BY <1>0, <1>1, SchedulesAssumption DEF NextRun
    <2>2. Day(NextRun(t, f)) = Day(t) + 1
      BY <1>d, <2>1, SchedulesAssumption
    <2> QED
      BY <1>0, <1>1, <2>2 DEF PeriodOf
  <1>2. CASE f = "weekly"
    <2>1. WeekLength * DayLength \in Int /\ WeekLength \in Int
      BY SchedulesAssumption, SMT
    <2>2. Day(NextRun(t, f)) = Day(t) + WeekLength
      BY <1>d, <1>2, <2>1 DEF NextRun
    <2> QED
      BY <1>0, <1>2, <2>1, <2>2 DEF PeriodOf
  <1>3. CASE f = "monthly"
    <2> DEFINE m == NextMonth(Day(t))
               b == MonthOf(Day(t))
    <2>1. /\ m \in MonthStarts /\ m \in Int /\ m > Day(t)
          /\ \A n \in MonthStarts : n > Day(t) => m <= n
      BY <1>3, MonthlyFacts, SchedulesAssumption DEF FollowsMonthOf
    <2>2. /\ b \in MonthStarts /\ b \in Int /\ b <= Day(t)
          /\ \A n \in MonthStarts : n <= Day(t) => n <= b
      BY <1>3, MonthlyFacts, SchedulesAssumption DEF BeginsMonthOf
    <2>3. NextRun(t, f) = m * DayLength + (t % DayLength)
      BY <1>3 DEF NextRun
    <2> HIDE DEF m, b
    <2>4. /\ t % DayLength \in Nat /\ t % DayLength < DayLength
          /\ m * DayLength \in Int
      BY <1>0, <2>1, SchedulesAssumption, SMT
    <2>5. Day(NextRun(t, f)) = m
      BY <2>1, <2>3, <2>4, DayIs, SchedulesAssumption
    <2>6. BeginsMonthOf(m, m)
      BY <2>1 DEF BeginsMonthOf
    <2>7. MonthOf(m) = m
      BY <2>1, <2>6, MonthIs
    <2>8. BeginsMonthOf(b, m - 1)
      <3>1. b <= m - 1
        BY <1>0, <2>1, <2>2
      <3>2. ASSUME NEW n \in MonthStarts, n <= m - 1 PROVE n <= b
        <4>1. n \in Int
          BY SchedulesAssumption
        <4>2. ~(n > Day(t))
          BY <2>1, <3>2, <4>1
        <4> QED
          BY <1>0, <2>2, <4>1, <4>2
      <3> QED
        BY <3>1, <3>2 DEF BeginsMonthOf
    <2>9. MonthOf(m - 1) = b
      BY <2>1, <2>2, <2>8, MonthIs
    <2>10. PeriodOf(Day(t), f)[2] = b - 1
      BY <1>3 DEF PeriodOf, b
    <2>11. PeriodOf(Day(NextRun(t, f)), f)[1] = b
      BY <1>3, <2>5, <2>7, <2>9 DEF PeriodOf
    <2> QED
      BY <2>2, <2>10, <2>11
  <1> QED
    BY <1>0, <1>1, <1>2, <1>3
-----------------------------------------------------------------------------
(* Schedules: what a run has locked, what a member has read, and how far   *)
(* the periods of the reports have come.                                   *)
ScheduleTypes ==
    /\ schedule \in [Schedules -> Plan]
    /\ period \in [Reports -> Int \X Int]
    /\ \A d \in Dispatchers : /\ dispatch[d].rows # {} <=> dispatch[d].pc = "commit"
                              /\ dispatch[d].send # {} <=> dispatch[d].pc = "send"
    /\ patches \in 0..MaxPatches
    /\ patch \in [of: Schedules \cup {None}, read: Plan, set: Plan]
    /\ overtaken \subseteq Schedules
    /\ putOff \subseteq Schedules

Claimed ==
    /\ \A d \in Dispatchers :
          /\ dispatch[d].at <= now
          /\ \A s \in dispatch[d].rows : IsDue(s, dispatch[d].at)
    /\ \A d, e \in Dispatchers :
          d # e => dispatch[d].rows \cap dispatch[e].rows = {}

Planned ==
    \A s \in Schedules :
        /\ schedule[s].enabled = "ABSENT" => ReportsOf(s) = {} /\ patch.of # s
        /\ schedule[s].enabled # "ABSENT" => schedule[s].frequency \in Frequencies
        /\ patch.of = s => /\ patch.read.frequency = schedule[s].frequency
                           /\ patch.read.next <= schedule[s].next
                           /\ patch.set.enabled # "ABSENT"

(* What is dispatched from time t on starts after the period of r.         *)
Beyond(r, frequency, t) ==
    \A u \in Times : u >= t => period[r][2] < PeriodOf(Day(u), frequency)[1]

(* A report's period is over before the next of its schedule begins: when  *)
(* that is run, and when a member's update has changed when that is.       *)
Ahead ==
    \A s \in Schedules \ overtaken : \A r \in ReportsOf(s) :
        /\ Beyond(r, schedule[s].frequency, schedule[s].next)
        /\ period[r][2] <= PeriodOf(Day(now), schedule[s].frequency)[2]
        /\ patch.of = s /\ patch.read = schedule[s]
              => Beyond(r, schedule[s].frequency, patch.set.next)

PeriodsApart ==
    \A s \in Schedules \ overtaken : \A q, r \in ReportsOf(s) :
        q # r => period[q][2] < period[r][1] \/ period[r][2] < period[q][1]

(* The reports of a schedule leave no day between them, and the next run   *)
(* will report from the day after one of them.                             *)
Joined ==
    \A s \in Schedules \ putOff :
        /\ \A r \in ReportsOf(s) : period[r][1] <= period[r][2]
        /\ \A q, r \in ReportsOf(s), day \in Int :
              period[q][1] <= day /\ day <= period[r][2] =>
                 \E x \in ReportsOf(s) : period[x][1] <= day /\ day <= period[x][2]
        /\ ReportsOf(s) # {} =>
              \E r \in ReportsOf(s) :
                 period[r][2] + 1
                    = PeriodOf(Day(schedule[s].next), schedule[s].frequency)[1]

ScheduleInv ==
    ScheduleTypes /\ Claimed /\ Planned /\ Ahead /\ PeriodsApart /\ Joined

(* No step but a dispatch gives a report to a schedule, or takes one.      *)
OwnersKept == \A s \in Schedules : ReportsOf(s)' = ReportsOf(s)

LEMMA RowsKeepSchedules ==
  ASSUME \A r \in Reports : report'[r].schedule = report[r].schedule
  PROVE  OwnersKept
  BY DEF OwnersKept, ReportsOf

LEMMA JoinedKeeps ==
  ASSUME Joined, OwnersKept, UNCHANGED <<schedule, period, putOff>>
  PROVE  Joined'
  BY DEF Joined, OwnersKept

LEMMA RequestKeepsOwners ==
  ASSUME Inv, NEW r \in Reports,
         RequestStep(r) \/ CreateReport(r) \/ ApiCrash(r)
  PROVE  OwnersKept
  <1> USE DEF Inv
  <1>1. CASE UNCHANGED report
    BY <1>1, RowsKeepSchedules
  <1>q. Queued(None) \in Row /\ Queued(None).schedule = None
    BY QueuedFields
  <1>2. CASE CreateReport(r)
    BY <1>2, <1>q, RowsKeepSchedules DEF CreateReport, Fresh
  <1>3. CASE MarkDispatchFailed(r)
    <2> DEFINE failed == Failed(Queued(None), "DISPATCH_FAILED")
    <2>1. failed \in Row
      BY <1>q, FailedFields DEF Codes
    <2>2. report' = [report EXCEPT ![r] = Flush(@, Queued(None), failed)]
      BY <1>3 DEF MarkDispatchFailed
    <2> HIDE DEF failed
    <2>3. report'[r].schedule = report[r].schedule
      BY <1>q, <2>1, <2>2, FlushFields
    <2> QED
      BY <2>2, <2>3, RowsKeepSchedules
  <1> QED
    BY <1>1, <1>2, <1>3 DEF RequestStep, SendTask, SendRaises, ApiCrash

LEMMA GenerateKeepsOwners ==
  ASSUME Inv, NEW w \in Workers, Generate(w)
  PROVE  OwnersKept
  <1> USE DEF Inv
  <1>1. CASE UNCHANGED report
    BY <1>1, RowsKeepSchedules
  <1>2. ASSUME NEW set \in Row, task[w] \in Reports,
               report' = [report EXCEPT ![task[w]] = Flush(@, mem[w], set)]
        PROVE  OwnersKept
    <2>1. report'[task[w]].schedule = report[task[w]].schedule
      BY <1>2, FlushFields
    <2> QED
      BY <1>2, <2>1, RowsKeepSchedules
  <1>3. pc[w] # "idle" => task[w] \in Reports
    OBVIOUS
  <1>4. CASE Claim(w)
    BY <1>2, <1>3, <1>4, RunningFields DEF Claim
  <1>5. CASE Commit(w)
    BY <1>2, <1>3, <1>5, CompletedFields DEF Commit
  <1>6. CASE FailWrite(w)
    BY <1>2, <1>3, <1>6, FailedFields DEF FailWrite
  <1> QED
    BY <1>1, <1>4, <1>5, <1>6
    DEF Generate, Load, Collect, CollectRaises, Put, PutRaises, Notify,
        CommitRaises, TaskRaises, FailRead, Ack

LEMMA SweepKeepsOwners ==
  ASSUME Inv, Sweep
  PROVE  OwnersKept
  <1>1. CASE UNCHANGED report
    BY <1>1, RowsKeepSchedules
  <1>2. CASE CommitSweep
    <2>1. ASSUME NEW row \in Row PROVE Expired(row).schedule = row.schedule
      BY DEF Row, Expired
    <2> QED
      BY <1>2, <2>1, RowsKeepSchedules DEF Inv, CommitSweep
  <1> QED
    BY <1>1, <1>2 DEF Sweep, StartSweep, DeleteObject, DeleteRaises
LEMMA ScheduleInit == Init => ScheduleInv
  <1> SUFFICES ASSUME Init PROVE ScheduleInv
    OBVIOUS
  <1> USE SchedulesAssumption, ReportsAssumption DEF Init, ReportsInit
  <1>1. ScheduleTypes
    BY DEF ScheduleTypes, Plan, NoPlan, NoPatch, Idle, Run
  <1>2. Claimed
    BY DEF Claimed, Idle, Run
  <1>3. \A s \in Schedules : ReportsOf(s) = {} /\ patch.of # s
    BY DEF ReportsOf, NoRow, NoPatch
  <1>4. \A s \in Schedules : schedule[s].enabled = "ABSENT"
    BY DEF NoPlan
  <1>5. Planned /\ Ahead /\ PeriodsApart
    BY <1>3, <1>4 DEF Planned, Ahead, PeriodsApart
  <1>6. Joined
    BY <1>3 DEF Joined
  <1> QED
    BY <1>1, <1>2, <1>5, <1>6 DEF ScheduleInv

(* Everything that does not concern schedules.                             *)
LEMMA ElsewhereKeeps ==
  ASSUME ScheduleInv, OwnersKept, UNCHANGED scheduleVars
  PROVE  ScheduleInv'
  <1> USE DEF ScheduleInv
  <1>1. ScheduleTypes'
    BY DEF ScheduleTypes
  <1>2. Claimed'
    BY DEF Claimed, IsDue
  <1>3. Planned'
    BY DEF Planned, OwnersKept
  <1>4. Ahead'
    BY DEF Ahead, OwnersKept, Beyond
  <1>5. PeriodsApart'
    BY DEF PeriodsApart, OwnersKept
  <1>6. Joined'
    BY JoinedKeeps
  <1> QED
    BY <1>1, <1>2, <1>3, <1>4, <1>5, <1>6

LEMMA PlanFields ==
  ASSUME NEW plan \in Plan
  PROVE  /\ plan.enabled \in {"yes", "no", "ABSENT"}
         /\ plan.frequency \in Frequencies \cup {"none"}
         /\ plan.next \in Nat
  BY DEF Plan

LEMMA TickKeeps ==
  ASSUME Inv, ScheduleInv, Tick
  PROVE  ScheduleInv'
  <1> USE DEF ScheduleInv, Tick
  <1>0. now \in Times /\ now' \in Times /\ now <= now' /\ now \in Int /\ now' \in Int
    BY SchedulesAssumption DEF Inv, Times
  <1>s. \A s \in Schedules : ReportsOf(s)' = ReportsOf(s)
    BY DEF ReportsOf
  <1>1. ScheduleTypes'
    BY DEF ScheduleTypes
  <1>2. Claimed'
    <2>1. \A d \in Dispatchers : dispatch[d].at \in Int
      BY Bounds
    <2> QED
      BY <1>0, <2>1 DEF Claimed, IsDue
  <1>3. Planned'
    BY <1>s DEF Planned
  <1>4. Ahead'
    <2> SUFFICES ASSUME NEW s \in Schedules \ overtaken, NEW r \in ReportsOf(s)
                 PROVE  period[r][2] <= PeriodOf(Day(now'), schedule[s].frequency)[2]
      BY <1>s DEF Ahead, Beyond
    <2> DEFINE f == schedule[s].frequency
    <2>1. f \in Frequencies
      BY DEF Planned
    <2>2. PeriodOf(Day(now), f)[2] <= PeriodOf(Day(now'), f)[2]
      BY <1>0, <2>1, PeriodEnds
    <2>3. PeriodOf(Day(now), f)[2] \in Int /\ PeriodOf(Day(now'), f)[2] \in Int
      BY <1>0, <2>1, PeriodShape
    <2>4. period[r][2] \in Int /\ period[r][2] <= PeriodOf(Day(now), f)[2]
      BY DEF Ahead, ScheduleTypes, ReportsOf
    <2> QED
      BY <2>2, <2>3, <2>4
  <1>5. PeriodsApart'
    BY <1>s DEF PeriodsApart
  <1>6. Joined'
    BY <1>s, JoinedKeeps DEF OwnersKept
  <1> QED
    BY <1>1, <1>2, <1>3, <1>4, <1>5, <1>6

LEMMA CreateScheduleKeeps ==
  ASSUME Inv, ScheduleInv, NEW s \in Schedules, CreateSchedule(s)
  PROVE  ScheduleInv'
  <1> USE DEF ScheduleInv
  <1>0. now \in Times
    BY DEF Inv, Times
  <1>n. schedule[s].enabled = "ABSENT"
    BY DEF CreateSchedule, NoPlan
  <1>e. ReportsOf(s) = {} /\ patch.of # s
    BY <1>n DEF Planned
  <1>1. PICK f \in Frequencies :
           schedule' = [schedule EXCEPT ![s] =
              [enabled |-> "yes", frequency |-> f, next |-> NextRun(now, f)]]
    BY DEF CreateSchedule
  <1>u. UNCHANGED <<reportVars, now, period, dispatch, patch, patches, overtaken,
                 putOff>>
    BY DEF CreateSchedule
  <1>s. \A t \in Schedules : ReportsOf(t)' = ReportsOf(t)
    BY <1>u DEF ReportsOf
  <1>p. [enabled |-> "yes", frequency |-> f, next |-> NextRun(now, f)] \in Plan
    BY <1>0, NextRunLater DEF Plan
  <1>2. /\ schedule' \in [Schedules -> Plan]
        /\ \A t \in Schedules \ {s} : schedule'[t] = schedule[t]
        /\ schedule'[s].enabled = "yes" /\ schedule'[s].frequency = f
    BY <1>1, <1>p DEF ScheduleTypes
  <1>3. ScheduleTypes'
    BY <1>2, <1>u DEF ScheduleTypes
  <1>4. Claimed'
    <2>1. \A d \in Dispatchers : s \notin dispatch[d].rows
      BY <1>n DEF Claimed, IsDue
    <2>2. \A d \in Dispatchers : dispatch[d].rows \subseteq Schedules
      BY Bounds
    <2> QED
      BY <1>2, <1>u, <2>1, <2>2 DEF Claimed, IsDue
  <1>5. Planned'
    BY <1>2, <1>u, <1>s, <1>e DEF Planned
  <1>6. Ahead'
    BY <1>2, <1>u, <1>s, <1>e DEF Ahead, Beyond
  <1>7. PeriodsApart'
    BY <1>u, <1>s DEF PeriodsApart
  <1>8. Joined'
    BY <1>2, <1>u, <1>s, <1>e DEF Joined
  <1> QED
    BY <1>3, <1>4, <1>5, <1>6, <1>7, <1>8

LEMMA ReadScheduleKeeps ==
  ASSUME Inv, ScheduleInv, NEW s \in Schedules, ReadSchedule(s)
  PROVE  ScheduleInv'
  <1> USE DEF ScheduleInv
  <1> DEFINE f == schedule[s].frequency
  <1>0. now \in Times
    BY DEF Inv, Times
  <1>f. f \in Frequencies /\ schedule[s].enabled # "ABSENT"
    BY DEF ReadSchedule, Planned
  <1>1. PICK e \in {"yes", "no"} :
           patch' = [of |-> s, read |-> schedule[s],
                     set |-> [schedule[s] EXCEPT
                               !.enabled = e,
                               !.next = IF e = "yes" THEN NextRun(now, f) ELSE @]]
    BY DEF ReadSchedule
  <1>u. UNCHANGED <<reportVars, now, schedule, period, dispatch, overtaken, putOff>>
    BY DEF ReadSchedule
  <1>s. \A t \in Schedules : ReportsOf(t)' = ReportsOf(t)
    BY <1>u DEF ReportsOf
  <1>l. schedule[s] \in Plan
    BY DEF ScheduleTypes
  <1>2. /\ patch'.of = s /\ patch'.read = schedule[s]
        /\ patch'.set \in Plan
        /\ patch'.set.enabled # "ABSENT"
        /\ patch'.set.next = IF e = "yes" THEN NextRun(now, f) ELSE schedule[s].next
        /\ patch' \in [of: Schedules \cup {None}, read: Plan, set: Plan]
    BY <1>0, <1>1, <1>f, <1>l, NextRunLater DEF Plan
  <1>3. ScheduleTypes'
    BY <1>2, <1>u, SchedulesAssumption DEF ScheduleTypes, ReadSchedule
  <1>4. Claimed'
    BY <1>u DEF Claimed, IsDue
  <1>5. Planned'
    BY <1>2, <1>u, <1>s, <1>f, <1>l, PlanFields DEF Planned
  <1>6. Ahead'
    <2> SUFFICES ASSUME NEW r \in ReportsOf(s), s \notin overtaken
                 PROVE  Beyond(r, f, patch'.set.next)
      BY <1>2, <1>u, <1>s DEF Ahead, Beyond
    <2>1. CASE e = "no"
      BY <1>2, <2>1 DEF Ahead
    <2>2. CASE e = "yes"
      <3> SUFFICES ASSUME NEW u \in Times, u >= NextRun(now, f)
                   PROVE  period[r][2] < PeriodOf(Day(u), f)[1]
        BY <1>2, <2>2 DEF Beyond
      <3>1. PeriodOf(Day(now), f)[2] < PeriodOf(Day(u), f)[1]
        BY <1>0, <1>f, PeriodsFollow
      <3>2. PeriodOf(Day(now), f)[2] \in Int /\ PeriodOf(Day(u), f)[1] \in Int
        BY <1>0, <1>f, PeriodShape
      <3>3. period[r][2] \in Int /\ period[r][2] <= PeriodOf(Day(now), f)[2]
        BY DEF Ahead, ScheduleTypes, ReportsOf
      <3> QED
        BY <3>1, <3>2, <3>3
    <2> QED
      BY <2>1, <2>2
  <1>7. PeriodsApart'
    BY <1>u, <1>s DEF PeriodsApart
  <1>8. Joined'
    BY <1>u, <1>s, JoinedKeeps DEF OwnersKept
  <1> QED
    BY <1>3, <1>4, <1>5, <1>6, <1>7, <1>8

LEMMA SaveScheduleKeeps ==
  ASSUME Inv, ScheduleInv, SaveSchedule
  PROVE  ScheduleInv'
  <1> USE DEF ScheduleInv
  <1> DEFINE s == patch.of
             enabled == IF patch.set.enabled # patch.read.enabled
                        THEN patch.set.enabled ELSE schedule[s].enabled
             next == IF patch.set.next # patch.read.next
                     THEN patch.set.next ELSE schedule[s].next
  <1>1. /\ s \in Schedules /\ s \notin LockedRows
        /\ schedule' = [schedule EXCEPT ![s].enabled = enabled, ![s].next = next]
        /\ overtaken' = IF schedule[s] = patch.read THEN overtaken
                        ELSE overtaken \cup {s}
        /\ putOff' = IF patch.set.next # patch.read.next THEN putOff \cup {s} ELSE putOff
        /\ patch' = NoPatch
    BY DEF SaveSchedule, ScheduleTypes
  <1>u. UNCHANGED <<reportVars, now, period, dispatch, patches>>
    BY DEF SaveSchedule
  <1>s. \A t \in Schedules : ReportsOf(t)' = ReportsOf(t)
    BY <1>u DEF ReportsOf
  <1>l. schedule[s] \in Plan /\ patch.set \in Plan /\ patch.read \in Plan
    BY <1>1 DEF ScheduleTypes
  <1>e. enabled \in {"yes", "no", "ABSENT"} /\ next \in Nat
        /\ (schedule[s] = patch.read => next = patch.set.next)
    BY <1>l, PlanFields
  <1>a. schedule[s].enabled # "ABSENT" /\ enabled # "ABSENT"
    BY <1>1, <1>l DEF Planned
  <1> HIDE DEF enabled, next
  <1>2. /\ schedule' \in [Schedules -> Plan]
        /\ \A t \in Schedules \ {s} : schedule'[t] = schedule[t]
        /\ schedule'[s].enabled = enabled /\ schedule'[s].next = next
        /\ schedule'[s].frequency = schedule[s].frequency
    BY <1>1, <1>l, <1>e DEF ScheduleTypes, Plan
  <1>n. \A t \in Schedules : patch'.of # t
    BY <1>1, ReportsAssumption DEF NoPatch
  <1>3. ScheduleTypes'
    <2>1. patch' \in [of: Schedules \cup {None}, read: Plan, set: Plan]
      BY <1>1, SchedulesAssumption DEF NoPatch, NoPlan, Plan
    <2> QED
      BY <1>1, <1>2, <1>u, <2>1 DEF ScheduleTypes
  <1>4. Claimed'
    <2>1. \A d \in Dispatchers : s \notin dispatch[d].rows
      BY <1>1 DEF LockedRows
    <2>2. \A d \in Dispatchers : dispatch[d].rows \subseteq Schedules
      BY Bounds
    <2> QED
      BY <1>2, <1>u, <2>1, <2>2 DEF Claimed, IsDue
  <1>5. Planned'
    BY <1>2, <1>u, <1>s, <1>n, <1>a DEF Planned
  <1>6. Ahead'
    <2> SUFFICES ASSUME NEW t \in Schedules \ overtaken', NEW r \in ReportsOf(t)
                 PROVE  /\ Beyond(r, schedule'[t].frequency, schedule'[t].next)
                        /\ period[r][2]
                              <= PeriodOf(Day(now), schedule'[t].frequency)[2]
      BY <1>u, <1>s, <1>n DEF Ahead, Beyond
    <2>1. t \notin overtaken /\ (t = s => schedule[s] = patch.read)
      BY <1>1
    <2> QED
      BY <1>2, <1>e, <2>1 DEF Ahead
  <1>7. PeriodsApart'
    BY <1>1, <1>u, <1>s DEF PeriodsApart
  <1>8. Joined'
    <2>1. \A t \in Schedules \ putOff' :
             t \notin putOff /\ schedule'[t].next = schedule[t].next
                             /\ schedule'[t].frequency = schedule[t].frequency
      BY <1>1, <1>2 DEF next
    <2> QED
      BY <1>u, <1>s, <2>1 DEF Joined
  <1> QED
    BY <1>3, <1>4, <1>5, <1>6, <1>7, <1>8
(* A dispatcher that creates nothing.                                      *)
LEMMA RunLeavesSchedules ==
  ASSUME Inv, ScheduleInv, NEW d \in Dispatchers, NEW n,
         dispatch' = [dispatch EXCEPT ![d] = n],
         n.at <= now,
         n.rows # {} <=> n.pc = "commit",
         n.send # {} <=> n.pc = "send",
         \A s \in n.rows : IsDue(s, n.at),
         \A e \in Dispatchers \ {d} : n.rows \cap dispatch[e].rows = {},
         UNCHANGED <<report, now, schedule, period, patch, patches, overtaken, putOff>>
  PROVE  ScheduleInv'
  <1> USE DEF ScheduleInv
  <1>n. /\ dispatch'[d] = n
        /\ \A e \in Dispatchers \ {d} : dispatch'[e] = dispatch[e]
    BY DEF Inv
  <1>s. \A t \in Schedules : ReportsOf(t)' = ReportsOf(t)
    BY DEF ReportsOf
  <1>1. ScheduleTypes'
    BY <1>n DEF ScheduleTypes
  <1>2. Claimed'
    BY <1>n DEF Claimed, IsDue
  <1>3. Planned'
    BY <1>s DEF Planned
  <1>4. Ahead'
    BY <1>s DEF Ahead, Beyond
  <1>5. PeriodsApart'
    BY <1>s DEF PeriodsApart
  <1>6. Joined'
    BY <1>s, JoinedKeeps DEF OwnersKept
  <1> QED
    BY <1>1, <1>2, <1>3, <1>4, <1>5, <1>6

LEMMA RunFields ==
  ASSUME NEW step, NEW at, NEW rows, NEW send
  PROVE  LET n == Run(step, at, rows, send) IN
         n.pc = step /\ n.at = at /\ n.rows = rows /\ n.send = send
  BY DEF Run

LEMMA GoesIdle ==
  ASSUME Inv, ScheduleInv, NEW d \in Dispatchers,
         dispatch' = [dispatch EXCEPT ![d] = Idle],
         UNCHANGED <<report, now, schedule, period, patch, patches, overtaken, putOff>>
  PROVE  ScheduleInv'
  <1>1. /\ Idle.at = 0 /\ Idle.rows = {} /\ Idle.send = {} /\ Idle.pc = "idle"
        /\ 0 <= now
    BY RunFields, Bounds, SchedulesAssumption DEF Idle
  <1> QED
    BY <1>1, RunLeavesSchedules

LEMMA DispatchStepKeeps ==
  ASSUME Inv, ScheduleInv, NEW d \in Dispatchers,
         \/ StartDispatch(d) \/ SelectDue(d) \/ OutOfIds(d) \/ DispatchLost(d)
         \/ \E r \in Reports : SendNext(d, r)
  PROVE  ScheduleInv'
  <1>1. UNCHANGED <<report, now, schedule, period, patch, patches, overtaken, putOff>>
    BY DEF StartDispatch, SelectDue, OutOfIds, DispatchLost, SendNext
  <1>2. CASE dispatch' = [dispatch EXCEPT ![d] = Idle]
    BY <1>1, <1>2, GoesIdle
  <1>3. CASE StartDispatch(d)
    <2> DEFINE n == Run("select", now, {}, {})
    <2>1. n.at = now /\ n.rows = {} /\ n.send = {} /\ n.pc = "select" /\ now <= now
      BY RunFields, Bounds, SchedulesAssumption
    <2>2. dispatch' = [dispatch EXCEPT ![d] = n]
      BY <1>3 DEF StartDispatch
    <2> HIDE DEF n
    <2> QED
      BY <1>1, <2>1, <2>2, RunLeavesSchedules
  <1>4. ASSUME NEW rows \in SUBSET Claimable(dispatch[d].at), rows # {},
               dispatch' = [dispatch EXCEPT
                              ![d] = Run("commit", dispatch[d].at, rows, {})]
        PROVE  ScheduleInv'
    <2> DEFINE n == Run("commit", dispatch[d].at, rows, {})
    <2>1. /\ n.at = dispatch[d].at /\ n.rows = rows /\ n.send = {}
          /\ n.pc = "commit" /\ dispatch[d].at <= now
      BY RunFields DEF ScheduleInv, Claimed
    <2>2. /\ \A s \in n.rows : IsDue(s, n.at)
          /\ \A e \in Dispatchers \ {d} : n.rows \cap dispatch[e].rows = {}
          /\ n.rows # {} <=> n.pc = "commit"
          /\ n.send # {} <=> n.pc = "send"
          /\ n.at <= now
      BY <1>4, <2>1 DEF Claimable, LockedRows
    <2>3. dispatch' = [dispatch EXCEPT ![d] = n]
      BY <1>4
    <2> HIDE DEF n
    <2> QED
      BY <1>1, <2>2, <2>3, RunLeavesSchedules
  <1>5. CASE SelectDue(d)
    BY <1>2, <1>4, <1>5 DEF SelectDue
  <1>6. ASSUME NEW r \in Reports, SendNext(d, r)
        PROVE  ScheduleInv'
    <2> DEFINE left == dispatch[d].send \ {r}
               n == Run("send", dispatch[d].at, {}, left)
    <2>1. CASE left = {}
      BY <1>2, <1>6, <2>1 DEF SendNext, Sent
    <2>2. CASE left # {}
      <3>1. /\ n.at = dispatch[d].at /\ n.rows = {} /\ n.send = left
            /\ n.pc = "send" /\ dispatch[d].at <= now
        BY RunFields DEF ScheduleInv, Claimed
      <3>2. dispatch' = [dispatch EXCEPT ![d] = n]
        BY <1>6, <2>2 DEF SendNext, Sent
      <3> HIDE DEF n, left
      <3> QED
        BY <1>1, <2>2, <3>1, <3>2, RunLeavesSchedules
    <2> QED
      BY <2>1, <2>2
  <1> QED
    BY <1>2, <1>3, <1>5, <1>6 DEF OutOfIds, DispatchLost

(* A run commits: each row it has locked gets one report, of the period    *)
(* that follows those of the reports it has, and its next run.             *)
LEMMA CommitDispatchAhead ==
  ASSUME Inv, ScheduleInv, NEW d \in Dispatchers, CommitDispatch(d)
  PROVE  ScheduleInv'
  <1> USE DEF ScheduleInv
  <1> DEFINE rows == dispatch[d].rows
             t == dispatch[d].at
             id == CHOOSE any \in FreshIds(rows) : TRUE
             created == {id[s] : s \in rows}
             for(r) == CHOOSE s \in rows : id[s] = r
             n == Run("send", t, {}, created)
             f(s) == schedule[s].frequency
  <1>a. id \in FreshIds(rows) /\ rows \subseteq Schedules
    BY Bounds DEF CommitDispatch, EnoughIds
  <1>d. /\ dispatch[d].pc = "commit"
        /\ report' = [r \in Reports |->
                        IF r \in created THEN Queued(for(r)) ELSE report[r]]
        /\ period' = [r \in Reports |-> IF r \in created
                                        THEN PeriodOf(Day(t), f(for(r)))
                                        ELSE period[r]]
        /\ schedule' = [s \in Schedules |->
                          IF s \in rows
                          THEN [schedule[s] EXCEPT !.next = NextRun(t, f(s))]
                          ELSE schedule[s]]
        /\ dispatch' = [dispatch EXCEPT ![d] = n]
        /\ putOff' = putOff \cup {s \in rows : OtherPeriod(s, t)}
        /\ UNCHANGED <<now, patch, patches, overtaken>>
    BY DEF CommitDispatch
  <1> HIDE DEF id
  <1>b. /\ id \in [rows -> Reports]
        /\ \A s, u \in rows : id[s] = id[u] => s = u
    BY <1>a DEF FreshIds
  <1>c. /\ created \subseteq Reports
        /\ \A s \in rows : id[s] \in created /\ for(id[s]) = s
        /\ \A r \in created : for(r) \in rows /\ id[for(r)] = r
    BY <1>b
  <1>o. \A s \in Schedules : \A r \in ReportsOf(s) : r \notin created
    <2>1. \A r \in created : report[r].status = "ABSENT"
      BY <1>a DEF FreshIds
    <2> QED
      BY <2>1, ReportsAssumption DEF Inv, Fresh, ReportsOf
  <1>n. /\ dispatch'[d] = n
        /\ \A e \in Dispatchers \ {d} : dispatch'[e] = dispatch[e]
        /\ n.at = t /\ n.rows = {} /\ n.send = created /\ n.pc = "send"
    BY <1>d, RunFields DEF Inv
  <1> HIDE DEF n, created, for, rows
  <1>t. t \in Times /\ now \in Times /\ t <= now
    BY Bounds DEF Times, Claimed
  <1> HIDE DEF t
  <1>r. \A s \in rows : /\ s \in Schedules /\ f(s) \in Frequencies
                        /\ schedule[s].enabled = "yes"
                        /\ schedule[s] \in Plan
                        /\ schedule[s].next <= t
    BY <1>a DEF Claimed, Planned, IsDue, ScheduleTypes, rows, t
  <1>q. \A r \in created : report'[r].schedule = for(r)
    BY <1>a, <1>c, <1>d, QueuedFields
  (* What the rows become, and which reports are whose.                    *)
  <1>1. \A s \in Schedules : /\ schedule'[s].frequency = f(s)
                             /\ schedule'[s].enabled = schedule[s].enabled
                             /\ s \notin rows => schedule'[s] = schedule[s]
    BY <1>d, <1>r DEF ScheduleTypes, Plan
  <1>2. \A s \in rows : /\ schedule'[s].next = NextRun(t, f(s))
                        /\ schedule'[s].next \in Nat
                        /\ schedule[s].next < schedule'[s].next
                        /\ schedule'[s] \in Plan
    <2> SUFFICES ASSUME NEW s \in rows
                 PROVE  /\ schedule'[s].next = NextRun(t, f(s))
                        /\ schedule'[s].next \in Nat
                        /\ schedule[s].next < schedule'[s].next
                        /\ schedule'[s] \in Plan
      OBVIOUS
    <2>1. NextRun(t, f(s)) \in Nat /\ NextRun(t, f(s)) > t
      BY <1>r, <1>t, NextRunLater
    <2>2. schedule'[s] = [schedule[s] EXCEPT !.next = NextRun(t, f(s))]
      BY <1>d, <1>r
    <2>3. schedule'[s].next = NextRun(t, f(s)) /\ schedule'[s] \in Plan
      BY <1>r, <2>1, <2>2 DEF Plan
    <2>4. schedule[s].next \in Nat /\ schedule[s].next <= t /\ t \in Nat
      BY <1>r, <1>t, PlanFields DEF Times
    <2> QED
      BY <2>1, <2>3, <2>4
  <1>3. \A s \in Schedules : \A r \in ReportsOf(s)' :
           \/ r \in ReportsOf(s) /\ period'[r] = period[r]
           \/ s \in rows /\ r = id[s] /\ period'[r] = PeriodOf(Day(t), f(s))
    <2> SUFFICES ASSUME NEW s \in Schedules, NEW r \in Reports,
                        report'[r].schedule = s
                 PROVE  \/ r \in ReportsOf(s) /\ period'[r] = period[r]
                        \/ /\ s \in rows /\ r = id[s]
                           /\ period'[r] = PeriodOf(Day(t), f(s))
      BY DEF ReportsOf
    <2>1. CASE r \in created
      <3>1. for(r) = s /\ s \in rows /\ r = id[s]
        BY <1>c, <1>q, <2>1
      <3>2. period'[r] = PeriodOf(Day(t), f(for(r)))
        BY <1>d, <2>1
      <3> QED
        BY <3>1, <3>2
    <2>2. CASE r \notin created
      BY <1>d, <2>2 DEF ReportsOf
    <2> QED
      BY <2>1, <2>2
  <1>4. ScheduleTypes'
    <2>1. schedule' \in [Schedules -> Plan]
      BY <1>1, <1>2, <1>d DEF ScheduleTypes
    <2>2. \A r \in created : PeriodOf(Day(t), f(for(r))) \in Int \X Int
      BY <1>c, <1>r, <1>t, PeriodShape
    <2>3. period' \in [Reports -> Int \X Int]
      BY <1>d, <2>2 DEF ScheduleTypes
    <2>4. created # {}
      BY <1>c, <1>d DEF ScheduleTypes, rows
    <2> QED
      BY <1>a, <1>d, <1>n, <2>1, <2>3, <2>4 DEF ScheduleTypes, rows
  <1>5. Claimed'
    <2>1. \A e \in Dispatchers \ {d} : \A s \in dispatch[e].rows :
             s \notin rows /\ s \in Schedules
      BY Bounds DEF Claimed, rows
    <2> QED
      BY <1>1, <1>d, <1>n, <1>t, <2>1 DEF Claimed, IsDue
  <1>6. Planned'
    <2> SUFFICES ASSUME NEW s \in Schedules
                 PROVE  /\ schedule[s].enabled = "ABSENT" => ReportsOf(s)' = {}
                        /\ patch.of = s => patch.read.next <= schedule'[s].next
      BY <1>1, <1>d DEF Planned
    <2>1. schedule[s].enabled = "ABSENT" => ReportsOf(s)' = {}
      BY <1>3, <1>r DEF Planned
    <2>2. CASE s \in rows
      <3>1. /\ patch.read.next \in Nat /\ schedule[s].next \in Nat
            /\ patch.of = s => patch.read.next <= schedule[s].next
        BY PlanFields DEF Planned, ScheduleTypes
      <3> QED
        BY <1>2, <2>1, <2>2, <3>1
    <2> QED
      BY <1>1, <2>1, <2>2 DEF Planned
  <1>7. Ahead'
    <2> DEFINE From(r, s, v) ==
                  \A u \in Times : u >= v => period'[r][2] < PeriodOf(Day(u), f(s))[1]
    <2> SUFFICES ASSUME NEW s \in Schedules \ overtaken, NEW r \in ReportsOf(s)'
                 PROVE  /\ From(r, s, schedule'[s].next)
                        /\ period'[r][2] <= PeriodOf(Day(now), f(s))[2]
                        /\ patch.of = s /\ patch.read = schedule'[s]
                              => From(r, s, patch.set.next)
      <3>1. overtaken' = overtaken /\ patch' = patch /\ now' = now
        BY <1>d
      <3> HIDE DEF f
      <3> QED
        BY <1>1, <3>1 DEF Ahead, Beyond
    <2>1. CASE s \notin rows
      BY <1>1, <1>3, <2>1 DEF Ahead, Beyond
    <2>2. CASE s \in rows
      <3>1. ~(patch.of = s /\ patch.read = schedule'[s])
        <4>1. schedule[s].next \in Nat /\ patch.of = s => patch.read.next <= schedule[s].next
          BY DEF Planned
        <4>2. schedule[s].next \in Nat
          BY <1>r, <2>2, PlanFields
        <4> QED
          BY <1>2, <2>2, <4>1, <4>2
      <3>2. CASE r \in ReportsOf(s) /\ period'[r] = period[r]
        <4>1. \A u \in Times : u >= schedule'[s].next => u >= schedule[s].next
          BY <1>2, <1>r, <2>2, PlanFields, SchedulesAssumption DEF Times
        <4> QED
          BY <3>1, <3>2, <4>1 DEF Ahead, Beyond
      <3>3. CASE period'[r] = PeriodOf(Day(t), f(s))
        <4>1. PeriodOf(Day(t), f(s))[2] <= PeriodOf(Day(now), f(s))[2]
          BY <1>r, <1>t, <2>2, PeriodEnds
        <4>2. \A u \in Times : u >= schedule'[s].next
                 => PeriodOf(Day(t), f(s))[2] < PeriodOf(Day(u), f(s))[1]
          BY <1>2, <1>r, <1>t, <2>2, PeriodsFollow
        <4> QED
          BY <3>1, <3>3, <4>1, <4>2 DEF Beyond
      <3> QED
        BY <1>3, <3>2, <3>3
    <2> QED
      BY <2>1, <2>2
  <1>8. PeriodsApart'
    <2> SUFFICES ASSUME NEW s \in Schedules \ overtaken,
                        NEW q \in ReportsOf(s)', NEW r \in ReportsOf(s)', q # r
                 PROVE  \/ period'[q][2] < period'[r][1]
                        \/ period'[r][2] < period'[q][1]
      BY <1>d DEF PeriodsApart
    <2>1. ASSUME NEW x \in ReportsOf(s), s \in rows
          PROVE  period[x][2] < PeriodOf(Day(t), f(s))[1]
      <3>1. t >= schedule[s].next
        BY <1>r, <1>t, <2>1, PlanFields DEF Times
      <3> QED
        BY <1>t, <3>1 DEF Ahead, Beyond
    <2> QED
      BY <1>3, <2>1 DEF PeriodsApart
  <1>9. Joined'
    <2> DEFINE new(s) == PeriodOf(Day(t), f(s))
    <2>1. \A s \in Schedules : \A r \in ReportsOf(s) :
             r \in ReportsOf(s)' /\ period'[r] = period[r]
      BY <1>d, <1>o DEF ReportsOf
    <2>2. \A s \in rows : id[s] \in ReportsOf(s)' /\ period'[id[s]] = new(s)
      BY <1>c, <1>d, <1>q DEF ReportsOf
    <2> SUFFICES ASSUME NEW s \in Schedules \ putOff'
                 PROVE  (/\ \A r \in ReportsOf(s) : period[r][1] <= period[r][2]
                         /\ \A q, r \in ReportsOf(s), day \in Int :
                               period[q][1] <= day /\ day <= period[r][2] =>
                                  \E x \in ReportsOf(s) :
                                     period[x][1] <= day /\ day <= period[x][2]
                         /\ ReportsOf(s) # {} =>
                               \E r \in ReportsOf(s) :
                                  period[r][2] + 1
                                     = PeriodOf(Day(schedule[s].next), f(s))[1])'
      BY DEF Joined
    <2>p. s \notin putOff /\ schedule'[s].frequency = f(s)
      BY <1>1, <1>d
    <2>3. CASE s \notin rows
      <3>1. ReportsOf(s)' = ReportsOf(s)
        BY <1>3, <2>1, <2>3
      <3>2. schedule'[s] = schedule[s]
        BY <1>1, <2>3
      <3> QED
        BY <2>1, <2>p, <3>1, <3>2 DEF Joined
    <2>4. CASE s \in rows
      <3>1. ReportsOf(s)' = ReportsOf(s) \cup {id[s]}
        BY <1>3, <2>1, <2>2, <2>4
      <3>2. new(s) \in Int \X Int /\ new(s)[1] <= new(s)[2]
        BY <1>r, <1>t, <2>4, PeriodShape
      <3>3. new(s) = PeriodOf(Day(schedule[s].next), f(s))
        BY <1>d, <2>4 DEF OtherPeriod
      <3>4. new(s)[2] + 1 = PeriodOf(Day(schedule'[s].next), f(s))[1]
        BY <1>2, <1>r, <1>t, <2>4, PeriodsMeet
      <3>5. \A r \in ReportsOf(s) : /\ period[r] \in Int \X Int
                                    /\ period[r][1] <= period[r][2]
        BY <2>p DEF Joined, ScheduleTypes, ReportsOf
      <3> HIDE DEF new
      <3>6. \A r \in ReportsOf(s)' : period'[r][1] <= period'[r][2]
        BY <2>1, <2>2, <2>4, <3>1, <3>2, <3>5
      <3>7. ASSUME NEW q \in ReportsOf(s)', NEW r \in ReportsOf(s)', NEW day \in Int,
                   period'[q][1] <= day, day <= period'[r][2]
            PROVE  \E x \in ReportsOf(s)' :
                      period'[x][1] <= day /\ day <= period'[x][2]
        <4>1. CASE new(s)[1] <= day /\ day <= new(s)[2]
          BY <2>2, <2>4, <4>1
        <4>2. ASSUME NEW v \in ReportsOf(s), NEW y \in ReportsOf(s),
                     period[v][1] <= day, day <= period[y][2]
              PROVE  \E x \in ReportsOf(s)' :
                        period'[x][1] <= day /\ day <= period'[x][2]
          <5>1. PICK x \in ReportsOf(s) : period[x][1] <= day /\ day <= period[x][2]
            BY <2>p, <4>2 DEF Joined
          <5> QED
            BY <2>1, <5>1
        <4>3. ASSUME ReportsOf(s) # {}
              PROVE  \E x \in ReportsOf(s) :
                        period[x][2] + 1 = new(s)[1] /\ period[x][1] < new(s)[1]
          <5>1. PICK x \in ReportsOf(s) : period[x][2] + 1 = new(s)[1]
            BY <2>p, <3>3, <4>3 DEF Joined
          <5> QED
            BY <3>2, <3>5, <5>1
        <4>4. CASE day < new(s)[1]
          <5>1. q \in ReportsOf(s) /\ period[q][1] <= day
            BY <2>1, <2>2, <2>4, <3>1, <3>2, <3>7, <4>4
          <5>2. PICK x \in ReportsOf(s) : period[x][2] + 1 = new(s)[1]
            BY <4>3, <5>1
          <5>3. day <= period[x][2]
            BY <3>2, <3>5, <4>4, <5>2
          <5> QED
            BY <4>2, <5>1, <5>3
        <4>5. CASE day > new(s)[2]
          <5>1. r \in ReportsOf(s) /\ day <= period[r][2]
            BY <2>1, <2>2, <2>4, <3>1, <3>2, <3>7, <4>5
          <5>2. PICK x \in ReportsOf(s) : period[x][1] < new(s)[1]
            BY <4>3, <5>1
          <5>3. period[x][1] <= day
            BY <3>2, <3>5, <4>5, <5>2
          <5> QED
            BY <4>2, <5>1, <5>3
        <4> QED
          BY <3>2, <4>1, <4>4, <4>5
      <3>8. period'[id[s]][2] + 1 = PeriodOf(Day(schedule'[s].next), f(s))[1]
        BY <2>2, <2>4, <3>4
      <3>9. id[s] \in ReportsOf(s)'
        BY <2>2, <2>4
      <3> QED
        BY <2>p, <3>6, <3>7, <3>8, <3>9
    <2> QED
      BY <2>3, <2>4
  <1> QED
    BY <1>4, <1>5, <1>6, <1>7, <1>8, <1>9
LEMMA WorkersKeepOwners ==
  ASSUME Inv, NEW w \in Workers,
         Generate(w) \/ WorkerLost(w) \/ \E r \in Reports : Take(w, r)
  PROVE  OwnersKept
  BY GenerateKeepsOwners, RowsKeepSchedules DEF WorkerLost, Take

LEMMA ScheduleNext ==
  ASSUME Inv, ScheduleInv, [Next]_vars
  PROVE  ScheduleInv'
  <1>0. CASE UNCHANGED report /\ UNCHANGED scheduleVars
    BY <1>0, RowsKeepSchedules, ElsewhereKeeps
  <1>1. ASSUME NEW r \in Reports,
               RequestStep(r) \/ CreateReport(r) \/ ApiCrash(r),
               UNCHANGED scheduleVars
        PROVE  ScheduleInv'
    BY <1>1, RequestKeepsOwners, ElsewhereKeeps
  <1>2. ASSUME NEW w \in Workers, UNCHANGED scheduleVars,
               Generate(w) \/ WorkerLost(w) \/ \E r \in Reports : Take(w, r)
        PROVE  ScheduleInv'
    BY <1>2, WorkersKeepOwners, ElsewhereKeeps
  <1>3. ASSUME Sweep, UNCHANGED scheduleVars
        PROVE  ScheduleInv'
    BY <1>3, SweepKeepsOwners, ElsewhereKeeps
  <1>4. ASSUME NEW r \in Reports, Redeliver(r) \/ Age(r) \/ StartDownload(r),
               UNCHANGED scheduleVars
        PROVE  ScheduleInv'
    BY <1>0, <1>4 DEF Redeliver, Age, StartDownload
  <1>5. ASSUME SweepLost \/ EndDownload, UNCHANGED scheduleVars
        PROVE  ScheduleInv'
    BY <1>0, <1>5 DEF SweepLost, EndDownload
  <1>6. CASE UNCHANGED vars
    BY <1>0, <1>6
  <1>7. ASSUME NEW s \in Schedules, CreateSchedule(s) \/ ReadSchedule(s)
        PROVE  ScheduleInv'
    BY <1>7, CreateScheduleKeeps, ReadScheduleKeeps
  <1>8. ASSUME NEW d \in Dispatchers, Dispatch(d) \/ DispatchLost(d)
        PROVE  ScheduleInv'
    BY <1>8, DispatchStepKeeps, CommitDispatchAhead DEF Dispatch
  <1> HIDE DEF vars, scheduleVars
  <1> QED
    BY <1>1, <1>2, <1>3, <1>4, <1>5, <1>6, <1>7, <1>8, TickKeeps, SaveScheduleKeeps
    DEF Next, Call, Receive, Return, Work, Expire

LEMMA ScheduleInvHolds == Spec => [](Inv /\ ScheduleInv)
  <1>1. Init => Inv /\ ScheduleInv
    BY InitInv, ScheduleInit
  <1>2. Inv /\ ScheduleInv /\ [Next]_vars => Inv' /\ ScheduleInv'
    BY NextKeeps, ScheduleNext
  <1> QED
    BY <1>1, <1>2, PTL DEF Spec

(* Every schedule, every run of the dispatcher and every update in         *)
(* progress keeps its type, like every report.                             *)
THEOREM TypeCorrect == Spec => []TypeOK
  <1>1. Inv /\ ScheduleInv => TypeOK
    BY DEF Inv, ScheduleInv, ScheduleTypes, TypeOK
  <1> QED
    BY <1>1, ScheduleInvHolds, PTL

(* No cost and no change of a recommendation is in two reports of a        *)
(* schedule, whatever runs of _dispatch_due_reports overlap or die and     *)
(* members switch, unless set_schedule_enabled wrote over a dispatch that  *)
(* it had not read: next_run puts the next run where _scheduled_period     *)
(* begins after the last period.                                           *)
THEOREM NothingTwiceHolds == Spec => []NothingTwice
  <1>1. ASSUME ScheduleInv PROVE NothingTwice
    <2> SUFFICES ASSUME NEW s \in Schedules \ overtaken,
                        NEW q \in ReportsOf(s), NEW r \in ReportsOf(s),
                        period[q][2] < period[r][1]
                 PROVE  /\ CostDetail(CostRows, Asked(q))
                             \cap CostDetail(CostRows, Asked(r)) = {}
                        /\ RecommendationReview(RecRows, Asked(q))
                             \cap RecommendationReview(RecRows, Asked(r)) = {}
      BY <1>1 DEF NothingTwice, ScheduleInv, PeriodsApart
    <2>1. period[q] \in Int \X Int /\ period[r] \in Int \X Int
      BY <1>1 DEF ScheduleInv, ScheduleTypes, ReportsOf
    <2>2. CostDetail(CostRows, Asked(q)) \cap CostDetail(CostRows, Asked(r)) = {}
      BY <2>1, ContentsAssumption DEF CostDetail, Asked, Span
    <2>3. (period[q][2] + 1) * Hours <= period[r][1] * Hours
          /\ (period[q][2] + 1) * Hours \in Int /\ period[r][1] * Hours \in Int
      <3>1. ASSUME NEW a \in Int, NEW b \in Int, a <= b
            PROVE  a * Hours <= b * Hours /\ a * Hours \in Int /\ b * Hours \in Int
        BY <3>1, ContentsAssumption, SMT
      <3>2. period[q][2] + 1 <= period[r][1]
        BY <2>1
      <3> QED
        BY <2>1, <3>1, <3>2
    <2>4. RecommendationReview(RecRows, Asked(q))
             \cap RecommendationReview(RecRows, Asked(r)) = {}
      BY <2>3, ContentsAssumption DEF RecommendationReview, Asked, Span
    <2> QED
      BY <2>2, <2>4
  <1> QED
    BY <1>1, ScheduleInvHolds, PTL

(* Between two reports of a schedule there is no cost and no change of a   *)
(* recommendation that none of its reports has, unless it ran too late for *)
(* the period it was due for or an update moved its run: next_run counts   *)
(* from the same now as _scheduled_period, which begins where the last     *)
(* period ended.                                                           *)
THEOREM NothingMissedHolds == Spec => []NothingMissed
  <1>1. ASSUME ScheduleInv PROVE NothingMissed
    <2> SUFFICES ASSUME NEW s \in Schedules \ putOff,
                        NEW q \in ReportsOf(s), NEW r \in ReportsOf(s)
                 PROVE  LET whole == Span(s, period[q][1], period[r][2])
                        IN  /\ \A a \in CostDetail(CostRows, whole) :
                                  \E x \in ReportsOf(s) : a \in CostDetail(CostRows, Asked(x))
                            /\ \A c \in RecommendationReview(RecRows, whole) :
                                  \E x \in ReportsOf(s) :
                                     c \in RecommendationReview(RecRows, Asked(x))
      BY DEF NothingMissed
    <2>1. \A x \in ReportsOf(s) : /\ period[x] \in Int \X Int
                                  /\ Asked(x) = Span(s, period[x][1], period[x][2])
      BY <1>1 DEF ScheduleInv, ScheduleTypes, ReportsOf, Asked
    <2>2. ASSUME NEW day \in Int, period[q][1] <= day, day <= period[r][2]
          PROVE  \E x \in ReportsOf(s) : period[x][1] <= day /\ day <= period[x][2]
      BY <1>1, <2>2 DEF ScheduleInv, Joined
    <2>3. ASSUME NEW a \in CostDetail(CostRows, Span(s, period[q][1], period[r][2]))
          PROVE  \E x \in ReportsOf(s) : a \in CostDetail(CostRows, Asked(x))
      <3>1. a \in CostRows /\ a.day \in Int
        BY ContentsAssumption DEF CostDetail
      <3>2. PICK x \in ReportsOf(s) : period[x][1] <= a.day /\ a.day <= period[x][2]
        BY <2>2, <3>1 DEF CostDetail, Span
      <3> QED
        BY <2>1, <3>1, <3>2 DEF CostDetail, Span, About
    <2>4. ASSUME NEW c \in RecommendationReview(RecRows, Span(s, period[q][1], period[r][2]))
          PROVE  \E x \in ReportsOf(s) : c \in RecommendationReview(RecRows, Asked(x))
      <3> DEFINE h == c.updated
                 day == h \div Hours
      <3>1. c \in RecRows /\ h \in Int
        BY ContentsAssumption DEF RecommendationReview
      <3>2. period[q][1] * Hours <= h /\ h < (period[r][2] + 1) * Hours
        BY DEF RecommendationReview, Span
      <3>3. day \in Int /\ day * Hours <= h /\ h < (day + 1) * Hours
        BY <3>1, ContentsAssumption, SMT
      <3> HIDE DEF day
      <3>4. ASSUME NEW m \in Int, NEW n \in Int, m <= n
            PROVE  m * Hours \in Int /\ n * Hours \in Int /\ m * Hours <= n * Hours
        BY <3>4, ContentsAssumption, SMT
      <3> HIDE DEF h
      <3>5. period[q][1] <= day
        <4> SUFFICES ASSUME day + 1 <= period[q][1] PROVE FALSE
          BY <2>1, <3>3
        <4>1. /\ (day + 1) * Hours <= period[q][1] * Hours
              /\ (day + 1) * Hours \in Int /\ period[q][1] * Hours \in Int
          BY <2>1, <3>3, <3>4
        <4> QED
          BY <3>1, <3>2, <3>3, <4>1
      <3>6. day <= period[r][2]
        <4> SUFFICES ASSUME period[r][2] + 1 <= day PROVE FALSE
          BY <2>1, <3>3
        <4>1. /\ (period[r][2] + 1) * Hours <= day * Hours
              /\ (period[r][2] + 1) * Hours \in Int /\ day * Hours \in Int
          BY <2>1, <3>3, <3>4
        <4> QED
          BY <3>1, <3>2, <3>3, <4>1
      <3>7. PICK x \in ReportsOf(s) : period[x][1] <= day /\ day <= period[x][2]
        BY <2>2, <3>3, <3>5, <3>6
      <3>8. /\ period[x][1] * Hours <= day * Hours
            /\ period[x][1] * Hours \in Int /\ day * Hours \in Int
        BY <2>1, <3>3, <3>4, <3>7
      <3>9. /\ (day + 1) * Hours <= (period[x][2] + 1) * Hours
            /\ (day + 1) * Hours \in Int /\ (period[x][2] + 1) * Hours \in Int
        <4>1. day + 1 <= period[x][2] + 1 /\ day + 1 \in Int /\ period[x][2] + 1 \in Int
          BY <2>1, <3>3, <3>7
        <4> QED
          BY <3>4, <4>1
      <3>10. h >= period[x][1] * Hours /\ h < (period[x][2] + 1) * Hours
        BY <3>1, <3>3, <3>8, <3>9
      <3> QED
        BY <2>1, <3>1, <3>10 DEF RecommendationReview, Span, About, h
    <2> QED
      BY <2>3, <2>4
  <1> QED
    BY <1>1, ScheduleInvHolds, PTL
=============================================================================
