--------------------------- MODULE InventoryScans ---------------------------
(***************************************************************************)
(* Inventory scans, from the request to the persisted inventory:           *)
(*                                                                         *)
(*   start_scan           (scans/service.py)  persists a QUEUED scan and   *)
(*                        sends its id to Celery;                          *)
(*   run_inventory_scan   (scans/tasks.py)    takes the per-connection     *)
(*                        Redis lock, marks the scan RUNNING, asks every   *)
(*                        AWS service, replaces the inventory of the       *)
(*                        services that answered and ends the scan;        *)
(*   Celery over Redis    acks_late, one prefetched message: a message is  *)
(*                        unacked while it is worked on and goes back to   *)
(*                        the queue when its consumer is gone.             *)
(*                                                                         *)
(* Every awaited database, Redis, broker or AWS call is a step, so that    *)
(* what a process read may be stale when it writes.                        *)
(***************************************************************************)
EXTENDS Integers, FiniteSets

CONSTANTS
    Scans,         \* the scan ids requests may create (each a fresh uuid)
    Workers,       \* Celery worker processes
    Connections,   \* rows of aws_account_connections
    Regions,       \* AWS Regions
    Types,         \* resource types, one per AWS service that is asked
    Resources,     \* identities: [region, type, id] records
    ConnectionOf,  \* the connection a scan is requested for
    RegionOf,      \* the Region a scan is requested for
    World,         \* World[v][c]: what exists in c's AWS account at time v
    Faults,        \* what may go wrong (see FaultKinds)
    MaxRetries,    \* task.retry limit, 30 in the code
    MaxClock,      \* bound: how often the AWS accounts change
    MaxFaults,     \* bound: how many things go wrong
    NoTask         \* the task of an idle worker

(* What may go wrong around the code.                                      *)
(*   "crash"       a worker process dies with its message unacked          *)
(*   "child_lost"  a pool child dies and the parent acks its message       *)
(*   "api_crash"   the API process dies between its commit and the send    *)
(*   "lost_reply"  send_task raises although the broker took the message   *)
(*   "duplicate"   the broker delivers again what is still worked on, or   *)
(*                 a worker dies between publishing a retry and its ack    *)
(*   "slow_task"   a scan outlasts the 840 s of its Redis lock             *)
(*   "database"    a database call raises                                  *)
FaultKinds == {"crash", "child_lost", "api_crash", "lost_reply",
               "duplicate", "slow_task", "database"}

Free == "free"
Orphan == "orphan"   \* a key whose holder is gone; it expires

Messages == [scan: Scans, retries: 0..MaxRetries]

ASSUME ConstantsAssumption ==
    /\ ConnectionOf \in [Scans -> Connections]
    /\ RegionOf \in [Scans -> Regions]
    /\ Types # {}
    /\ Resources \subseteq [region: Regions, type: Types, id: STRING]
    /\ MaxRetries \in Nat /\ MaxClock \in Nat \ {0} /\ MaxFaults \in Nat
    /\ World \in [1..MaxClock -> [Connections -> SUBSET Resources]]
    /\ Faults \subseteq FaultKinds
    /\ Free \notin Workers /\ Orphan \notin Workers
    /\ NoTask \notin Messages

VARIABLES
    connection,  \* aws_account_connections.status
    scan,        \* inventory_scans: status and error_code
    rows,        \* inventory_resources: absent, active or inactive
    request,     \* where the start_scan call that creates a scan stands
    ready,       \* messages in the Celery queue
    unacked,     \* messages delivered and not acknowledged
    lock,        \* the Redis key cloudwise:scan-lock:{connection_id}
    pc,          \* where each worker stands
    task,        \* the message each worker works on
    mem,         \* the scan as the worker's session last saw or set it
    todo,        \* AWS services the worker has yet to ask
    seen,        \* when each service answered; 0: it did not
    code,        \* the error code the worker is about to record
    clock,       \* time, as far as the AWS accounts change
    observed,    \* history: the time of the answer that rows reflect
    faults       \* how many things have gone wrong

dbVars     == <<connection, scan, rows, observed>>
brokerVars == <<ready, unacked>>
localVars  == <<task, mem, todo, seen, code>>
vars == <<dbVars, request, brokerVars, lock, pc, localVars, clock, faults>>
-----------------------------------------------------------------------------
(* The rows of inventory_scans.                                            *)

Active   == {"QUEUED", "RUNNING"}
Terminal == {"COMPLETED", "PARTIAL", "FAILED"}
ScanStatus == Active \cup Terminal

FailureCodes == {"DISPATCH_FAILED", "SCAN_LOCK_TIMEOUT",
                 "INVENTORY_WORKER_FAILED", "CONNECTION_NOT_VERIFIED",
                 "AWS_INVENTORY_UNAVAILABLE", "INVENTORY_PERSISTENCE_FAILED"}
NoError == "NONE"
Errors == FailureCodes \cup {NoError, "PARTIAL_AWS_ACCESS"}

InventoryScan == [status: ScanStatus \cup {"ABSENT"}, error: Errors]
NoScan == [status |-> "ABSENT", error |-> NoError]
Failed(e) == [status |-> "FAILED", error |-> e]

IsActive(s) == scan[s].status \in Active

(* Mutant: the index forgets RUNNING.                                      *)
IndexOfQueued(s) ==
    \A z \in Scans \ {s} :
        ConnectionOf[z] = ConnectionOf[s] => scan[z].status # "QUEUED"

(* ix_inventory_scans_active_connection: the unique index over the active  *)
(* scans of a connection lets s become active.                             *)
IndexAdmits(s) ==
    \A z \in Scans \ {s} : ConnectionOf[z] = ConnectionOf[s] => ~IsActive(z)

(* A flush: the unit of work writes the attributes that differ from what   *)
(* the session loaded, and leaves the others as the database has them.     *)
Flush(row, loaded, set) ==
    [status |-> IF set.status # loaded.status THEN set.status ELSE row.status,
     error  |-> IF set.error  # loaded.error  THEN set.error  ELSE row.error]

(* The rows of inventory_resources.                                        *)
InventoryResource == {"absent", "active", "inactive"}

-----------------------------------------------------------------------------
RequestPCs == {"idle", "insert", "send", "mark", "done", "died"}

(* With the lock: from the second read to the release.                     *)
LockedPCs == {"read", "refuse", "start", "collect", "persist",
              "abort", "abortWrite", "release"}
WorkerPCs == LockedPCs \cup
    {"idle", "load", "acquire", "retry", "retried",
     "report", "reportWrite", "ack"}

TypeOK ==
    /\ connection \in [Connections -> {"PENDING", "VERIFIED", "FAILED"}]
    /\ scan \in [Scans -> InventoryScan]
    /\ rows \in [Connections -> [Resources -> InventoryResource]]
    /\ request \in [Scans -> RequestPCs]
    /\ ready \subseteq Messages
    /\ unacked \subseteq Messages
    /\ lock \in [Connections -> Workers \cup {Free, Orphan}]
    /\ pc \in [Workers -> WorkerPCs]
    /\ task \in [Workers -> Messages \cup {NoTask}]
    /\ \A w \in Workers : task[w] = NoTask <=> pc[w] = "idle"
    /\ mem \in [Workers -> InventoryScan]
    /\ todo \in [Workers -> SUBSET Types]
    /\ seen \in [Workers -> [Types -> 0..MaxClock]]
    /\ code \in [Workers -> Errors]
    /\ clock \in 1..MaxClock
    /\ observed \in [Connections -> [Regions -> [Types -> 0..MaxClock]]]
    /\ faults \in 0..MaxFaults

Unasked == [t \in Types |-> 0]

Init ==
    /\ connection = [c \in Connections |-> "PENDING"]
    /\ scan = [s \in Scans |-> NoScan]
    /\ rows = [c \in Connections |-> [k \in Resources |-> "absent"]]
    /\ request = [s \in Scans |-> "idle"]
    /\ ready = {}
    /\ unacked = {}
    /\ lock = [c \in Connections |-> Free]
    /\ pc = [w \in Workers |-> "idle"]
    /\ task = [w \in Workers |-> NoTask]
    /\ mem = [w \in Workers |-> NoScan]
    /\ todo = [w \in Workers |-> {}]
    /\ seen = [w \in Workers |-> Unasked]
    /\ code = [w \in Workers |-> NoError]
    /\ clock = 1
    /\ observed = [c \in Connections |-> [r \in Regions |-> Unasked]]
    /\ faults = 0

(* Something of this kind goes wrong.                                      *)
Fault(kind) ==
    /\ kind \in Faults
    /\ faults < MaxFaults
    /\ faults' = faults + 1

-----------------------------------------------------------------------------
(* The surroundings.                                                       *)

(* verify_connection: STS says whether the role belongs to the expected    *)
(* account.  A connection can be verified again at any time.               *)
VerifyConnection(c) ==
    /\ \E v \in {"VERIFIED", "FAILED"} :
          connection' = [connection EXCEPT ![c] = v]
    /\ UNCHANGED <<scan, rows, observed, request, brokerVars, lock, pc,
                   localVars, clock, faults>>

(* The AWS accounts change.                                                *)
Tick ==
    /\ clock < MaxClock
    /\ clock' = clock + 1
    /\ UNCHANGED <<dbVars, request, brokerVars, lock, pc, localVars, faults>>

-----------------------------------------------------------------------------
(* start_scan, in the API process.                                         *)

(* The connection is verified and no scan of it is active.  A request that *)
(* is turned down leaves no trace.                                         *)
CheckRequest(s) ==
    /\ request[s] = "idle"
    /\ connection[ConnectionOf[s]] = "VERIFIED"
    /\ IndexAdmits(s)
    /\ request' = [request EXCEPT ![s] = "insert"]
    /\ UNCHANGED <<dbVars, brokerVars, lock, pc, localVars, clock, faults>>

InsertScan(s) ==
    /\ request[s] = "insert"
    /\ \/ /\ IndexAdmits(s)
          /\ scan' = [scan EXCEPT ![s] = [status |-> "QUEUED",
                                          error  |-> NoError]]
          /\ request' = [request EXCEPT ![s] = "send"]
       \/ /\ ~IndexAdmits(s)                              \* IntegrityError
          /\ request' = [request EXCEPT ![s] = "idle"]
          /\ scan' = scan
    /\ UNCHANGED <<connection, rows, observed, brokerVars, lock, pc,
                   localVars, clock, faults>>

SendTask(s) ==
    /\ request[s] = "send"
    /\ ready' = ready \cup {[scan |-> s, retries |-> 0]}
    /\ \/ /\ request' = [request EXCEPT ![s] = "done"]
          /\ faults' = faults
       \/ /\ request' = [request EXCEPT ![s] = "mark"]
          /\ Fault("lost_reply")
    /\ UNCHANGED <<dbVars, unacked, lock, pc, localVars, clock>>

(* Mutant: the exception is swallowed.                                     *)
SendSwallows(s) ==
    /\ request[s] = "send"
    /\ request' = [request EXCEPT ![s] = "done"]
    /\ UNCHANGED <<dbVars, brokerVars, lock, pc, localVars, clock, faults>>

SendRaises(s) ==
    /\ request[s] = "send"
    /\ request' = [request EXCEPT ![s] = "mark"]
    /\ UNCHANGED <<dbVars, brokerVars, lock, pc, localVars, clock, faults>>

(* The request's session still holds the scan as it inserted it.           *)
MarkDispatchFailed(s) ==
    /\ request[s] = "mark"
    /\ scan' = [scan EXCEPT ![s] =
                  Flush(@, [status |-> "QUEUED", error |-> NoError],
                        Failed("DISPATCH_FAILED"))]
    /\ request' = [request EXCEPT ![s] = "done"]
    /\ UNCHANGED <<connection, rows, observed, brokerVars, lock, pc,
                   localVars, clock, faults>>

ApiCrash(s) ==
    /\ Fault("api_crash")
    /\ request[s] \in {"insert", "send", "mark"}
    /\ request' = [request EXCEPT ![s] = "died"]
    /\ UNCHANGED <<dbVars, brokerVars, lock, pc, localVars, clock>>

-----------------------------------------------------------------------------
(* run_inventory_scan, in a worker.                                        *)

ScanOf(w) == task[w].scan
LockOf(w) == ConnectionOf[task[w].scan]

Goto(w, next) == pc' = [pc EXCEPT ![w] = next]

(* The session is closed: what it and the collection held is out of scope. *)
CloseSession(w) ==
    /\ mem' = [mem EXCEPT ![w] = NoScan]
    /\ todo' = [todo EXCEPT ![w] = {}]
    /\ seen' = [seen EXCEPT ![w] = Unasked]

GoIdle(w) ==
    /\ Goto(w, "idle")
    /\ task' = [task EXCEPT ![w] = NoTask]
    /\ code' = [code EXCEPT ![w] = NoError]
    /\ CloseSession(w)

(* The broker delivers a message to an idle worker.                        *)
Take(w, m) ==
    /\ pc[w] = "idle"
    /\ m \in ready
    /\ ready' = ready \ {m}
    /\ unacked' = unacked \cup {m}
    /\ task' = [task EXCEPT ![w] = m]
    /\ Goto(w, "load")
    /\ UNCHANGED <<dbVars, request, lock, mem, todo, seen, code, clock,
                   faults>>

(* Mutants: whatever is delivered is run; only a queued scan is.           *)
RunsAnything(s) == TRUE
RunsQueued(s) == scan[s].status = "QUEUED"

(* A scan that is over is not run again; one that a dead worker left       *)
(* RUNNING is.                                                             *)
IsRunnable(s) == IsActive(s)

LoadScan(w) ==
    /\ pc[w] = "load"
    /\ Goto(w, IF IsRunnable(ScanOf(w)) THEN "acquire" ELSE "ack")
    /\ UNCHANGED <<dbVars, request, brokerVars, lock, localVars, clock,
                   faults>>

(* Mutant: the answer of lock.acquire is not looked at.                    *)
AcquireAnyway(w) ==
    /\ pc[w] = "acquire"
    /\ lock' = [lock EXCEPT ![LockOf(w)] = w]
    /\ Goto(w, "read")
    /\ UNCHANGED <<dbVars, request, brokerVars, localVars, clock, faults>>

AcquireLock(w) ==
    /\ pc[w] = "acquire"
    /\ lock[LockOf(w)] = Free
    /\ lock' = [lock EXCEPT ![LockOf(w)] = w]
    /\ Goto(w, "read")
    /\ UNCHANGED <<dbVars, request, brokerVars, localVars, clock, faults>>

(* Mutant: one attempt too many.                                           *)
RetriesLeftOrOneMore(w) == task[w].retries <= MaxRetries

RetriesLeft(w) == task[w].retries < MaxRetries

(* ScanLockUnavailable: another worker has the lock, or Redis raised, in   *)
(* which case the key may have been set for nobody.                        *)
LockUnavailable(w) ==
    /\ pc[w] = "acquire"
    /\ \/ lock' = lock
       \/ /\ lock[LockOf(w)] = Free
          /\ lock' = [lock EXCEPT ![LockOf(w)] = Orphan]
    /\ \/ /\ RetriesLeft(w)
          /\ Goto(w, "retry")
          /\ code' = code
       \/ /\ ~RetriesLeft(w)
          /\ Goto(w, "report")
          /\ code' = [code EXCEPT ![w] = "SCAN_LOCK_TIMEOUT"]
    /\ UNCHANGED <<dbVars, request, brokerVars, task, mem, todo, seen, clock,
                   faults>>

(* task.retry publishes the next attempt; the ack of this one follows.     *)
PublishRetry(w) ==
    /\ pc[w] = "retry"
    /\ ready' = ready \cup
           {[scan |-> ScanOf(w), retries |-> task[w].retries + 1]}
    /\ Goto(w, "retried")
    /\ UNCHANGED <<dbVars, request, unacked, lock, localVars, clock, faults>>

(* _collect_inventory reads the scan again, with its connection; it does   *)
(* not look at the status of the scan.                                     *)
ReadScan(w) ==
    /\ pc[w] = "read"
    /\ mem' = [mem EXCEPT ![w] = scan[ScanOf(w)]]
    /\ Goto(w, IF connection[LockOf(w)] = "VERIFIED"
                 THEN "start" ELSE "refuse")
    /\ UNCHANGED <<dbVars, request, brokerVars, lock, task, todo, seen, code,
                   clock, faults>>

RefuseScan(w) ==
    /\ pc[w] = "refuse"
    /\ scan' = [scan EXCEPT ![ScanOf(w)] =
                  Flush(@, mem[w], Failed("CONNECTION_NOT_VERIFIED"))]
    /\ CloseSession(w)
    /\ Goto(w, "release")
    /\ UNCHANGED <<connection, rows, observed, request, brokerVars, lock,
                   task, code, clock, faults>>

(* The commit of RUNNING.  Outside the try: the IntegrityError of the      *)
(* unique index escapes to run_inventory_scan.                             *)
StartScan(w) ==
    LET s == ScanOf(w)
        running == [mem[w] EXCEPT !.status = "RUNNING"]
        row == Flush(scan[s], mem[w], running)
    IN  /\ pc[w] = "start"
        /\ \/ /\ row.status \in Active => IndexAdmits(s)
              /\ scan' = [scan EXCEPT ![s] = row]
              /\ mem' = [mem EXCEPT ![w] = running]
              /\ todo' = [todo EXCEPT ![w] = Types]
              /\ Goto(w, "collect")
              /\ UNCHANGED <<seen, code>>
           \/ /\ row.status \in Active /\ ~IndexAdmits(s)
              /\ code' = [code EXCEPT ![w] = "INVENTORY_WORKER_FAILED"]
              /\ CloseSession(w)
              /\ Goto(w, "release")
              /\ scan' = scan
        /\ UNCHANGED <<connection, rows, observed, request, brokerVars, lock,
                       task, clock, faults>>

(* One collector of AWSInventoryProvider.collect: the service answers with *)
(* what exists now, or it fails and the others go on.                      *)
CollectService(w, t) ==
    /\ pc[w] = "collect"
    /\ t \in todo[w]
    /\ todo' = [todo EXCEPT ![w] = @ \ {t}]
    /\ \E answer \in {0, clock} : seen' = [seen EXCEPT ![w][t] = answer]
    /\ Goto(w, IF todo[w] = {t} THEN "persist" ELSE "collect")
    /\ UNCHANGED <<dbVars, request, brokerVars, lock, task, mem, code, clock,
                   faults>>

(* The role cannot be assumed (AWSProviderError), or anything else in the  *)
(* try block raises; the transaction is rolled back.                       *)
CollectionRaises(w) ==
    /\ pc[w] \in {"collect", "persist"}
    /\ \E e \in {"AWS_INVENTORY_UNAVAILABLE", "INVENTORY_PERSISTENCE_FAILED"} :
          /\ e = "AWS_INVENTORY_UNAVAILABLE" => pc[w] = "collect"
          /\ code' = [code EXCEPT ![w] = e]
    /\ CloseSession(w)
    /\ Goto(w, "abort")
    /\ UNCHANGED <<dbVars, request, brokerVars, lock, task, clock, faults>>

(* completed_resource_types, and the resources the answers name.           *)
Answered(w) == {t \in Types : seen[w][t] > 0}

(* Mutant: buckets are listed for every Region.                            *)
InAnyRegion(w, k) == k.type \in Answered(w)

InScope(w, k) == k.region = RegionOf[ScanOf(w)] /\ k.type \in Answered(w)
Found(w) ==
    {k \in Resources : InScope(w, k) /\ k \in World[seen[w][k.type]][LockOf(w)]}

(* Mutant: what has gone is not deactivated.                               *)
UpsertedRows(w) ==
    [k \in Resources |->
        IF k \in Found(w) THEN "active" ELSE rows[LockOf(w)][k]]

(* Rows of the answered types are deactivated in the scan's Region, then   *)
(* what was found is upserted as active.                                   *)
NewRows(w) ==
    [k \in Resources |->
        IF k \in Found(w) THEN "active"
        ELSE IF InScope(w, k) /\ rows[LockOf(w)][k] = "active"
             THEN "inactive" ELSE rows[LockOf(w)][k]]

Outcome(w) ==
    IF Answered(w) = {} THEN Failed("AWS_INVENTORY_UNAVAILABLE")
    ELSE IF Answered(w) = Types
         THEN [status |-> "COMPLETED", error |-> NoError]
         ELSE [status |-> "PARTIAL", error |-> "PARTIAL_AWS_ACCESS"]

(* One transaction: the inventory and the end of the scan.                 *)
CommitInventory(w) ==
    /\ scan' = [scan EXCEPT ![ScanOf(w)] = Flush(@, mem[w], Outcome(w))]
    /\ rows' = [rows EXCEPT ![LockOf(w)] = NewRows(w)]
    /\ observed' =
          [observed EXCEPT ![LockOf(w)][RegionOf[ScanOf(w)]] =
              [t \in Types |-> IF t \in Answered(w) THEN seen[w][t] ELSE @[t]]]
    /\ UNCHANGED connection

Persist(w) ==
    /\ pc[w] = "persist"
    /\ CommitInventory(w)
    /\ CloseSession(w)
    /\ Goto(w, "release")
    /\ UNCHANGED <<request, brokerVars, lock, task, code, clock, faults>>

(* The commit is applied, its answer is lost: handled as any exception.    *)
PersistUnanswered(w) ==
    /\ Fault("database")
    /\ pc[w] = "persist"
    /\ CommitInventory(w)
    /\ code' = [code EXCEPT ![w] = "INVENTORY_PERSISTENCE_FAILED"]
    /\ CloseSession(w)
    /\ Goto(w, "abort")
    /\ UNCHANGED <<request, brokerVars, lock, task, clock>>

(* _fail_scan: a session of its own reads the scan, ...                    *)
FailRead(w) ==
    /\ pc[w] \in {"abort", "report"}
    /\ mem' = [mem EXCEPT ![w] = scan[ScanOf(w)]]
    /\ Goto(w, IF pc[w] = "abort" THEN "abortWrite" ELSE "reportWrite")
    /\ UNCHANGED <<dbVars, request, brokerVars, lock, task, todo, seen, code,
                   clock, faults>>

(* ... and makes it FAILED, whatever it was.                               *)
FailWrite(w) ==
    /\ pc[w] \in {"abortWrite", "reportWrite"}
    /\ scan' = [scan EXCEPT ![ScanOf(w)] = Flush(@, mem[w], Failed(code[w]))]
    /\ CloseSession(w)
    /\ Goto(w, IF pc[w] = "abortWrite" THEN "release" ELSE "ack")
    /\ UNCHANGED <<connection, rows, observed, request, brokerVars, lock,
                   task, code, clock, faults>>

(* The finally: release only deletes a key that is still this worker's.    *)
(* An exception that escaped _collect_inventory is then recorded.          *)
ReleaseLock(w) ==
    /\ pc[w] = "release"
    /\ lock' = [lock EXCEPT ![LockOf(w)] = IF @ = w THEN Free ELSE @]
    /\ Goto(w, IF code[w] = "INVENTORY_WORKER_FAILED" THEN "report" ELSE "ack")
    /\ UNCHANGED <<dbVars, request, brokerVars, localVars, clock, faults>>

(* acks_late: the message is acknowledged when the task is over.           *)
Ack(w) ==
    /\ pc[w] \in {"retried", "ack"}
    /\ unacked' = unacked \ {task[w]}
    /\ GoIdle(w)
    /\ UNCHANGED <<dbVars, request, ready, lock, clock, faults>>

(* A database call outside the try block raises: the task records          *)
(* INVENTORY_WORKER_FAILED, and gives up if that raises too.               *)
DatabaseError(w) ==
    /\ Fault("database")
    /\ \/ /\ pc[w] = "load"
          /\ Goto(w, "report")
          /\ code' = [code EXCEPT ![w] = "INVENTORY_WORKER_FAILED"]
       \/ /\ pc[w] \in {"read", "refuse", "start", "abort", "abortWrite"}
          /\ Goto(w, "release")
          /\ code' = [code EXCEPT ![w] = "INVENTORY_WORKER_FAILED"]
       \/ /\ pc[w] \in {"report", "reportWrite"}
          /\ Goto(w, "ack")
          /\ code' = code
    /\ CloseSession(w)
    /\ UNCHANGED <<dbVars, request, brokerVars, lock, task, clock>>

-----------------------------------------------------------------------------
(* Processes die, keys expire, messages come back.                         *)

(* The worker is no more; a lock it held is nobody's until it expires.     *)
Abandon(w) ==
    /\ pc[w] # "idle"
    /\ lock' = [c \in Connections |-> IF lock[c] = w THEN Orphan ELSE lock[c]]
    /\ GoIdle(w)

WorkerCrash(w) ==
    /\ Fault("crash")
    /\ pc[w] = "retried" => "duplicate" \in Faults
    /\ Abandon(w)
    /\ UNCHANGED <<dbVars, request, brokerVars, clock>>

(* task_reject_on_worker_lost is left at its default.                      *)
ChildLost(w) ==
    /\ Fault("child_lost")
    /\ unacked' = unacked \ {task[w]}
    /\ Abandon(w)
    /\ UNCHANGED <<dbVars, request, ready, clock>>

(* The visibility timeout of an unacked message ends.                      *)
Redeliver(m) ==
    /\ m \in unacked
    /\ \/ /\ \A w \in Workers : task[w] # m
          /\ faults' = faults
       \/ /\ \E w \in Workers : task[w] = m
          /\ Fault("duplicate")
    /\ unacked' = unacked \ {m}
    /\ ready' = ready \cup {m}
    /\ UNCHANGED <<dbVars, request, lock, pc, localVars, clock>>

(* timeout=840 of the lock.                                                *)
ExpireLock(c) ==
    /\ \/ /\ lock[c] = Orphan
          /\ faults' = faults
       \/ /\ lock[c] \in Workers
          /\ Fault("slow_task")
    /\ lock' = [lock EXCEPT ![c] = Free]
    /\ UNCHANGED <<dbVars, request, brokerVars, pc, localVars, clock>>

-----------------------------------------------------------------------------
RequestStep(s) ==
    InsertScan(s) \/ SendTask(s) \/ SendRaises(s) \/ MarkDispatchFailed(s)

WorkerStep(w) ==
    \/ LoadScan(w) \/ AcquireLock(w) \/ LockUnavailable(w) \/ PublishRetry(w)
    \/ ReadScan(w) \/ RefuseScan(w) \/ StartScan(w)
    \/ \E t \in Types : CollectService(w, t)
    \/ CollectionRaises(w) \/ Persist(w) \/ PersistUnanswered(w)
    \/ FailRead(w) \/ FailWrite(w) \/ ReleaseLock(w) \/ Ack(w)
    \/ DatabaseError(w)

Next ==
    \/ \E c \in Connections : VerifyConnection(c) \/ ExpireLock(c)
    \/ Tick
    \/ \E s \in Scans : CheckRequest(s) \/ RequestStep(s) \/ ApiCrash(s)
    \/ \E w \in Workers : WorkerStep(w) \/ WorkerCrash(w) \/ ChildLost(w)
    \/ \E w \in Workers, m \in Messages : Take(w, m)
    \/ \E m \in Messages : Redeliver(m)

Spec == Init /\ [][Next]_vars

(* A call that was begun returns, an idle worker takes what is queued,     *)
(* Redis expires its keys and hands back what nobody acknowledged.         *)
(* Nothing obliges a user to ask for a scan, or a process to die.          *)
Fairness ==
    /\ \A s \in Scans : WF_vars(RequestStep(s))
    /\ \A w \in Workers : WF_vars(WorkerStep(w))
    /\ \A m \in Messages : /\ WF_vars(\E w \in Workers : Take(w, m))
                           /\ WF_vars(Redeliver(m))
    /\ \A c \in Connections : WF_vars(ExpireLock(c))

FairSpec == Spec /\ Fairness
-----------------------------------------------------------------------------
(* Properties.  The faults each one tolerates are those of its run.        *)

(* A connection never has two scans queued or running, although start_scan *)
(* checks before it inserts and a worker makes RUNNING whatever it reads:  *)
(* the partial unique index is what holds.                                 *)
OneActiveScan ==
    \A s, z \in Scans : /\ s # z
                        /\ ConnectionOf[s] = ConnectionOf[z]
                        /\ IsActive(s)
                        => ~IsActive(z)

(* A worker between its second read of the scan and its release owns the   *)
(* lock of the connection: "Run one scan while holding a per-connection    *)
(* Redis lock".                                                            *)
CollectorHoldsLock ==
    \A w \in Workers : pc[w] \in LockedPCs => lock[LockOf(w)] = w

(* An inventory row is active exactly when its resource was in the answer  *)
(* of the last persisted collection that covers its Region and type:       *)
(* failed services, other Regions and failed scans erase nothing, and a    *)
(* resource that comes back is active again.                               *)
InventoryMatchesAnswers ==
    \A c \in Connections, k \in Resources :
        LET v == observed[c][k.region][k.type]
        IN  rows[c][k] = "active" <=> (v > 0 /\ k \in World[v][c])

(* The inventory is the latest one: a collection never replaces the        *)
(* answers of a later one.                                                 *)
NeverOlderInventory ==
    [][\A c \in Connections, r \in Regions, t \in Types :
          observed'[c][r][t] >= observed[c][r][t]]_vars

(* A queued or running scan has somebody who will end it: the request that *)
(* is about to send it, or a message for it.  One that has nobody blocks   *)
(* its connection for good.                                                *)
ActiveScanHasDriver ==
    \A s \in Scans : IsActive(s) =>
        \/ request[s] \in {"send", "mark"}
        \/ \E m \in ready \cup unacked : m.scan = s

(* A queued scan is ended, whatever its workers and their locks go         *)
(* through.                                                                *)
ScanEventuallyEnds ==
    \A s \in Scans : IsActive(s) ~> scan[s].status \in Terminal

(* The scans of a connection are the abstract jobs of that key.            *)
JobPhase ==
    [s \in Scans |->
        CASE scan[s].status = "ABSENT"  -> "absent"
          [] scan[s].status = "QUEUED"  -> "queued"
          [] scan[s].status = "RUNNING" -> "running"
          [] OTHER -> "ended"]

Jobs == INSTANCE AsyncJob
            WITH Ids <- Scans, KeyOf <- ConnectionOf, phase <- JobPhase

(* start_scan, the worker and the broker together implement a job that is  *)
(* submitted for a free key, started at most once and always ended.        *)
ScansAreJobs == Jobs!Spec
=============================================================================
