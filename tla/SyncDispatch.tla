---------------------------- MODULE SyncDispatch ----------------------------
(***************************************************************************)
(* What the cost, metric and recommendation synchronizations share: a      *)
(* request persists a QUEUED row and sends its id to Celery, an idle       *)
(* worker takes it, and the message is acknowledged when the task is over. *)
(* The tasks themselves, which claim the row and do the work, are in the   *)
(* modules that instantiate this one.                                      *)
(***************************************************************************)
EXTENDS Integers, FiniteSets

CONSTANTS
    Syncs,         \* the ids requests may create (each a fresh uuid)
    Workers,       \* Celery worker processes
    Connections,   \* rows of aws_account_connections
    ConnectionOf,  \* the connection a synchronization is requested for
    KeyOf,         \* what may have one active synchronization at a time
    Errors,        \* the error codes of the component
    Faults,        \* what may go wrong: see FaultKinds
    MaxFaults,     \* bound: how many things go wrong
    None         \* no synchronization: what an idle worker works on

(* As in InventoryScans: a worker dies with its message unacked; a pool    *)
(* child dies and its message is acked; the API dies after its commit;     *)
(* send_task raises after the broker took the message; the broker delivers *)
(* twice what is still worked on; a database call raises.                  *)
FaultKinds == {"crash", "child_lost", "api_crash", "lost_reply", "duplicate",
               "database"}

ASSUME DispatchAssumption ==
    /\ ConnectionOf \in [Syncs -> Connections]
    /\ DOMAIN KeyOf = Syncs
    /\ {"NONE", "DISPATCH_FAILED", "CONNECTION_NOT_VERIFIED"} \subseteq Errors
    /\ Faults \subseteq FaultKinds
    /\ MaxFaults \in Nat
    /\ None \notin Syncs

VARIABLES
    connection,  \* aws_account_connections.status
    sync,        \* the rows: status and error_code
    request,     \* where the start call that creates a row stands
    ready,       \* ids in the Celery queue
    unacked,     \* ids delivered and not acknowledged
    pc,          \* where each worker stands
    task,        \* the id each worker works on
    mem,         \* the row as the worker's session last saw or set it
    code,        \* the error code the worker is about to record
    faults,      \* how many things have gone wrong
    lost         \* history: ids whose request, worker or database failed

rowVars == <<connection, sync>>
brokerVars == <<ready, unacked>>
workerVars == <<pc, task, mem, code>>
faultVars == <<faults, lost>>
dispatchVars == <<rowVars, request, brokerVars, workerVars, faultVars>>
-----------------------------------------------------------------------------
Active   == {"QUEUED", "RUNNING"}
Terminal == {"COMPLETED", "PARTIAL", "FAILED"}
NoError  == "NONE"

Row == [status: Active \cup Terminal \cup {"ABSENT"}, error: Errors]
NoRow == [status |-> "ABSENT", error |-> NoError]
Queued == [status |-> "QUEUED", error |-> NoError]
Failed(e) == [status |-> "FAILED", error |-> e]

IsActive(s) == sync[s].status \in Active

(* Mutant: the index forgets RUNNING.                                      *)
IndexOfQueued(s) ==
    \A z \in Syncs \ {s} : KeyOf[z] = KeyOf[s] => sync[z].status # "QUEUED"

(* The partial unique index over the active rows of a key.                 *)
IndexAdmits(s) ==
    \A z \in Syncs \ {s} : KeyOf[z] = KeyOf[s] => ~IsActive(z)

(* A flush writes the attributes that differ from what was loaded.         *)
Flush(row, loaded, set) ==
    [status |-> IF set.status # loaded.status THEN set.status ELSE row.status,
     error  |-> IF set.error  # loaded.error  THEN set.error  ELSE row.error]

RequestPCs == {"idle", "insert", "send", "mark", "done", "died"}

DispatchTypeOK(workerPCs) ==
    /\ connection \in [Connections -> {"PENDING", "VERIFIED", "FAILED"}]
    /\ sync \in [Syncs -> Row]
    /\ request \in [Syncs -> RequestPCs]
    /\ ready \subseteq Syncs
    /\ unacked \subseteq Syncs
    /\ pc \in [Workers -> workerPCs]
    /\ task \in [Workers -> Syncs \cup {None}]
    /\ \A w \in Workers : task[w] = None <=> pc[w] = "idle"
    /\ mem \in [Workers -> Row]
    /\ code \in [Workers -> Errors]
    /\ faults \in 0..MaxFaults
    /\ lost \subseteq Syncs

DispatchInit ==
    /\ connection = [c \in Connections |-> "PENDING"]
    /\ sync = [s \in Syncs |-> NoRow]
    /\ request = [s \in Syncs |-> "idle"]
    /\ ready = {}
    /\ unacked = {}
    /\ pc = [w \in Workers |-> "idle"]
    /\ task = [w \in Workers |-> None]
    /\ mem = [w \in Workers |-> NoRow]
    /\ code = [w \in Workers |-> NoError]
    /\ faults = 0
    /\ lost = {}

(* Something of this kind goes wrong.                                      *)
Fault(kind) ==
    /\ kind \in Faults
    /\ faults < MaxFaults
    /\ faults' = faults + 1

VerifyConnection(c) ==
    /\ \E v \in {"VERIFIED", "FAILED"} :
          connection' = [connection EXCEPT ![c] = v]
    /\ UNCHANGED <<sync, request, brokerVars, workerVars, faultVars>>

-----------------------------------------------------------------------------
(* The request, in the API process.                                        *)

(* Verified, and nothing active for the key.  A request that is turned     *)
(* down leaves no trace.                                                   *)
CheckRequest(s) ==
    /\ request[s] = "idle"
    /\ connection[ConnectionOf[s]] = "VERIFIED"
    /\ IndexAdmits(s)
    /\ request' = [request EXCEPT ![s] = "insert"]
    /\ UNCHANGED <<rowVars, brokerVars, workerVars, faultVars>>

InsertRow(s) ==
    /\ request[s] = "insert"
    /\ \/ /\ IndexAdmits(s)
          /\ sync' = [sync EXCEPT ![s] = Queued]
          /\ request' = [request EXCEPT ![s] = "send"]
       \/ /\ ~IndexAdmits(s)                              \* IntegrityError
          /\ request' = [request EXCEPT ![s] = "idle"]
          /\ sync' = sync
    /\ UNCHANGED <<connection, brokerVars, workerVars, faultVars>>

SendTask(s) ==
    /\ request[s] = "send"
    /\ ready' = ready \cup {s}
    /\ \/ /\ request' = [request EXCEPT ![s] = "done"]
          /\ faults' = faults
       \/ /\ request' = [request EXCEPT ![s] = "mark"]
          /\ Fault("lost_reply")
    /\ UNCHANGED <<rowVars, unacked, workerVars, lost>>

(* Mutant: the error is swallowed.                                         *)
SendSwallows(s) ==
    /\ request[s] = "send"
    /\ request' = [request EXCEPT ![s] = "done"]
    /\ UNCHANGED <<rowVars, brokerVars, workerVars, faultVars>>

SendRaises(s) ==
    /\ request[s] = "send"
    /\ request' = [request EXCEPT ![s] = "mark"]
    /\ UNCHANGED <<rowVars, brokerVars, workerVars, faultVars>>

(* The request's session still holds the row as it inserted it.            *)
MarkDispatchFailed(s) ==
    /\ request[s] = "mark"
    /\ sync' = [sync EXCEPT ![s] = Flush(@, Queued, Failed("DISPATCH_FAILED"))]
    /\ request' = [request EXCEPT ![s] = "done"]
    /\ UNCHANGED <<connection, brokerVars, workerVars, faultVars>>

ApiCrash(s) ==
    /\ Fault("api_crash")
    /\ request[s] \in {"insert", "send", "mark"}
    /\ request' = [request EXCEPT ![s] = "died"]
    /\ lost' = lost \cup {s}
    /\ UNCHANGED <<rowVars, brokerVars, workerVars>>

RequestStep(s) ==
    InsertRow(s) \/ SendTask(s) \/ SendRaises(s) \/ MarkDispatchFailed(s)

-----------------------------------------------------------------------------
(* The worker, around the task.                                            *)

Goto(w, next) == pc' = [pc EXCEPT ![w] = next]

GoIdle(w) ==
    /\ Goto(w, "idle")
    /\ task' = [task EXCEPT ![w] = None]
    /\ mem' = [mem EXCEPT ![w] = NoRow]
    /\ code' = [code EXCEPT ![w] = NoError]

Take(w, s) ==
    /\ pc[w] = "idle"
    /\ s \in ready
    /\ ready' = ready \ {s}
    /\ unacked' = unacked \cup {s}
    /\ task' = [task EXCEPT ![w] = s]
    /\ Goto(w, "claim")
    /\ UNCHANGED <<rowVars, request, mem, code, faultVars>>

(* acks_late; the message of a task that raised is acknowledged too.       *)
Ack(w) ==
    /\ pc[w] = "ack"
    /\ unacked' = unacked \ {task[w]}
    /\ GoIdle(w)
    /\ UNCHANGED <<rowVars, request, ready, faultVars>>

WorkerCrash(w) ==
    /\ Fault("crash")
    /\ pc[w] # "idle"
    /\ lost' = lost \cup {task[w]}
    /\ GoIdle(w)
    /\ UNCHANGED <<rowVars, request, brokerVars>>

ChildLost(w) ==
    /\ Fault("child_lost")
    /\ pc[w] # "idle"
    /\ lost' = lost \cup {task[w]}
    /\ unacked' = unacked \ {task[w]}
    /\ GoIdle(w)
    /\ UNCHANGED <<rowVars, request, ready>>

Redeliver(s) ==
    /\ s \in unacked
    /\ \/ /\ \A w \in Workers : task[w] # s
          /\ faults' = faults
       \/ /\ \E w \in Workers : task[w] = s
          /\ Fault("duplicate")
    /\ unacked' = unacked \ {s}
    /\ ready' = ready \cup {s}
    /\ UNCHANGED <<rowVars, request, workerVars, lost>>

(* A database call that no handler covers raises: the task is over.        *)
TaskRaises(w) ==
    /\ Fault("database")
    /\ pc[w] \in {"claim", "failRead", "failWrite"}
    /\ lost' = lost \cup {task[w]}
    /\ Goto(w, "ack")
    /\ UNCHANGED <<rowVars, request, brokerVars, task, mem, code>>

(* _fail_sync: a session of its own reads the row, and makes it FAILED.    *)
FailRead(w) ==
    /\ pc[w] = "failRead"
    /\ mem' = [mem EXCEPT ![w] = sync[task[w]]]
    /\ Goto(w, "failWrite")
    /\ UNCHANGED <<rowVars, request, brokerVars, task, code, faultVars>>

FailWrite(w) ==
    /\ pc[w] = "failWrite"
    /\ sync' = [sync EXCEPT ![task[w]] = Flush(@, mem[w], Failed(code[w]))]
    /\ Goto(w, "ack")
    /\ UNCHANGED <<connection, request, brokerVars, task, mem, code, faultVars>>

-----------------------------------------------------------------------------
(* What every synchronization promises.                                    *)

(* A key never has two synchronizations queued or running: start_sync      *)
(* looks before it inserts, but it is the partial unique index that        *)
(* decides between requests that looked at the same time.                  *)
OneActiveSync ==
    \A s, z \in Syncs : s # z /\ KeyOf[s] = KeyOf[z] /\ IsActive(s) => ~IsActive(z)

(* A synchronization that was accepted is marked completed, partial or     *)
(* failed in the end, unless a process died while it had the id or the     *)
(* database failed outside the try block: no outcome, delivery or early    *)
(* return leaves it active.                                                *)
EndsUnlessLost ==
    \A s \in Syncs : IsActive(s) ~> sync[s].status \in Terminal \/ s \in lost

(* A synchronization as an abstract job of its key.                        *)
JobPhase ==
    [s \in Syncs |->
        CASE sync[s].status = "ABSENT"  -> "absent"
          [] sync[s].status = "QUEUED"  -> "queued"
          [] sync[s].status = "RUNNING" -> "running"
          [] OTHER -> "ended"]

Jobs == INSTANCE AsyncJob WITH Ids <- Syncs, KeyOf <- KeyOf, phase <- JobPhase

(* Whatever dies, synchronizations are submitted for a free key, started   *)
(* at most once and ended at most once.                                    *)
SyncsAreJobs == Jobs!SafeSpec
=============================================================================
