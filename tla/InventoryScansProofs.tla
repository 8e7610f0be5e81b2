------------------------ MODULE InventoryScansProofs ------------------------
(***************************************************************************)
(* Proofs about InventoryScans, for any number of scans, workers,          *)
(* connections, Regions and types, any history of the AWS accounts and any *)
(* set of faults (or the faults a theorem names).                          *)
(***************************************************************************)
EXTENDS InventoryScans, TLAPS

USE DEF ScanStatus, Active, Terminal, FailureCodes, NoError, Errors

-----------------------------------------------------------------------------
(* Types.                                                                  *)

(* What type correctness needs: only a message with attempts left is       *)
(* published again.                                                        *)
RetryFits ==
    \A w \in Workers : pc[w] = "retry" => task[w].retries < MaxRetries

TypeInv == TypeOK /\ RetryFits

(* A flush of well-formed rows writes a well-formed row.                   *)
LEMMA FlushType ==
    ASSUME NEW row \in InventoryScan, NEW loaded \in InventoryScan,
           NEW set \in InventoryScan
    PROVE  Flush(row, loaded, set) \in InventoryScan
  BY DEF Flush, InventoryScan

(* A failed scan is a well-formed row.                                     *)
LEMMA FailedType ==
    ASSUME NEW e \in Errors
    PROVE  Failed(e) \in InventoryScan
  BY DEF Failed, InventoryScan

LEMMA TypeInit == Init => TypeInv
  BY ConstantsAssumption
     DEF Init, TypeInv, TypeOK, RetryFits, NoScan, InventoryScan,
         InventoryResource, RequestPCs, WorkerPCs, LockedPCs, Unasked

(* A worker that is not idle works on a message.                           *)
LEMMA BusyWorker ==
    ASSUME TypeInv, NEW w \in Workers, pc[w] # "idle"
    PROVE  /\ task[w] \in Messages
           /\ ScanOf(w) \in Scans
           /\ LockOf(w) \in Connections
  BY ConstantsAssumption DEF TypeInv, TypeOK, ScanOf, LockOf, Messages

LEMMA TypeVerifyConnection ==
    ASSUME TypeInv, NEW c \in Connections, VerifyConnection(c)
    PROVE  TypeInv'
  BY DEF TypeInv, TypeOK, RetryFits, VerifyConnection, brokerVars, localVars

LEMMA TypeTick ==
    ASSUME TypeInv, Tick
    PROVE  TypeInv'
  BY ConstantsAssumption
     DEF TypeInv, TypeOK, RetryFits, Tick, dbVars, brokerVars, localVars

LEMMA TypeRequest ==
    ASSUME TypeInv, NEW s \in Scans,
           CheckRequest(s) \/ RequestStep(s) \/ ApiCrash(s)
    PROVE  TypeInv'
  <1> USE DEF TypeInv, TypeOK, RetryFits, dbVars, brokerVars, localVars
  <1>1. CASE CheckRequest(s)
    BY <1>1 DEF CheckRequest, RequestPCs
  <1>2. CASE InsertScan(s)
    <2>1. [status |-> "QUEUED", error |-> NoError] \in InventoryScan
      BY DEF InventoryScan
    <2>2. scan' \in [Scans -> InventoryScan]
      BY <1>2, <2>1 DEF InsertScan
    <2>3. request' \in [Scans -> RequestPCs]
      BY <1>2 DEF InsertScan, RequestPCs
    <2> QED
      BY <1>2, <2>2, <2>3 DEF InsertScan
  <1>3. CASE SendTask(s)
    <2>1. [scan |-> s, retries |-> 0] \in Messages
      BY ConstantsAssumption DEF Messages
    <2> QED
      <3>1. ready' \subseteq Messages /\ request' \in [Scans -> RequestPCs]
        BY <1>3, <2>1 DEF SendTask, RequestPCs
      <3>2. faults' \in 0..MaxFaults
        BY <1>3, ConstantsAssumption DEF SendTask, Fault
      <3> QED
        BY <1>3, <3>1, <3>2 DEF SendTask
  <1>4. CASE SendRaises(s)
    BY <1>4 DEF SendRaises, RequestPCs
  <1>5. CASE MarkDispatchFailed(s)
    <2>1. Flush(scan[s], [status |-> "QUEUED", error |-> NoError],
                Failed("DISPATCH_FAILED")) \in InventoryScan
      BY FlushType, FailedType DEF InventoryScan
    <2> QED
      BY <1>5, <2>1 DEF MarkDispatchFailed, RequestPCs
  <1>6. CASE ApiCrash(s)
    BY <1>6, ConstantsAssumption DEF ApiCrash, Fault, RequestPCs
  <1> QED
    BY <1>1, <1>2, <1>3, <1>4, <1>5, <1>6 DEF RequestStep

(* Closing a session leaves the worker's variables well-formed.            *)
LEMMA CloseSessionType ==
    ASSUME TypeInv, NEW w \in Workers, CloseSession(w)
    PROVE  /\ mem' \in [Workers -> InventoryScan]
           /\ todo' \in [Workers -> SUBSET Types]
           /\ seen' \in [Workers -> [Types -> 0..MaxClock]]
  <1>1. NoScan \in InventoryScan
    BY DEF NoScan, InventoryScan
  <1>2. Unasked \in [Types -> 0..MaxClock]
    BY ConstantsAssumption DEF Unasked
  <1> QED
    BY <1>1, <1>2 DEF TypeInv, TypeOK, CloseSession

(* Moving a busy worker to another place keeps pc and task in agreement.   *)
LEMMA GotoType ==
    ASSUME TypeInv, NEW w \in Workers, pc[w] # "idle",
           NEW next \in WorkerPCs \ {"idle"}, Goto(w, next), task' = task,
           next = "retry" => RetriesLeft(w)
    PROVE  /\ pc' \in [Workers -> WorkerPCs]
           /\ \A x \in Workers : task'[x] = NoTask <=> pc'[x] = "idle"
           /\ RetryFits'
  BY DEF TypeInv, TypeOK, RetryFits, Goto, RetriesLeft

LEMMA TypeTake ==
    ASSUME TypeInv, NEW w \in Workers, NEW m \in Messages, Take(w, m)
    PROVE  TypeInv'
  <1>1. "load" \in WorkerPCs
    BY DEF WorkerPCs
  <1> QED
    BY <1>1, ConstantsAssumption
       DEF TypeInv, TypeOK, RetryFits, Take, Goto, dbVars

(* The steps of a worker before it reads the scan again.                   *)
LEMMA TypeLocking ==
    ASSUME TypeInv, NEW w \in Workers,
           \/ LoadScan(w) \/ AcquireLock(w) \/ LockUnavailable(w)
           \/ PublishRetry(w)
    PROVE  TypeInv'
  <1> USE DEF WorkerPCs, LockedPCs
  <1>0. pc[w] # "idle"
    BY DEF LoadScan, AcquireLock, LockUnavailable, PublishRetry
  <1>1. CASE LoadScan(w)
    BY <1>0, <1>1, GotoType
       DEF LoadScan, TypeInv, TypeOK, dbVars, brokerVars, localVars
  <1>2. CASE AcquireLock(w)
    <2>1. lock' \in [Connections -> Workers \cup {Free, Orphan}]
      BY <1>0, <1>2, BusyWorker DEF AcquireLock, TypeInv, TypeOK
    <2> QED
      BY <1>0, <1>2, <2>1, GotoType
         DEF AcquireLock, TypeInv, TypeOK, dbVars, brokerVars, localVars
  <1>3. CASE LockUnavailable(w)
    <2>1. lock' \in [Connections -> Workers \cup {Free, Orphan}]
      <3>1. \/ lock' = lock
            \/ lock' = [lock EXCEPT ![LockOf(w)] = Orphan]
        BY <1>3 DEF LockUnavailable
      <3> QED
        BY <3>1 DEF TypeInv, TypeOK
    <2>2. code' \in [Workers -> Errors]
      BY <1>3 DEF LockUnavailable, TypeInv, TypeOK
    <2>3. \E next \in {"retry", "report"} :
             Goto(w, next) /\ (next = "retry" => RetriesLeft(w))
      BY <1>3 DEF LockUnavailable
    <2> QED
      BY <1>0, <1>3, <2>1, <2>2, <2>3, GotoType
         DEF LockUnavailable, TypeInv, TypeOK, dbVars, brokerVars
  <1>4. CASE PublishRetry(w)
    <2>1. task[w] \in Messages /\ task[w].retries < MaxRetries
      BY <1>0, <1>4, BusyWorker DEF PublishRetry, TypeInv, RetryFits
    <2>2. [scan |-> ScanOf(w), retries |-> task[w].retries + 1] \in Messages
      BY <2>1, ConstantsAssumption DEF Messages, ScanOf
    <2> QED
      BY <1>0, <1>4, <2>2, GotoType
         DEF PublishRetry, TypeInv, TypeOK, dbVars, localVars
  <1> QED
    BY <1>1, <1>2, <1>3, <1>4

(* The steps of _collect_inventory up to its commit.                       *)
LEMMA TypeCollecting ==
    ASSUME TypeInv, NEW w \in Workers,
           \/ ReadScan(w) \/ RefuseScan(w) \/ StartScan(w)
           \/ \E t \in Types : CollectService(w, t)
           \/ CollectionRaises(w)
    PROVE  TypeInv'
  <1> USE DEF WorkerPCs, LockedPCs
  <1>0. pc[w] # "idle"
    BY DEF ReadScan, RefuseScan, StartScan, CollectService, CollectionRaises
  <1>a. ScanOf(w) \in Scans
    BY <1>0, BusyWorker
  <1>b. scan[ScanOf(w)] \in InventoryScan /\ mem[w] \in InventoryScan
    BY <1>a DEF TypeInv, TypeOK
  <1>1. CASE ReadScan(w)
    <2>1. mem' \in [Workers -> InventoryScan]
      BY <1>1, <1>b DEF ReadScan, TypeInv, TypeOK
    <2> QED
      BY <1>0, <1>1, <2>1, GotoType
         DEF ReadScan, TypeInv, TypeOK, dbVars, brokerVars
  <1>2. CASE RefuseScan(w)
    <2>1. Flush(scan[ScanOf(w)], mem[w], Failed("CONNECTION_NOT_VERIFIED"))
             \in InventoryScan
      BY <1>b, FlushType, FailedType
    <2>2. scan' \in [Scans -> InventoryScan]
      BY <1>2, <2>1 DEF RefuseScan, TypeInv, TypeOK
    <2> QED
      BY <1>0, <1>2, <2>2, GotoType, CloseSessionType
         DEF RefuseScan, TypeInv, TypeOK, brokerVars
  <1>3. CASE StartScan(w)
    <2> DEFINE running == [mem[w] EXCEPT !.status = "RUNNING"]
               row == Flush(scan[ScanOf(w)], mem[w], running)
    <2>1. running \in InventoryScan
      BY <1>b DEF InventoryScan
    <2>2. row \in InventoryScan
      BY <1>b, <2>1, FlushType
    <2> HIDE DEF running, row
    <2>3. /\ scan' = [scan EXCEPT ![ScanOf(w)] = row] \/ scan' = scan
          /\ \/ /\ mem' = [mem EXCEPT ![w] = running]
                /\ todo' = [todo EXCEPT ![w] = Types]
                /\ seen' = seen
             \/ CloseSession(w)
          /\ \E e \in Errors : code' = [code EXCEPT ![w] = e] \/ code' = code
          /\ \E next \in {"collect", "release"} : Goto(w, next)
          /\ task' = task
      BY <1>3 DEF StartScan, running, row
    <2>4. scan' \in [Scans -> InventoryScan]
      BY <2>2, <2>3 DEF TypeInv, TypeOK
    <2>5. /\ mem' \in [Workers -> InventoryScan]
          /\ todo' \in [Workers -> SUBSET Types]
          /\ seen' \in [Workers -> [Types -> 0..MaxClock]]
      BY <2>1, <2>3, CloseSessionType DEF TypeInv, TypeOK
    <2>6. code' \in [Workers -> Errors]
      BY <2>3 DEF TypeInv, TypeOK
    <2>7. /\ pc' \in [Workers -> WorkerPCs]
          /\ \A x \in Workers : task'[x] = NoTask <=> pc'[x] = "idle"
          /\ RetryFits'
      BY <1>0, <2>3, GotoType
    <2>8. UNCHANGED <<connection, rows, observed, request, brokerVars, lock,
                      task, clock, faults>>
      BY <1>3 DEF StartScan
    <2> QED
      BY <2>4, <2>5, <2>6, <2>7, <2>8 DEF TypeInv, TypeOK, brokerVars
  <1>4. ASSUME NEW t \in Types, CollectService(w, t) PROVE TypeInv'
    <2>1. todo' \in [Workers -> SUBSET Types]
      BY <1>4 DEF CollectService, TypeInv, TypeOK
    <2>2. seen' \in [Workers -> [Types -> 0..MaxClock]]
      <3>1. PICK answer \in {0, clock} :
               seen' = [seen EXCEPT ![w][t] = answer]
        BY <1>4 DEF CollectService
      <3>2. answer \in 0..MaxClock
        BY ConstantsAssumption DEF TypeInv, TypeOK
      <3> QED
        BY <3>1, <3>2 DEF TypeInv, TypeOK
    <2>3. \E next \in {"collect", "persist"} : Goto(w, next)
      BY <1>4 DEF CollectService
    <2> QED
      BY <1>0, <1>4, <2>1, <2>2, <2>3, GotoType
         DEF CollectService, TypeInv, TypeOK, dbVars, brokerVars
  <1>5. CASE CollectionRaises(w)
    <2>1. code' \in [Workers -> Errors]
      BY <1>5 DEF CollectionRaises, TypeInv, TypeOK
    <2> QED
      BY <1>0, <1>5, <2>1, GotoType, CloseSessionType
         DEF CollectionRaises, TypeInv, TypeOK, dbVars, brokerVars
  <1> QED
    BY <1>1, <1>2, <1>3, <1>4, <1>5

(* The end of a scan: commit, failure, release, acknowledgement.           *)
LEMMA TypeEnding ==
    ASSUME TypeInv, NEW w \in Workers,
           \/ Persist(w) \/ PersistUnanswered(w) \/ FailRead(w)
           \/ FailWrite(w) \/ ReleaseLock(w) \/ Ack(w) \/ DatabaseError(w)
    PROVE  TypeInv'
  <1> USE DEF WorkerPCs, LockedPCs
  <1>0. pc[w] # "idle"
    BY DEF Persist, PersistUnanswered, FailRead, FailWrite, ReleaseLock, Ack,
           DatabaseError
  <1>a. ScanOf(w) \in Scans /\ LockOf(w) \in Connections
    BY <1>0, BusyWorker
  <1>b. scan[ScanOf(w)] \in InventoryScan /\ mem[w] \in InventoryScan
    BY <1>a DEF TypeInv, TypeOK
  <1>c. ASSUME CommitInventory(w)
        PROVE  /\ scan' \in [Scans -> InventoryScan]
               /\ rows' \in [Connections -> [Resources -> InventoryResource]]
               /\ observed' \in
                     [Connections -> [Regions -> [Types -> 0..MaxClock]]]
               /\ connection' = connection
    <2>1. Outcome(w) \in InventoryScan
      BY DEF Outcome, Failed, InventoryScan
    <2>2. Flush(scan[ScanOf(w)], mem[w], Outcome(w)) \in InventoryScan
      BY <1>b, <2>1, FlushType
    <2>3. scan' \in [Scans -> InventoryScan]
      BY <1>c, <2>2 DEF CommitInventory, TypeInv, TypeOK
    <2>4. NewRows(w) \in [Resources -> InventoryResource]
      BY <1>a DEF NewRows, InventoryResource, TypeInv, TypeOK
    <2>5. rows' \in [Connections -> [Resources -> InventoryResource]]
      BY <1>c, <2>4 DEF CommitInventory, TypeInv, TypeOK
    <2>6. observed' \in [Connections -> [Regions -> [Types -> 0..MaxClock]]]
      <3> DEFINE r == RegionOf[ScanOf(w)]
                 new == [t \in Types |-> IF t \in Answered(w) THEN seen[w][t]
                                         ELSE observed[LockOf(w)][r][t]]
      <3>1. r \in Regions
        BY <1>a, ConstantsAssumption
      <3>2. new \in [Types -> 0..MaxClock]
        BY <1>a, <3>1 DEF TypeInv, TypeOK
      <3>3. observed' = [observed EXCEPT ![LockOf(w)][r] = new]
        BY <1>a, <1>c, <3>1 DEF CommitInventory, TypeInv, TypeOK
      <3> QED
        BY <1>a, <3>1, <3>2, <3>3 DEF TypeInv, TypeOK
    <2> QED
      BY <1>c, <2>3, <2>5, <2>6 DEF CommitInventory
  <1>1. CASE Persist(w)
    BY <1>0, <1>1, <1>c, GotoType, CloseSessionType
       DEF Persist, TypeInv, TypeOK, brokerVars
  <1>2. CASE PersistUnanswered(w)
    <2>1. code' \in [Workers -> Errors] /\ faults' \in 0..MaxFaults
      BY <1>2, ConstantsAssumption DEF PersistUnanswered, Fault, TypeInv, TypeOK
    <2> QED
      BY <1>0, <1>2, <2>1, <1>c, GotoType, CloseSessionType
         DEF PersistUnanswered, TypeInv, TypeOK, brokerVars
  <1>3. CASE FailRead(w)
    <2>1. mem' \in [Workers -> InventoryScan]
      BY <1>3, <1>b DEF FailRead, TypeInv, TypeOK
    <2>2. \E next \in {"abortWrite", "reportWrite"} : Goto(w, next)
      BY <1>3 DEF FailRead
    <2> QED
      BY <1>0, <1>3, <2>1, <2>2, GotoType
         DEF FailRead, TypeInv, TypeOK, dbVars, brokerVars
  <1>4. CASE FailWrite(w)
    <2>1. code[w] \in Errors
      BY DEF TypeInv, TypeOK
    <2>2. Flush(scan[ScanOf(w)], mem[w], Failed(code[w])) \in InventoryScan
      BY <1>b, <2>1, FlushType, FailedType
    <2>3. scan' \in [Scans -> InventoryScan]
      BY <1>4, <2>2 DEF FailWrite, TypeInv, TypeOK
    <2>4. \E next \in {"release", "ack"} : Goto(w, next)
      BY <1>4 DEF FailWrite
    <2> QED
      BY <1>0, <1>4, <2>3, <2>4, GotoType, CloseSessionType
         DEF FailWrite, TypeInv, TypeOK, brokerVars
  <1>5. CASE ReleaseLock(w)
    <2>1. lock' \in [Connections -> Workers \cup {Free, Orphan}]
      BY <1>5, <1>a DEF ReleaseLock, TypeInv, TypeOK
    <2>2. \E next \in {"report", "ack"} : Goto(w, next)
      BY <1>5 DEF ReleaseLock
    <2> QED
      BY <1>0, <1>5, <2>1, <2>2, GotoType
         DEF ReleaseLock, TypeInv, TypeOK, dbVars, brokerVars, localVars
  <1>6. CASE Ack(w)
    BY <1>6, CloseSessionType
       DEF Ack, GoIdle, Goto, TypeInv, TypeOK, RetryFits, dbVars
  <1>7. CASE DatabaseError(w)
    <2>1. code' \in [Workers -> Errors]
      BY <1>7 DEF DatabaseError, TypeInv, TypeOK
    <2>2. \E next \in {"report", "release", "ack"} : Goto(w, next)
      BY <1>7 DEF DatabaseError
    <2>3. faults' \in 0..MaxFaults
      BY <1>7, ConstantsAssumption DEF DatabaseError, Fault, TypeInv, TypeOK
    <2> QED
      BY <1>0, <1>7, <2>1, <2>2, <2>3, GotoType, CloseSessionType
         DEF DatabaseError, TypeInv, TypeOK, dbVars, brokerVars
  <1> QED
    BY <1>1, <1>2, <1>3, <1>4, <1>5, <1>6, <1>7

(* Dying workers, expiring keys, returning messages.                       *)
LEMMA TypeFaults ==
    ASSUME TypeInv,
           \/ \E w \in Workers : WorkerCrash(w) \/ ChildLost(w)
           \/ \E m \in Messages : Redeliver(m)
           \/ \E c \in Connections : ExpireLock(c)
    PROVE  TypeInv'
  <1>1. ASSUME NEW w \in Workers, WorkerCrash(w) \/ ChildLost(w)
        PROVE  TypeInv'
    <2>1. Abandon(w)
      BY <1>1 DEF WorkerCrash, ChildLost
    <2>2. lock' \in [Connections -> Workers \cup {Free, Orphan}]
      BY <2>1 DEF Abandon, TypeInv, TypeOK
    <2>3. /\ pc' \in [Workers -> WorkerPCs]
          /\ task' \in [Workers -> Messages \cup {NoTask}]
          /\ \A x \in Workers : task'[x] = NoTask <=> pc'[x] = "idle"
          /\ RetryFits'
          /\ code' \in [Workers -> Errors]
      BY <2>1 DEF Abandon, GoIdle, Goto, TypeInv, TypeOK, RetryFits, WorkerPCs
    <2>4. /\ mem' \in [Workers -> InventoryScan]
          /\ todo' \in [Workers -> SUBSET Types]
          /\ seen' \in [Workers -> [Types -> 0..MaxClock]]
      BY <2>1, CloseSessionType DEF Abandon, GoIdle
    <2>5. faults' \in 0..MaxFaults
      BY <1>1, ConstantsAssumption
         DEF WorkerCrash, ChildLost, Fault, TypeInv, TypeOK
    <2>6. ready' \subseteq Messages /\ unacked' \subseteq Messages
      BY <1>1 DEF WorkerCrash, ChildLost, TypeInv, TypeOK, brokerVars
    <2>7. UNCHANGED <<connection, scan, rows, observed, request, clock>>
      BY <1>1 DEF WorkerCrash, ChildLost, dbVars
    <2> QED
      BY <2>2, <2>3, <2>4, <2>5, <2>6, <2>7 DEF TypeInv, TypeOK
  <1>2. ASSUME NEW m \in Messages, Redeliver(m) PROVE TypeInv'
    <2>1. faults' \in 0..MaxFaults
      BY <1>2, ConstantsAssumption DEF Redeliver, Fault, TypeInv, TypeOK
    <2> QED
      BY <1>2, <2>1
         DEF Redeliver, TypeInv, TypeOK, RetryFits, dbVars, localVars
  <1>3. ASSUME NEW c \in Connections, ExpireLock(c) PROVE TypeInv'
    <2>1. faults' \in 0..MaxFaults
      BY <1>3, ConstantsAssumption DEF ExpireLock, Fault, TypeInv, TypeOK
    <2> QED
      BY <1>3, <2>1
         DEF ExpireLock, TypeInv, TypeOK, RetryFits, dbVars, brokerVars,
             localVars
  <1> QED
    BY <1>1, <1>2, <1>3

LEMMA TypeNext == TypeInv /\ [Next]_vars => TypeInv'
  <1> SUFFICES ASSUME TypeInv, [Next]_vars PROVE TypeInv'
    OBVIOUS
  <1>1. CASE UNCHANGED vars
    BY <1>1 DEF vars, dbVars, brokerVars, localVars, TypeInv, TypeOK, RetryFits
  <1>2. ASSUME NEW w \in Workers, WorkerStep(w) PROVE TypeInv'
    BY <1>2, TypeLocking, TypeCollecting, TypeEnding DEF WorkerStep
  <1>3. CASE Next
    BY <1>2, <1>3, TypeVerifyConnection, TypeTick, TypeRequest, TypeTake,
       TypeFaults
       DEF Next
  <1> QED
    BY <1>1, <1>3

(* Every variable stays in its type, whatever goes wrong.                  *)
THEOREM TypeCorrect == Spec => []TypeOK
  <1>1. Spec => []TypeInv
    BY TypeInit, TypeNext, PTL DEF Spec
  <1> QED
    BY <1>1, PTL DEF TypeInv
-----------------------------------------------------------------------------
(* One active scan per connection.                                         *)

(* Writing one row keeps the connections exclusive, if the row does not    *)
(* become active or the index admits it.                                   *)
LEMMA OneRowWritten ==
    ASSUME TypeInv, OneActiveScan, NEW s \in Scans, NEW row \in InventoryScan,
           scan' = [scan EXCEPT ![s] = row],
           row.status \in Active => IsActive(s) \/ IndexAdmits(s)
    PROVE  OneActiveScan'
  <1> USE DEF IsActive
  <1>1. \A z \in Scans \ {s} : IsActive(z)' <=> IsActive(z)
    BY DEF TypeInv, TypeOK
  <1>2. IsActive(s)' => IsActive(s) \/ IndexAdmits(s)
    BY DEF TypeInv, TypeOK
  <1> QED
    BY <1>1, <1>2 DEF OneActiveScan, IndexAdmits

LEMMA NoRowWritten ==
    ASSUME OneActiveScan, scan' = scan
    PROVE  OneActiveScan'
  BY DEF OneActiveScan, IsActive

(* A flush that does not set an active status does not activate a row.     *)
LEMMA FlushInactive ==
    ASSUME NEW row, NEW loaded, NEW set,
           set.status \notin Active,
           Flush(row, loaded, set).status \in Active
    PROVE  row.status \in Active
  BY DEF Flush

LEMMA OneActiveScanRequest ==
    ASSUME TypeInv, OneActiveScan, NEW s \in Scans, RequestStep(s)
    PROVE  OneActiveScan'
  <1>1. CASE InsertScan(s)
    <2>1. [status |-> "QUEUED", error |-> NoError] \in InventoryScan
      BY DEF InventoryScan
    <2> QED
      BY <1>1, <2>1, OneRowWritten, NoRowWritten DEF InsertScan
  <1>2. CASE SendTask(s) \/ SendRaises(s)
    BY <1>2, NoRowWritten DEF SendTask, SendRaises, dbVars
  <1>3. CASE MarkDispatchFailed(s)
    <2> DEFINE queued == [status |-> "QUEUED", error |-> NoError]
               row == Flush(scan[s], queued, Failed("DISPATCH_FAILED"))
    <2>1. row \in InventoryScan
      BY FlushType, FailedType DEF InventoryScan, TypeInv, TypeOK
    <2>2. row.status \in Active => IsActive(s)
      BY FlushInactive DEF Failed, IsActive
    <2>3. scan' = [scan EXCEPT ![s] = row]
      BY <1>3 DEF MarkDispatchFailed
    <2> QED
      BY <2>1, <2>2, <2>3, OneRowWritten
  <1> QED
    BY <1>1, <1>2, <1>3 DEF RequestStep

LEMMA OneActiveScanWorker ==
    ASSUME TypeInv, OneActiveScan, NEW w \in Workers, WorkerStep(w)
    PROVE  OneActiveScan'
  <1>a. ASSUME pc[w] # "idle", NEW set \in InventoryScan,
               set.status \notin Active,
               scan' = [scan EXCEPT ![ScanOf(w)] =
                           Flush(scan[ScanOf(w)], mem[w], set)]
        PROVE  OneActiveScan'
    <2> DEFINE s == ScanOf(w)
               row == Flush(scan[s], mem[w], set)
    <2>1. s \in Scans
      BY <1>a, BusyWorker
    <2>2. row \in InventoryScan
      BY <2>1, FlushType DEF TypeInv, TypeOK
    <2>3. row.status \in Active => IsActive(s)
      BY <1>a, FlushInactive DEF IsActive
    <2> QED
      BY <1>a, <2>1, <2>2, <2>3, OneRowWritten
  <1>1. CASE \/ LoadScan(w) \/ AcquireLock(w) \/ LockUnavailable(w)
             \/ PublishRetry(w) \/ ReadScan(w)
             \/ \E t \in Types : CollectService(w, t)
             \/ CollectionRaises(w) \/ FailRead(w) \/ ReleaseLock(w)
             \/ Ack(w) \/ DatabaseError(w)
    BY <1>1, NoRowWritten
       DEF LoadScan, AcquireLock, LockUnavailable, PublishRetry, ReadScan,
           CollectService, CollectionRaises, FailRead, ReleaseLock, Ack,
           DatabaseError, dbVars
  <1>2. CASE RefuseScan(w)
    <2>1. Failed("CONNECTION_NOT_VERIFIED") \in InventoryScan
      BY FailedType
    <2> QED
      BY <1>a, <1>2, <2>1 DEF RefuseScan, Failed
  <1>3. CASE StartScan(w)
    <2> DEFINE s == ScanOf(w)
               running == [mem[w] EXCEPT !.status = "RUNNING"]
               row == Flush(scan[s], mem[w], running)
    <2>1. s \in Scans
      BY <1>3, BusyWorker DEF StartScan
    <2>2. row \in InventoryScan
      <3>1. mem[w] \in InventoryScan /\ scan[s] \in InventoryScan
        BY <2>1 DEF TypeInv, TypeOK
      <3>2. running \in InventoryScan
        BY <3>1 DEF InventoryScan
      <3> QED
        BY <3>1, <3>2, FlushType
    <2>3. \/ /\ scan' = [scan EXCEPT ![s] = row]
             /\ row.status \in Active => IndexAdmits(s)
          \/ scan' = scan
      BY <1>3 DEF StartScan
    <2> QED
      BY <2>1, <2>2, <2>3, OneRowWritten, NoRowWritten
  <1>4. CASE Persist(w) \/ PersistUnanswered(w)
    <2>1. Outcome(w) \in InventoryScan /\ Outcome(w).status \notin Active
      BY DEF Outcome, Failed, InventoryScan
    <2>2. scan' = [scan EXCEPT ![ScanOf(w)] =
                      Flush(scan[ScanOf(w)], mem[w], Outcome(w))]
      BY <1>4 DEF Persist, PersistUnanswered, CommitInventory
    <2> QED
      BY <1>a, <1>4, <2>1, <2>2 DEF Persist, PersistUnanswered
  <1>5. CASE FailWrite(w)
    <2>1. Failed(code[w]) \in InventoryScan
      BY FailedType DEF TypeInv, TypeOK
    <2> QED
      BY <1>a, <1>5, <2>1 DEF FailWrite, Failed
  <1> QED
    BY <1>1, <1>2, <1>3, <1>4, <1>5 DEF WorkerStep

LEMMA OneActiveScanNext ==
    TypeInv /\ OneActiveScan /\ [Next]_vars => OneActiveScan'
  <1> SUFFICES ASSUME TypeInv, OneActiveScan, [Next]_vars
               PROVE  OneActiveScan'
    OBVIOUS
  <1>1. CASE scan' = scan
    BY <1>1, NoRowWritten
  <1>2. CASE \E s \in Scans : RequestStep(s)
    BY <1>2, OneActiveScanRequest
  <1>3. CASE \E w \in Workers : WorkerStep(w)
    BY <1>3, OneActiveScanWorker
  <1>4. \/ scan' = scan
        \/ \E s \in Scans : RequestStep(s)
        \/ \E w \in Workers : WorkerStep(w)
    BY DEF Next, VerifyConnection, ExpireLock, Tick, CheckRequest, ApiCrash,
           WorkerCrash, ChildLost, Take, Redeliver, vars, dbVars
  <1> QED
    BY <1>1, <1>2, <1>3, <1>4

(* A connection never has two active scans, whatever goes wrong and        *)
(* however many requests and workers there are.                            *)
THEOREM OneActiveScanHolds == Spec => []OneActiveScan
  <1>1. Init => OneActiveScan
    BY DEF Init, OneActiveScan, IsActive, NoScan
  <1>2. Spec => [](TypeInv /\ OneActiveScan)
    BY <1>1, TypeInit, TypeNext, OneActiveScanNext, PTL DEF Spec
  <1> QED
    BY <1>2, PTL
-----------------------------------------------------------------------------
(* The rows of the inventory.                                              *)

LEMMA InventoryNext ==
    TypeInv /\ InventoryMatchesAnswers /\ [Next]_vars
        => InventoryMatchesAnswers'
  <1> SUFFICES ASSUME TypeInv, InventoryMatchesAnswers, [Next]_vars
               PROVE  InventoryMatchesAnswers'
    OBVIOUS
  <1>1. CASE UNCHANGED <<rows, observed>>
    BY <1>1 DEF InventoryMatchesAnswers
  <1>2. ASSUME NEW w \in Workers, pc[w] = "persist", CommitInventory(w)
        PROVE  InventoryMatchesAnswers'
    <2> DEFINE d == LockOf(w)
               q == RegionOf[ScanOf(w)]
    <2>1. d \in Connections /\ q \in Regions
      BY <1>2, BusyWorker, ConstantsAssumption
    <2>2. rows' = [rows EXCEPT ![d] = NewRows(w)]
      BY <1>2 DEF CommitInventory
    <2>3. observed' = [observed EXCEPT ![d][q] =
              [t \in Types |-> IF t \in Answered(w) THEN seen[w][t]
                               ELSE observed[d][q][t]]]
      BY <1>2, <2>1 DEF CommitInventory, TypeInv, TypeOK
    <2> SUFFICES ASSUME NEW c \in Connections, NEW k \in Resources
                 PROVE  rows'[c][k] = "active"
                          <=> /\ observed'[c][k.region][k.type] > 0
                              /\ k \in World[observed'[c][k.region][k.type]][c]
      BY DEF InventoryMatchesAnswers
    <2>4. k.region \in Regions /\ k.type \in Types
      BY ConstantsAssumption
    <2>5. rows[c][k] = "active"
            <=> /\ observed[c][k.region][k.type] > 0
                /\ k \in World[observed[c][k.region][k.type]][c]
      BY DEF InventoryMatchesAnswers
    <2>6. CASE c = d /\ InScope(w, k)
      <3>1. observed'[c][k.region][k.type] = seen[w][k.type]
        BY <2>1, <2>3, <2>4, <2>6 DEF InScope, TypeInv, TypeOK
      <3>2. seen[w][k.type] > 0
        BY <2>6 DEF InScope, Answered
      <3>3. rows'[c][k] = NewRows(w)[k]
        BY <2>1, <2>2, <2>6 DEF TypeInv, TypeOK
      <3>4. NewRows(w)[k] = "active" <=> k \in Found(w)
        BY <2>6 DEF NewRows
      <3>5. k \in Found(w) <=> k \in World[seen[w][k.type]][c]
        BY <2>6 DEF Found
      <3> QED
        BY <3>1, <3>2, <3>3, <3>4, <3>5
    <2>7. CASE ~(c = d /\ InScope(w, k))
      <3>1. observed'[c][k.region][k.type] = observed[c][k.region][k.type]
        BY <2>1, <2>3, <2>4, <2>7 DEF InScope, TypeInv, TypeOK
      <3>2. rows'[c][k] = rows[c][k]
        BY <2>1, <2>2, <2>7 DEF NewRows, Found, TypeInv, TypeOK
      <3> QED
        BY <2>5, <3>1, <3>2
    <2> QED
      BY <2>6, <2>7
  <1>3. ASSUME NEW w \in Workers, WorkerStep(w)
        PROVE  \/ UNCHANGED <<rows, observed>>
               \/ pc[w] = "persist" /\ CommitInventory(w)
    BY <1>3
       DEF WorkerStep, LoadScan, AcquireLock, LockUnavailable, PublishRetry,
           ReadScan, RefuseScan, StartScan, CollectService, CollectionRaises,
           Persist, PersistUnanswered, FailRead, FailWrite, ReleaseLock, Ack,
           DatabaseError, dbVars
  <1>4. \/ UNCHANGED <<rows, observed>>
        \/ \E w \in Workers : WorkerStep(w)
    BY DEF Next, VerifyConnection, ExpireLock, Tick, CheckRequest, ApiCrash,
           RequestStep, InsertScan, SendTask, SendRaises, MarkDispatchFailed,
           WorkerCrash, ChildLost, Take, Redeliver, vars, dbVars
  <1> QED
    BY <1>1, <1>2, <1>3, <1>4

(* The active rows are what the last answers for their Region and type     *)
(* named, for any history of the accounts and whatever goes wrong.         *)
THEOREM InventoryHolds == Spec => []InventoryMatchesAnswers
  <1>1. Init => InventoryMatchesAnswers
    BY ConstantsAssumption DEF Init, InventoryMatchesAnswers, Unasked
  <1>2. Spec => [](TypeInv /\ InventoryMatchesAnswers)
    BY <1>1, TypeInit, TypeNext, InventoryNext, PTL DEF Spec
  <1> QED
    BY <1>2, PTL

-----------------------------------------------------------------------------
(* The lock, as long as no scan outlasts it.                               *)

LEMMA LockKept ==
    ASSUME CollectorHoldsLock, lock' = lock,
           \A x \in Workers : pc'[x] \in LockedPCs =>
               pc[x] \in LockedPCs /\ task'[x] = task[x]
    PROVE  CollectorHoldsLock'
  BY DEF CollectorHoldsLock, LockOf

LEMMA LockWorker ==
    ASSUME TypeInv, CollectorHoldsLock, NEW w \in Workers, WorkerStep(w)
    PROVE  CollectorHoldsLock'
  <1> USE DEF LockedPCs
  <1>1. CASE AcquireLock(w)
    <2>1. LockOf(w) \in Connections
      BY <1>1, BusyWorker DEF AcquireLock
    <2>2. /\ lock[LockOf(w)] = Free
          /\ lock' = [lock EXCEPT ![LockOf(w)] = w]
          /\ pc' = [pc EXCEPT ![w] = "read"]
          /\ task' = task
      BY <1>1 DEF AcquireLock, Goto, localVars
    <2> QED
      BY <2>1, <2>2, ConstantsAssumption
         DEF CollectorHoldsLock, LockOf, TypeInv, TypeOK
  <1>2. CASE LockUnavailable(w)
    <2>1. \/ lock' = lock
          \/ lock[LockOf(w)] = Free /\ lock' = [lock EXCEPT ![LockOf(w)] = Orphan]
      BY <1>2 DEF LockUnavailable
    <2>2. /\ \A x \in Workers : pc'[x] \in LockedPCs => pc[x] \in LockedPCs
          /\ task' = task
      BY <1>2 DEF LockUnavailable, Goto, TypeInv, TypeOK
    <2>3. \A x \in Workers : pc[x] \in LockedPCs => LockOf(x) \in Connections
      BY BusyWorker
    <2> QED
      BY <2>1, <2>2, <2>3, ConstantsAssumption
         DEF CollectorHoldsLock, LockOf, TypeInv, TypeOK
  <1>3. CASE ReleaseLock(w)
    <2>1. LockOf(w) \in Connections
      BY <1>3, BusyWorker DEF ReleaseLock
    <2>2. /\ \A x \in Workers : pc'[x] \in LockedPCs =>
                 pc[x] \in LockedPCs /\ x # w
          /\ task' = task
      BY <1>3 DEF ReleaseLock, Goto, TypeInv, TypeOK, localVars
    <2>3. lock' = [lock EXCEPT ![LockOf(w)] =
                      IF lock[LockOf(w)] = w THEN Free ELSE lock[LockOf(w)]]
      BY <1>3 DEF ReleaseLock
    <2> QED
      BY <2>1, <2>2, <2>3 DEF CollectorHoldsLock, LockOf, TypeInv, TypeOK
  <1>4. CASE Ack(w)
    BY <1>4, LockKept DEF Ack, GoIdle, Goto, TypeInv, TypeOK
  <1>5. CASE LoadScan(w) \/ PublishRetry(w) \/ DatabaseError(w)
    BY <1>5, LockKept
       DEF LoadScan, PublishRetry, DatabaseError, Goto, TypeInv, TypeOK,
           localVars
  <1>6. CASE \/ ReadScan(w) \/ RefuseScan(w) \/ StartScan(w)
             \/ \E t \in Types : CollectService(w, t)
             \/ CollectionRaises(w) \/ Persist(w) \/ PersistUnanswered(w)
             \/ FailRead(w) \/ FailWrite(w)
    <2>1. lock' = lock /\ task' = task
      BY <1>6
         DEF ReadScan, RefuseScan, StartScan, CollectService,
             CollectionRaises, Persist, PersistUnanswered, FailRead,
             FailWrite, localVars
    <2>2. \E next : /\ pc' = [pc EXCEPT ![w] = next]
                    /\ next \in LockedPCs => pc[w] \in LockedPCs
      BY <1>6
         DEF ReadScan, RefuseScan, StartScan, CollectService,
             CollectionRaises, Persist, PersistUnanswered, FailRead,
             FailWrite, Goto
    <2> QED
      BY <2>1, <2>2, LockKept DEF TypeInv, TypeOK
  <1> QED
    BY <1>1, <1>2, <1>3, <1>4, <1>5, <1>6 DEF WorkerStep

LEMMA LockNext ==
    ASSUME "slow_task" \notin Faults
    PROVE  TypeInv /\ CollectorHoldsLock /\ [Next]_vars => CollectorHoldsLock'
  <1> SUFFICES ASSUME TypeInv, CollectorHoldsLock, [Next]_vars
               PROVE  CollectorHoldsLock'
    OBVIOUS
  <1>1. CASE UNCHANGED <<lock, pc, task>>
    BY <1>1, LockKept
  <1>2. ASSUME NEW w \in Workers, NEW m \in Messages, Take(w, m)
        PROVE  CollectorHoldsLock'
    BY <1>2, LockKept DEF Take, Goto, LockedPCs, TypeInv, TypeOK
  <1>3. ASSUME NEW w \in Workers, Abandon(w)
        PROVE  CollectorHoldsLock'
    <2>1. \A x \in Workers : pc'[x] \in LockedPCs =>
             x # w /\ pc[x] \in LockedPCs /\ task'[x] = task[x]
      BY <1>3 DEF Abandon, GoIdle, Goto, LockedPCs, TypeInv, TypeOK
    <2>2. \A x \in Workers : pc[x] \in LockedPCs => LockOf(x) \in Connections
      BY BusyWorker DEF LockedPCs
    <2>3. \A c \in Connections : lock[c] # w => lock'[c] = lock[c]
      BY <1>3 DEF Abandon
    <2> QED
      BY <2>1, <2>2, <2>3 DEF CollectorHoldsLock, LockOf
  <1>4. ASSUME NEW c \in Connections, ExpireLock(c)
        PROVE  CollectorHoldsLock'
    <2>1. lock[c] = Orphan /\ lock' = [lock EXCEPT ![c] = Free]
      BY <1>4 DEF ExpireLock, Fault
    <2>2. pc' = pc /\ task' = task
      BY <1>4 DEF ExpireLock, localVars
    <2> QED
      BY <2>1, <2>2, ConstantsAssumption DEF CollectorHoldsLock, LockOf
  <1>5. \/ UNCHANGED <<lock, pc, task>>
        \/ \E w \in Workers : Abandon(w) \/ WorkerStep(w)
        \/ \E w \in Workers, m \in Messages : Take(w, m)
        \/ \E c \in Connections : ExpireLock(c)
    BY DEF Next, VerifyConnection, Tick, CheckRequest, ApiCrash, RequestStep,
           InsertScan, SendTask, SendRaises, MarkDispatchFailed, WorkerCrash,
           ChildLost, Redeliver, vars, localVars
  <1> QED
    BY <1>1, <1>2, <1>3, <1>4, <1>5, LockWorker

(* If no scan outlasts its lock, whoever collects for a connection holds   *)
(* its lock: whatever else goes wrong, there is only one.                  *)
THEOREM LockHolds ==
    ASSUME "slow_task" \notin Faults
    PROVE  Spec => []CollectorHoldsLock
  <1>1. Init => CollectorHoldsLock
    BY DEF Init, CollectorHoldsLock, LockedPCs
  <1>2. Spec => [](TypeInv /\ CollectorHoldsLock)
    BY <1>1, TypeInit, TypeNext, LockNext, PTL DEF Spec
  <1> QED
    BY <1>2, PTL

-----------------------------------------------------------------------------
(* The inventory is never replaced by an older one.                        *)

(* Answers are no older than what they are about to replace, and none is   *)
(* kept from a scan that is over.  The lock makes this inductive: while a  *)
(* worker holds an answer nobody else commits for its connection.          *)
AnswersAreFresh ==
    /\ \A c \in Connections, r \in Regions, t \in Types :
          observed[c][r][t] <= clock
    /\ \A w \in Workers, t \in Types :
          /\ pc[w] \notin {"collect", "persist"} => seen[w][t] = 0
          /\ seen[w][t] <= clock
          /\ seen[w][t] > 0 =>
                observed[LockOf(w)][RegionOf[ScanOf(w)]][t] <= seen[w][t]

FreshInv == TypeInv /\ CollectorHoldsLock /\ AnswersAreFresh

LEMMA FreshInit == Init => AnswersAreFresh
  BY ConstantsAssumption
     DEF Init, AnswersAreFresh, Unasked, TypeInv, TypeOK

(* Steps that commit nothing: each worker keeps its answers and its task,  *)
(* or forgets its answers.                                                 *)
LEMMA FreshKept ==
    ASSUME FreshInv, TypeInv', observed' = observed, clock' >= clock,
           \A x \in Workers :
              \/ seen'[x] = Unasked
              \/ /\ seen'[x] = seen[x] /\ task'[x] = task[x]
                 /\ pc[x] \in {"collect", "persist"} =>
                       pc'[x] \in {"collect", "persist"}
    PROVE  AnswersAreFresh'
  <1>1. \A c \in Connections, r \in Regions, t \in Types :
           observed'[c][r][t] <= clock'
    BY DEF FreshInv, AnswersAreFresh, TypeInv, TypeOK
  <1>2. ASSUME NEW x \in Workers, NEW t \in Types
        PROVE  /\ pc'[x] \notin {"collect", "persist"} => seen'[x][t] = 0
               /\ seen'[x][t] <= clock'
               /\ seen'[x][t] > 0 =>
                     observed'[LockOf(x)'][RegionOf[ScanOf(x)']][t]
                        <= seen'[x][t]
    <2>1. CASE seen'[x] = Unasked
      BY <2>1 DEF Unasked, TypeInv, TypeOK
    <2>2. CASE /\ seen'[x] = seen[x] /\ task'[x] = task[x]
               /\ pc[x] \in {"collect", "persist"} =>
                     pc'[x] \in {"collect", "persist"}
      <3>1. LockOf(x)' = LockOf(x) /\ ScanOf(x)' = ScanOf(x)
        BY <2>2 DEF LockOf, ScanOf
      <3>2. /\ pc[x] \notin {"collect", "persist"} => seen[x][t] = 0
            /\ seen[x][t] <= clock
            /\ seen[x][t] > 0 =>
                  observed[LockOf(x)][RegionOf[ScanOf(x)]][t] <= seen[x][t]
        BY DEF FreshInv, AnswersAreFresh
      <3>3. seen[x][t] \in Nat /\ clock \in Nat /\ clock' \in Nat
        BY ConstantsAssumption DEF FreshInv, TypeInv, TypeOK
      <3> QED
        BY <2>2, <3>1, <3>2, <3>3
    <2> QED
      BY <1>2, <2>1, <2>2
  <1> QED
    BY <1>1, <1>2 DEF AnswersAreFresh, LockOf, ScanOf

(* What a commit may do to the times of the answers.                       *)
LEMMA CommitAdvances ==
    ASSUME FreshInv, NEW w \in Workers, pc[w] = "persist", CommitInventory(w)
    PROVE  \A c \in Connections, r \in Regions, t \in Types :
              /\ observed'[c][r][t] >= observed[c][r][t]
              /\ observed'[c][r][t] <= clock
              /\ c # LockOf(w) => observed'[c][r][t] = observed[c][r][t]
  <1> DEFINE d == LockOf(w)
             q == RegionOf[ScanOf(w)]
  <1>1. d \in Connections /\ q \in Regions
    BY BusyWorker, ConstantsAssumption DEF FreshInv
  <1>2. observed' = [observed EXCEPT ![d][q] =
            [t \in Types |-> IF t \in Answered(w) THEN seen[w][t]
                             ELSE observed[d][q][t]]]
    BY <1>1 DEF CommitInventory, FreshInv, TypeInv, TypeOK
  <1> SUFFICES ASSUME NEW c \in Connections, NEW r \in Regions, NEW t \in Types
               PROVE  /\ observed'[c][r][t] >= observed[c][r][t]
                      /\ observed'[c][r][t] <= clock
                      /\ c # d => observed'[c][r][t] = observed[c][r][t]
    OBVIOUS
  <1>3. observed[c][r][t] \in Nat /\ observed[c][r][t] <= clock
    BY DEF FreshInv, TypeInv, TypeOK, AnswersAreFresh
  <1>4. CASE c = d /\ r = q /\ t \in Answered(w)
    <2>1. observed'[c][r][t] = seen[w][t]
      BY <1>1, <1>2, <1>4 DEF FreshInv, TypeInv, TypeOK
    <2>2. seen[w][t] > 0
      BY <1>4 DEF Answered
    <2>3. seen[w][t] <= clock /\ observed[c][r][t] <= seen[w][t]
      BY <1>4, <2>2 DEF FreshInv, AnswersAreFresh
    <2>4. seen[w][t] \in Nat
      BY DEF FreshInv, TypeInv, TypeOK
    <2> QED
      BY <1>3, <1>4, <2>1, <2>3, <2>4
  <1>5. CASE ~(c = d /\ r = q /\ t \in Answered(w))
    <2>1. observed'[c][r][t] = observed[c][r][t]
      BY <1>1, <1>2, <1>5 DEF FreshInv, TypeInv, TypeOK
    <2> QED
      BY <1>3, <2>1
  <1> QED
    BY <1>4, <1>5

LEMMA FreshCommit ==
    ASSUME FreshInv, TypeInv', NEW w \in Workers,
           Persist(w) \/ PersistUnanswered(w)
    PROVE  AnswersAreFresh'
  <1>1. /\ pc[w] = "persist" /\ CommitInventory(w) /\ CloseSession(w)
        /\ task' = task /\ clock' = clock
        /\ \A x \in Workers : x # w => pc'[x] = pc[x]
    BY DEF Persist, PersistUnanswered, Goto, FreshInv, TypeInv, TypeOK
  <1>2. seen' = [seen EXCEPT ![w] = Unasked]
    BY <1>1 DEF CloseSession
  <1>3. \A c \in Connections, r \in Regions, t \in Types :
           observed'[c][r][t] <= clock'
    BY <1>1, CommitAdvances
  <1>4. ASSUME NEW x \in Workers, NEW t \in Types
        PROVE  /\ pc'[x] \notin {"collect", "persist"} => seen'[x][t] = 0
               /\ seen'[x][t] <= clock'
               /\ seen'[x][t] > 0 =>
                     observed'[LockOf(x)'][RegionOf[ScanOf(x)']][t]
                        <= seen'[x][t]
    <2>1. CASE x = w
      BY <1>2, <2>1, ConstantsAssumption
         DEF Unasked, FreshInv, TypeInv, TypeOK
    <2>2. CASE x # w
      <3>1. /\ pc'[x] = pc[x] /\ seen'[x] = seen[x]
            /\ LockOf(x)' = LockOf(x) /\ ScanOf(x)' = ScanOf(x)
        BY <1>1, <1>2, <2>2 DEF LockOf, ScanOf, FreshInv, TypeInv, TypeOK
      <3>2. /\ pc[x] \notin {"collect", "persist"} => seen[x][t] = 0
            /\ seen[x][t] <= clock
            /\ seen[x][t] > 0 =>
                  observed[LockOf(x)][RegionOf[ScanOf(x)]][t] <= seen[x][t]
        BY DEF FreshInv, AnswersAreFresh
      <3>3. ASSUME seen[x][t] > 0
            PROVE  observed'[LockOf(x)][RegionOf[ScanOf(x)]][t]
                      = observed[LockOf(x)][RegionOf[ScanOf(x)]][t]
        <4>1. pc[x] \in {"collect", "persist"}
          BY <3>2, <3>3 DEF FreshInv, TypeInv, TypeOK
        <4>2. lock[LockOf(x)] = x /\ lock[LockOf(w)] = w
          BY <1>1, <4>1 DEF FreshInv, CollectorHoldsLock, LockedPCs
        <4>3. LockOf(x) \in Connections /\ RegionOf[ScanOf(x)] \in Regions
          BY <4>1, BusyWorker, ConstantsAssumption DEF FreshInv
        <4> QED
          BY <1>1, <2>2, <4>2, <4>3, CommitAdvances
      <3> QED
        BY <1>1, <3>1, <3>2, <3>3
    <2> QED
      BY <2>1, <2>2
  <1> QED
    BY <1>3, <1>4 DEF AnswersAreFresh, LockOf, ScanOf

LEMMA FreshCollect ==
    ASSUME FreshInv, TypeInv', NEW w \in Workers, NEW s \in Types,
           CollectService(w, s)
    PROVE  AnswersAreFresh'
  <1>1. PICK answer \in {0, clock} : seen' = [seen EXCEPT ![w][s] = answer]
    BY DEF CollectService
  <1>2. /\ task' = task /\ clock' = clock /\ observed' = observed
        /\ pc[w] = "collect" /\ pc'[w] \in {"collect", "persist"}
        /\ \A x \in Workers : x # w => pc'[x] = pc[x]
    BY DEF CollectService, Goto, dbVars, FreshInv, TypeInv, TypeOK
  <1>3. clock \in Nat
    BY DEF FreshInv, TypeInv, TypeOK
  <1>4. ASSUME NEW x \in Workers, NEW t \in Types
        PROVE  /\ pc'[x] \notin {"collect", "persist"} => seen'[x][t] = 0
               /\ seen'[x][t] <= clock'
               /\ seen'[x][t] > 0 =>
                     observed'[LockOf(x)'][RegionOf[ScanOf(x)']][t]
                        <= seen'[x][t]
    <2>1. LockOf(x)' = LockOf(x) /\ ScanOf(x)' = ScanOf(x)
      BY <1>2 DEF LockOf, ScanOf
    <2>2. /\ pc[x] \notin {"collect", "persist"} => seen[x][t] = 0
          /\ seen[x][t] <= clock
          /\ seen[x][t] > 0 =>
                observed[LockOf(x)][RegionOf[ScanOf(x)]][t] <= seen[x][t]
      BY DEF FreshInv, AnswersAreFresh
    <2>3. CASE x = w /\ t = s
      <3>1. seen'[x][t] = answer
        BY <1>1, <2>3 DEF FreshInv, TypeInv, TypeOK
      <3>2. LockOf(w) \in Connections /\ RegionOf[ScanOf(w)] \in Regions
        BY <1>2, BusyWorker, ConstantsAssumption DEF FreshInv
      <3>3. observed[LockOf(w)][RegionOf[ScanOf(w)]][s] <= clock
        BY <3>2 DEF FreshInv, AnswersAreFresh
      <3> QED
        BY <1>2, <1>3, <2>1, <2>3, <3>1, <3>3
    <2>4. CASE ~(x = w /\ t = s)
      <3>1. seen'[x][t] = seen[x][t]
        BY <1>1, <2>4 DEF FreshInv, TypeInv, TypeOK
      <3> QED
        BY <1>2, <2>1, <2>2, <3>1
    <2> QED
      BY <2>3, <2>4
  <1> QED
    BY <1>2, <1>4 DEF AnswersAreFresh, FreshInv, LockOf, ScanOf

LEMMA FreshNext == FreshInv /\ TypeInv' /\ [Next]_vars => AnswersAreFresh'
  <1> SUFFICES ASSUME FreshInv, TypeInv', [Next]_vars
               PROVE  AnswersAreFresh'
    OBVIOUS
  <1>a. clock \in Nat /\ \A w \in Workers : pc[w] = "start" => seen[w] = Unasked
    <2>1. \A w \in Workers : pc[w] = "start" =>
             \A t \in Types : seen[w][t] = 0
      BY DEF FreshInv, AnswersAreFresh
    <2> QED
      BY <2>1 DEF Unasked, FreshInv, TypeInv, TypeOK
  <1>1. ASSUME NEW w \in Workers, WorkerStep(w) PROVE AnswersAreFresh'
    <2>1. CASE Persist(w) \/ PersistUnanswered(w)
      BY <2>1, FreshCommit
    <2>2. CASE \E t \in Types : CollectService(w, t)
      BY <2>2, FreshCollect
    <2>3. CASE \/ RefuseScan(w) \/ CollectionRaises(w) \/ FailWrite(w)
               \/ DatabaseError(w) \/ Ack(w)
      <3>1. /\ \A x \in Workers :
                   \/ x = w /\ seen'[x] = Unasked
                   \/ seen'[x] = seen[x] /\ task'[x] = task[x] /\ pc'[x] = pc[x]
            /\ observed' = observed /\ clock' = clock
        BY <2>3
           DEF RefuseScan, CollectionRaises, FailWrite, DatabaseError, Ack,
               GoIdle, CloseSession, Goto, dbVars, FreshInv, TypeInv, TypeOK
      <3> QED
        BY <1>a, <3>1, FreshKept
    <2>4. CASE StartScan(w)
      <3>1. /\ \A x \in Workers :
                   \/ x = w /\ (seen'[x] = Unasked \/ seen'[x] = seen[x])
                   \/ seen'[x] = seen[x] /\ task'[x] = task[x] /\ pc'[x] = pc[x]
            /\ observed' = observed /\ clock' = clock /\ pc[w] = "start"
        BY <2>4
           DEF StartScan, CloseSession, Goto, FreshInv, TypeInv, TypeOK
      <3> QED
        BY <1>a, <3>1, FreshKept
    <2>5. CASE \/ LoadScan(w) \/ AcquireLock(w) \/ LockUnavailable(w)
               \/ PublishRetry(w) \/ ReadScan(w) \/ FailRead(w)
               \/ ReleaseLock(w)
      <3>1. /\ seen' = seen /\ task' = task
            /\ observed' = observed /\ clock' = clock
            /\ pc[w] \notin {"collect", "persist"}
            /\ \A x \in Workers : x # w => pc'[x] = pc[x]
        BY <2>5
           DEF LoadScan, AcquireLock, LockUnavailable, PublishRetry, ReadScan,
               FailRead, ReleaseLock, Goto, dbVars, localVars, FreshInv,
               TypeInv, TypeOK
      <3> QED
        BY <1>a, <3>1, FreshKept
    <2> QED
      BY <1>1, <2>1, <2>2, <2>3, <2>4, <2>5 DEF WorkerStep
  <1>2. ASSUME NEW w \in Workers, NEW m \in Messages, Take(w, m)
        PROVE  AnswersAreFresh'
    <2>1. pc[w] = "idle" /\ \A t \in Types : seen[w][t] = 0
      BY <1>2 DEF Take, FreshInv, AnswersAreFresh
    <2>2. /\ seen' = seen /\ observed' = observed /\ clock' = clock
          /\ \A x \in Workers : x # w =>
                pc'[x] = pc[x] /\ task'[x] = task[x]
      BY <1>2 DEF Take, Goto, dbVars, FreshInv, TypeInv, TypeOK
    <2>3. seen[w] = Unasked
      BY <2>1 DEF Unasked, FreshInv, TypeInv, TypeOK
    <2> QED
      BY <1>a, <2>2, <2>3, FreshKept
  <1>3. ASSUME NEW w \in Workers, WorkerCrash(w) \/ ChildLost(w)
        PROVE  AnswersAreFresh'
    <2>1. /\ \A x \in Workers :
                 \/ x = w /\ seen'[x] = Unasked
                 \/ seen'[x] = seen[x] /\ task'[x] = task[x] /\ pc'[x] = pc[x]
          /\ observed' = observed /\ clock' = clock
      BY <1>3
         DEF WorkerCrash, ChildLost, Abandon, GoIdle, CloseSession, Goto,
             dbVars, FreshInv, TypeInv, TypeOK
    <2> QED
      BY <1>a, <2>1, FreshKept
  <1>4. CASE UNCHANGED <<observed, seen, task, pc>> /\ clock' >= clock
    BY <1>4, FreshKept
  <1>5. \/ UNCHANGED <<observed, seen, task, pc>> /\ clock' >= clock
        \/ \E w \in Workers : WorkerStep(w) \/ WorkerCrash(w) \/ ChildLost(w)
        \/ \E w \in Workers, m \in Messages : Take(w, m)
    BY <1>a
       DEF Next, VerifyConnection, ExpireLock, Tick, CheckRequest, ApiCrash,
           RequestStep, InsertScan, SendTask, SendRaises, MarkDispatchFailed,
           Redeliver, vars, dbVars, localVars
  <1> QED
    BY <1>1, <1>2, <1>3, <1>4, <1>5

(* Under the same assumption as the lock, no persisted answer is ever      *)
(* replaced by an older one.                                               *)
THEOREM NeverOlder ==
    ASSUME "slow_task" \notin Faults
    PROVE  Spec => NeverOlderInventory
  <1>1. Init => FreshInv
    BY TypeInit, FreshInit DEF FreshInv, Init, CollectorHoldsLock, LockedPCs
  <1>2. FreshInv /\ [Next]_vars => FreshInv'
    BY TypeNext, LockNext, FreshNext DEF FreshInv
  <1>3. FreshInv /\ [Next]_vars =>
           [\A c \in Connections, r \in Regions, t \in Types :
               observed'[c][r][t] >= observed[c][r][t]]_vars
    <2> SUFFICES ASSUME FreshInv, Next
                 PROVE  \A c \in Connections, r \in Regions, t \in Types :
                           observed'[c][r][t] >= observed[c][r][t]
      OBVIOUS
    <2>1. CASE observed' = observed
      BY <2>1 DEF FreshInv, TypeInv, TypeOK
    <2>2. \/ observed' = observed
          \/ \E w \in Workers : pc[w] = "persist" /\ CommitInventory(w)
      <3>1. ASSUME NEW w \in Workers, WorkerStep(w)
            PROVE  \/ observed' = observed
                   \/ pc[w] = "persist" /\ CommitInventory(w)
        BY <3>1
           DEF WorkerStep, LoadScan, AcquireLock, LockUnavailable,
               PublishRetry, ReadScan, RefuseScan, StartScan, CollectService,
               CollectionRaises, Persist, PersistUnanswered, FailRead,
               FailWrite, ReleaseLock, Ack, DatabaseError, dbVars
      <3> QED
        BY <3>1
           DEF Next, VerifyConnection, ExpireLock, Tick, CheckRequest,
               ApiCrash, RequestStep, InsertScan, SendTask, SendRaises,
               MarkDispatchFailed, WorkerCrash, ChildLost, Take, Redeliver,
               dbVars
    <2> QED
      BY <2>1, <2>2, CommitAdvances
  <1> QED
    BY <1>1, <1>2, <1>3, PTL DEF Spec, NeverOlderInventory

-----------------------------------------------------------------------------
(* Who drives a scan, as long as the broker neither delivers twice nor     *)
(* takes a message that it seems to refuse: first the request, then one    *)
(* message after the other, each in the hands of one worker at a time.     *)

Pending == ready \cup unacked

(* The next attempt of m is published; its worker has only to acknowledge. *)
Spent(m) == \E w \in Workers : task[w] = m /\ pc[w] = "retried"

Requests ==
    \A s \in Scans :
        /\ request[s] \in {"idle", "insert"} => scan[s].status = "ABSENT"
        /\ request[s] \in {"send", "mark"} => scan[s].status = "QUEUED"
        /\ request[s] # "done" => \A m \in Pending : m.scan # s

Deliveries ==
    /\ ready \cap unacked = {}
    /\ \A w \in Workers : pc[w] # "idle" => task[w] \in unacked
    /\ \A w, v \in Workers : task[w] = task[v] /\ pc[w] # "idle" => w = v
    /\ \A m \in Pending : scan[m.scan].status # "ABSENT"
    /\ \A m, n \in Pending : m.scan = n.scan /\ m.retries < n.retries => Spent(m)

(* What was active when it was looked at still is: nobody else drives it.  *)
Starting(w) == pc[w] \in {"acquire", "read", "start"}

StillActive == \A w \in Workers : Starting(w) => IsActive(ScanOf(w))

OneDriver == Requests /\ Deliveries /\ StillActive

DriverInv == TypeInv /\ OneDriver

(* Two messages of a scan that neither is spent are the same.              *)
LEMMA OneMessage ==
    ASSUME TypeInv, Deliveries, NEW m \in Pending, NEW n \in Pending,
           m.scan = n.scan, ~Spent(m), ~Spent(n)
    PROVE  m = n
  <1>1. m \in Messages /\ n \in Messages
    BY DEF TypeInv, TypeOK, Pending
  <1>2. m.retries \in Int /\ n.retries \in Int
    BY <1>1, ConstantsAssumption DEF Messages
  <1>3. m.retries = n.retries
    BY <1>2 DEF Deliveries
  <1> QED BY <1>1, <1>3 DEF Messages

(* So a scan has one worker that is not about to acknowledge a spent       *)
(* message.                                                                *)
LEMMA OneWorker ==
    ASSUME TypeInv, Deliveries, NEW w \in Workers, NEW v \in Workers,
           pc[w] \notin {"idle", "retried"}, pc[v] \notin {"idle", "retried"},
           ScanOf(w) = ScanOf(v)
    PROVE  w = v
  <1>1. task[w] \in Pending /\ task[v] \in Pending
    BY DEF Deliveries, Pending
  <1>2. ~Spent(task[w]) /\ ~Spent(task[v])
    BY DEF Spent, Deliveries
  <1>3. task[w] = task[v]
    BY <1>1, <1>2, OneMessage DEF ScanOf
  <1> QED BY <1>3 DEF Deliveries

(* While a message is pending its request is over.                         *)
LEMMA RequestOver ==
    ASSUME Requests, Deliveries, NEW w \in Workers, pc[w] # "idle",
           ScanOf(w) \in Scans
    PROVE  request[ScanOf(w)] = "done"
  BY DEF Requests, Deliveries, Pending, ScanOf

LEMMA DriverInit == Init => OneDriver
  BY DEF Init, OneDriver, Requests, Deliveries, StillActive, Starting, Pending,
         Spent, NoScan

(* A worker goes on with its message: at most it writes its own scan.      *)
Moves(w) ==
    /\ pc[w] \notin {"idle", "retried"}
    /\ \E next \in WorkerPCs \ {"idle", "retried"} : Goto(w, next)
    /\ UNCHANGED <<request, ready, unacked, task>>
    /\ \A z \in Scans : z # ScanOf(w) => scan'[z] = scan[z]
    /\ scan[ScanOf(w)].status # "ABSENT" => scan'[ScanOf(w)].status # "ABSENT"
    /\ Starting(w)' => IsActive(ScanOf(w))'

LEMMA MoveKeeps ==
    ASSUME DriverInv, TypeInv', NEW w \in Workers, Moves(w)
    PROVE  OneDriver'
  <1> USE DEF DriverInv, OneDriver
  <1>1. /\ ScanOf(w) \in Scans
        /\ request[ScanOf(w)] = "done"
    BY BusyWorker, RequestOver DEF Moves
  <1>2. /\ \A x \in Workers \ {w} : pc'[x] = pc[x]
        /\ pc'[w] \notin {"idle", "retried"}
        /\ \A x \in Workers : ScanOf(x)' = ScanOf(x)
    BY DEF Moves, Goto, TypeInv, TypeOK, ScanOf
  <1>3. Pending' = Pending /\ \A m : Spent(m)' <=> Spent(m)
    BY <1>2 DEF Moves, Pending, Spent
  <1>4. Requests'
    BY <1>1, <1>3 DEF Requests, Moves
  <1>5. Deliveries'
    <2>1. \A m \in Pending : m.scan \in Scans
      BY DEF Pending, TypeInv, TypeOK, Messages
    <2>2. \A m \in Pending : scan'[m.scan].status # "ABSENT"
      BY <2>1 DEF Deliveries, Moves
    <2>3. /\ task' = task /\ ready' = ready /\ unacked' = unacked
          /\ \A x \in Workers : pc'[x] # "idle" <=> pc[x] # "idle"
      BY <1>2 DEF Moves
    <2> QED BY <1>3, <2>2, <2>3 DEF Deliveries
  <1>6. StillActive'
    <2> SUFFICES ASSUME NEW x \in Workers, Starting(x)' PROVE IsActive(ScanOf(x))'
      BY DEF StillActive
    <2>1. CASE x = w
      BY <2>1 DEF Moves
    <2>2. CASE x # w
      <3>1. Starting(x) /\ pc[x] \notin {"idle", "retried"}
        BY <1>2, <2>2 DEF Starting
      <3>2. ScanOf(x) # ScanOf(w) /\ ScanOf(x) \in Scans
        BY <2>2, <3>1, OneWorker, BusyWorker DEF Moves
      <3> QED BY <1>2, <3>1, <3>2 DEF StillActive, Moves, IsActive
    <2> QED BY <2>1, <2>2
  <1> QED BY <1>4, <1>5, <1>6

(* A flush to an existing row never makes it absent.                       *)
LEMMA FlushExists ==
    ASSUME NEW row, NEW loaded, NEW set,
           row.status # "ABSENT", set.status # "ABSENT"
    PROVE  Flush(row, loaded, set).status # "ABSENT"
  BY DEF Flush

(* The steps that only move.                                               *)
LEMMA MovingIsMoves ==
    ASSUME DriverInv, NEW w \in Workers,
           \/ LoadScan(w) \/ AcquireLock(w) \/ LockUnavailable(w)
           \/ ReadScan(w) \/ \E t \in Types : CollectService(w, t)
           \/ CollectionRaises(w) \/ FailRead(w) \/ ReleaseLock(w)
           \/ DatabaseError(w)
    PROVE  Moves(w)
  <1> USE DEF DriverInv
  <1>1. /\ UNCHANGED <<scan, request, ready, unacked, task>>
        /\ pc[w] \notin {"idle", "retried"}
    BY DEF LoadScan, AcquireLock, LockUnavailable, ReadScan, CollectService,
           CollectionRaises, FailRead, ReleaseLock, DatabaseError, dbVars,
           brokerVars, localVars
  <1>2. PICK next \in WorkerPCs \ {"idle", "retried"} :
           /\ Goto(w, next)
           /\ next \in {"acquire", "read", "start"}
                 => IsActive(ScanOf(w)) \/ pc[w] \in {"acquire", "read"}
    BY DEF LoadScan, AcquireLock, LockUnavailable, ReadScan, CollectService,
           CollectionRaises, FailRead, ReleaseLock, DatabaseError, IsRunnable,
           WorkerPCs, LockedPCs
  <1>3. Starting(w)' => IsActive(ScanOf(w))
    BY <1>2 DEF Goto, Starting, OneDriver, StillActive, TypeInv, TypeOK
  <1>4. Starting(w)' => IsActive(ScanOf(w))'
    BY <1>1, <1>3 DEF IsActive, ScanOf
  <1> QED BY <1>1, <1>2, <1>4 DEF Moves

(* The steps that write the scan they work on.                             *)
Writes(w) ==
    \E set \in InventoryScan :
        /\ set.status # "ABSENT"
        /\ scan' = [scan EXCEPT ![ScanOf(w)] = Flush(scan[ScanOf(w)], mem[w], set)]

LEMMA WritesWhat ==
    ASSUME TypeInv, NEW w \in Workers
    PROVE  /\ RefuseScan(w) \/ Persist(w) \/ PersistUnanswered(w) \/ FailWrite(w)
                => Writes(w)
           /\ StartScan(w) => Writes(w) \/ scan' = scan
  <1>1. ASSUME RefuseScan(w) PROVE Writes(w)
    BY <1>1, FailedType DEF RefuseScan, Writes, Failed
  <1>2. ASSUME Persist(w) \/ PersistUnanswered(w) PROVE Writes(w)
    <2>1. Outcome(w) \in InventoryScan /\ Outcome(w).status # "ABSENT"
      BY DEF Outcome, Failed, InventoryScan
    <2> QED BY <1>2, <2>1 DEF Persist, PersistUnanswered, CommitInventory, Writes
  <1>3. ASSUME FailWrite(w) PROVE Writes(w)
    <2>1. code[w] \in Errors
      BY DEF TypeInv, TypeOK
    <2> QED BY <1>3, <2>1, FailedType DEF FailWrite, Writes, Failed
  <1>4. ASSUME StartScan(w) PROVE Writes(w) \/ scan' = scan
    <2> DEFINE running == [mem[w] EXCEPT !.status = "RUNNING"]
    <2>1. running \in InventoryScan /\ running.status # "ABSENT"
      BY DEF TypeInv, TypeOK, InventoryScan
    <2> QED BY <1>4, <2>1 DEF StartScan, Writes
  <1> QED BY <1>1, <1>2, <1>3, <1>4

LEMMA WritingIsMoves ==
    ASSUME DriverInv, NEW w \in Workers,
           \/ RefuseScan(w) \/ StartScan(w) \/ Persist(w) \/ PersistUnanswered(w)
           \/ FailWrite(w)
    PROVE  Moves(w)
  <1> USE DEF DriverInv
  <1>1. /\ UNCHANGED <<request, ready, unacked, task>>
        /\ pc[w] \notin {"idle", "retried"}
    BY DEF RefuseScan, StartScan, Persist, PersistUnanswered, FailWrite,
           brokerVars, CloseSession
  <1>2. PICK next \in WorkerPCs \ {"idle", "retried", "acquire", "read", "start"} :
           Goto(w, next)
    BY DEF RefuseScan, StartScan, Persist, PersistUnanswered, FailWrite,
           WorkerPCs, LockedPCs
  <1>3. ~Starting(w)'
    BY <1>2 DEF Goto, Starting, TypeInv, TypeOK
  <1>4. ScanOf(w) \in Scans
    BY <1>1, BusyWorker
  <1>5. CASE scan' = scan
    BY <1>1, <1>2, <1>3, <1>5 DEF Moves
  <1>6. CASE Writes(w)
    <2>1. PICK set \in InventoryScan :
             /\ set.status # "ABSENT"
             /\ scan' = [scan EXCEPT ![ScanOf(w)] = Flush(scan[ScanOf(w)], mem[w], set)]
      BY <1>6 DEF Writes
    <2>2. /\ \A z \in Scans : z # ScanOf(w) => scan'[z] = scan[z]
          /\ scan'[ScanOf(w)] = Flush(scan[ScanOf(w)], mem[w], set)
      BY <1>4, <2>1 DEF TypeInv, TypeOK
    <2>3. scan[ScanOf(w)].status # "ABSENT" => scan'[ScanOf(w)].status # "ABSENT"
      BY <2>1, <2>2, FlushExists
    <2> QED BY <1>1, <1>2, <1>3, <2>2, <2>3 DEF Moves
  <1> QED BY <1>5, <1>6, WritesWhat

(* task.retry publishes the next attempt of a message, which is then spent.*)
LEMMA PublishKeeps ==
    ASSUME DriverInv, TypeInv', NEW w \in Workers, PublishRetry(w)
    PROVE  OneDriver'
  <1> DEFINE m == task[w]
             n == [scan |-> ScanOf(w), retries |-> m.retries + 1]
  <1> USE DEF DriverInv, OneDriver
  <1>1. /\ pc[w] = "retry" /\ m \in Messages /\ ScanOf(w) \in Scans
        /\ m.retries \in Int
        /\ ready' = ready \cup {n} /\ unacked' = unacked
        /\ pc' = [pc EXCEPT ![w] = "retried"]
        /\ UNCHANGED <<scan, request, task>>
    BY BusyWorker, ConstantsAssumption
       DEF PublishRetry, Goto, dbVars, localVars, Messages
  <1>2. /\ m \in unacked /\ m \in Pending /\ ~Spent(m)
        /\ request[ScanOf(w)] = "done"
    BY <1>1, RequestOver DEF Deliveries, Spent, Pending
  <1>3. n \in Messages /\ n.scan = m.scan /\ n.retries = m.retries + 1
    BY <1>1, ConstantsAssumption DEF ScanOf, TypeInv, RetryFits, Messages
  <1> HIDE DEF n
  <1>4. n \notin Pending
    BY <1>1, <1>2, <1>3 DEF Deliveries
  <1>5. /\ Pending' = Pending \cup {n}
        /\ \A x : Spent(x) => Spent(x)'
    BY <1>1 DEF Pending, Spent, TypeInv, TypeOK
  <1>6. Requests'
    BY <1>1, <1>2, <1>3, <1>5 DEF Requests, ScanOf
  <1>7. \A x, y \in Pending' : x.scan = y.scan /\ x.retries < y.retries => Spent(x)'
    <2> SUFFICES ASSUME NEW x \in Pending', NEW y \in Pending', x.scan = y.scan,
                        x.retries < y.retries
                 PROVE  Spent(x)'
      OBVIOUS
    <2>1. x \in Messages /\ y \in Messages
      BY <1>3, <1>5 DEF Pending, TypeInv, TypeOK
    <2>2. x.retries \in Int /\ y.retries \in Int
      BY <2>1, ConstantsAssumption DEF Messages
    <2>3. CASE x \in Pending /\ y \in Pending
      BY <1>5, <2>3 DEF Deliveries
    <2>4. CASE x = n
      <3>1. y \in Pending /\ m.retries < y.retries /\ m.scan = y.scan
        BY <1>1, <1>3, <1>5, <2>2, <2>4
      <3> QED BY <1>2, <3>1 DEF Deliveries
    <2>5. CASE x \in Pending /\ y = n
      <3>1. CASE Spent(x)
        BY <1>5, <3>1
      <3>2. CASE ~Spent(x)
        <4>1. x.scan = m.scan
          BY <1>3, <2>5
        <4>2. TypeInv /\ Deliveries /\ m \in Pending /\ ~Spent(m)
          BY <1>2
        <4>3. x = m
          BY <2>5, <3>2, <4>1, <4>2, OneMessage
        <4> QED BY <1>1, <4>3 DEF Spent, TypeInv, TypeOK
      <3> QED BY <3>1, <3>2
    <2> QED BY <1>5, <2>3, <2>4, <2>5
  <1>8. Deliveries'
    <2>1. \A x \in Workers : pc'[x] # "idle" <=> pc[x] # "idle"
      BY <1>1 DEF TypeInv, TypeOK
    <2>2. ready' \cap unacked' = {}
      BY <1>1, <1>4 DEF Deliveries, Pending
    <2>3. \A x \in Pending' : scan'[x.scan].status # "ABSENT"
      BY <1>1, <1>2, <1>3, <1>5 DEF Deliveries
    <2> QED BY <1>1, <1>7, <2>1, <2>2, <2>3 DEF Deliveries
  <1>9. StillActive'
    BY <1>1 DEF StillActive, Starting, IsActive, ScanOf, TypeInv, TypeOK
  <1> QED BY <1>6, <1>8, <1>9

(* A worker that leaves its message, acknowledged or not: what is left is  *)
(* pending as before.                                                      *)
Leaves(w) ==
    /\ pc[w] # "idle"
    /\ pc' = [pc EXCEPT ![w] = "idle"]
    /\ task' = [task EXCEPT ![w] = NoTask]
    /\ UNCHANGED <<scan, request, ready>>
    /\ \/ unacked' = unacked \ {task[w]}
       \/ unacked' = unacked /\ pc[w] # "retried"

LEMMA LeaveKeeps ==
    ASSUME DriverInv, NEW w \in Workers, Leaves(w)
    PROVE  OneDriver'
  <1> USE DEF DriverInv, OneDriver
  <1>1. /\ \A x \in Workers \ {w} : pc'[x] = pc[x] /\ task'[x] = task[x]
        /\ pc'[w] = "idle" /\ task'[w] = NoTask
        /\ Pending' \subseteq Pending
    BY DEF Leaves, Pending, TypeInv, TypeOK
  <1>2. \A m \in Pending' : Spent(m) => Spent(m)'
    <2> SUFFICES ASSUME NEW m \in Pending', Spent(m) PROVE Spent(m)'
      OBVIOUS
    <2>1. PICK x \in Workers : task[x] = m /\ pc[x] = "retried"
      BY DEF Spent
    <2>2. CASE x # w
      BY <1>1, <2>1, <2>2 DEF Spent
    <2>3. CASE x = w
      <3>1. unacked' = unacked \ {m} /\ ready' = ready /\ m \in unacked
        BY <2>1, <2>3 DEF Leaves, Deliveries
      <3> QED BY <3>1 DEF Pending, Deliveries
    <2> QED BY <2>2, <2>3
  <1>3. Requests'
    BY <1>1 DEF Requests, Leaves
  <1>4. Deliveries'
    <2>1. ready' \cap unacked' = {}
      BY DEF Leaves, Deliveries
    <2>2. \A x \in Workers : pc'[x] # "idle" => task'[x] \in unacked'
      BY <1>1 DEF Leaves, Deliveries
    <2>3. \A x, v \in Workers : task'[x] = task'[v] /\ pc'[x] # "idle" => x = v
      BY <1>1 DEF Deliveries, TypeInv, TypeOK
    <2>4. \A m \in Pending' : scan'[m.scan].status # "ABSENT"
      BY <1>1 DEF Leaves, Deliveries
    <2>5. \A m, n \in Pending' : m.scan = n.scan /\ m.retries < n.retries => Spent(m)'
      BY <1>1, <1>2 DEF Deliveries
    <2> QED BY <2>1, <2>2, <2>3, <2>4, <2>5 DEF Deliveries
  <1>5. StillActive'
    BY <1>1 DEF StillActive, Starting, IsActive, ScanOf, Leaves
  <1> QED BY <1>3, <1>4, <1>5

LEMMA LeavingIsLeaves ==
    ASSUME "duplicate" \notin Faults, NEW w \in Workers,
           Ack(w) \/ WorkerCrash(w) \/ ChildLost(w)
    PROVE  Leaves(w)
  BY DEF Ack, WorkerCrash, ChildLost, Abandon, GoIdle, Goto, Leaves, dbVars, brokerVars

(* The broker delivers and takes back.                                     *)
LEMMA TakeKeeps ==
    ASSUME DriverInv, NEW w \in Workers, NEW m \in Messages, Take(w, m)
    PROVE  OneDriver'
  <1> USE DEF DriverInv, OneDriver
  <1>1. /\ pc[w] = "idle" /\ task[w] = NoTask /\ m \in ready
        /\ ready' = ready \ {m} /\ unacked' = unacked \cup {m}
        /\ \A x \in Workers \ {w} : pc'[x] = pc[x] /\ task'[x] = task[x]
        /\ pc'[w] = "load" /\ task'[w] = m
        /\ UNCHANGED <<scan, request>>
    BY DEF Take, Goto, dbVars, TypeInv, TypeOK
  <1>2. Pending' = Pending
    BY <1>1 DEF Pending
  <1>3. \A x : Spent(x) => Spent(x)'
    BY <1>1 DEF Spent
  <1>4. Requests'
    BY <1>1, <1>2 DEF Requests
  <1>5. Deliveries'
    <2>1. ready' \cap unacked' = {}
      BY <1>1 DEF Deliveries
    <2>2. \A x \in Workers : pc'[x] # "idle" => task'[x] \in unacked'
      BY <1>1 DEF Deliveries
    <2>3. \A x \in Workers \ {w} : task[x] # m
      BY <1>1, ConstantsAssumption DEF Deliveries, TypeInv, TypeOK
    <2>4. \A x, v \in Workers : task'[x] = task'[v] /\ pc'[x] # "idle" => x = v
      BY <1>1, <2>3 DEF Deliveries
    <2> QED BY <1>1, <1>2, <1>3, <2>1, <2>2, <2>4 DEF Deliveries
  <1>6. StillActive'
    BY <1>1 DEF StillActive, Starting, IsActive, ScanOf
  <1> QED BY <1>4, <1>5, <1>6

LEMMA RedeliverKeeps ==
    ASSUME "duplicate" \notin Faults, DriverInv, NEW m \in Messages, Redeliver(m)
    PROVE  OneDriver'
  <1> USE DEF DriverInv, OneDriver
  <1>1. /\ m \in unacked /\ \A x \in Workers : task[x] # m
        /\ ready' = ready \cup {m} /\ unacked' = unacked \ {m}
        /\ UNCHANGED <<scan, request, pc, task>>
    BY DEF Redeliver, Fault, dbVars, localVars
  <1>2. Pending' = Pending /\ \A x : Spent(x)' <=> Spent(x)
    BY <1>1 DEF Pending, Spent
  <1>3. Requests'
    BY <1>1, <1>2 DEF Requests
  <1>4. Deliveries'
    BY <1>1, <1>2 DEF Deliveries
  <1>5. StillActive'
    BY <1>1 DEF StillActive, Starting, IsActive, ScanOf
  <1> QED BY <1>3, <1>4, <1>5

(* A request owns its scan until it has sent it.                           *)
LEMMA RequestKeeps ==
    ASSUME "lost_reply" \notin Faults, DriverInv, NEW s \in Scans,
           CheckRequest(s) \/ RequestStep(s) \/ ApiCrash(s)
    PROVE  OneDriver'
  <1> USE DEF DriverInv, OneDriver
  <1>1. request[s] # "done"
    BY DEF CheckRequest, RequestStep, ApiCrash, InsertScan, SendTask, SendRaises,
           MarkDispatchFailed
  <1>2. /\ \A m \in Pending : m.scan # s
        /\ \A w \in Workers : pc[w] # "idle" => ScanOf(w) # s
    BY <1>1 DEF Requests, Deliveries, Pending, ScanOf
  <1>3. /\ UNCHANGED <<unacked, pc, task>>
        /\ \A z \in Scans \ {s} : scan'[z] = scan[z] /\ request'[z] = request[z]
    BY DEF CheckRequest, RequestStep, ApiCrash, InsertScan, SendTask, SendRaises,
           MarkDispatchFailed, dbVars, brokerVars, localVars, TypeInv, TypeOK
  <1>4. StillActive'
    <2> SUFFICES ASSUME NEW w \in Workers, Starting(w) PROVE IsActive(ScanOf(w))'
      BY <1>3 DEF StillActive, Starting
    <2>1. ScanOf(w) \in Scans \ {s} /\ ScanOf(w)' = ScanOf(w)
      BY <1>2, <1>3, BusyWorker DEF Starting, ScanOf
    <2> QED BY <1>3, <2>1 DEF StillActive, IsActive
  <1>5. \A m \in Pending : m.scan \in Scans
    BY DEF Pending, TypeInv, TypeOK, Messages
  <1>6. CASE SendTask(s)
    <2> DEFINE n == [scan |-> s, retries |-> 0]
    <2>1. /\ ready' = ready \cup {n}
          /\ request[s] = "send" /\ request'[s] = "done"
          /\ scan' = scan
      BY <1>6 DEF SendTask, Fault, dbVars, TypeInv, TypeOK
    <2>2. n.scan = s
      OBVIOUS
    <2> HIDE DEF n
    <2>3. n \notin Pending /\ Pending' = Pending \cup {n}
      BY <1>2, <1>3, <2>1, <2>2 DEF Pending
    <2>4. \A m : Spent(m)' <=> Spent(m)
      BY <1>3 DEF Spent
    <2>5. Requests'
      BY <1>2, <1>3, <2>1, <2>2, <2>3 DEF Requests
    <2>6. Deliveries'
      <3>1. ready' \cap unacked' = {}
        BY <1>3, <2>1, <2>3 DEF Deliveries, Pending
      <3>2. \A m \in Pending' : scan'[m.scan].status # "ABSENT"
        BY <2>1, <2>2, <2>3 DEF Deliveries, Requests
      <3>3. \A x, y \in Pending' : x.scan = y.scan /\ x.retries < y.retries => Spent(x)'
        <4> SUFFICES ASSUME NEW x \in Pending', NEW y \in Pending', x.scan = y.scan,
                            x.retries < y.retries
                     PROVE  Spent(x)'
          OBVIOUS
        <4>1. CASE x \in Pending /\ y \in Pending
          BY <2>4, <4>1 DEF Deliveries
        <4>2. CASE x = n \/ y = n
          <5>1. x = n /\ y = n
            BY <1>2, <2>2, <2>3, <4>2
          <5>2. n.retries = 0
            BY DEF n
          <5> QED BY <5>1, <5>2
        <4> QED BY <2>3, <4>1, <4>2
      <3> QED BY <1>3, <3>1, <3>2, <3>3 DEF Deliveries
    <2> QED BY <1>4, <2>5, <2>6
  <1>7. CASE ~SendTask(s)
    <2>1. ready' = ready
      BY <1>7 DEF CheckRequest, RequestStep, ApiCrash, InsertScan, SendRaises,
                  MarkDispatchFailed, brokerVars
    <2>2. Pending' = Pending /\ \A m : Spent(m)' <=> Spent(m)
      BY <1>3, <2>1 DEF Pending, Spent
    <2>3. /\ request'[s] \in {"idle", "insert"} => scan'[s].status = "ABSENT"
          /\ request'[s] \in {"send", "mark"} => scan'[s].status = "QUEUED"
      <3>1. CASE CheckRequest(s) \/ SendRaises(s) \/ ApiCrash(s)
        BY <3>1 DEF CheckRequest, SendRaises, ApiCrash, dbVars, Requests, TypeInv, TypeOK
      <3>2. CASE InsertScan(s)
        BY <3>2 DEF InsertScan, Requests, TypeInv, TypeOK
      <3>3. CASE MarkDispatchFailed(s)
        BY <3>3 DEF MarkDispatchFailed, TypeInv, TypeOK
      <3> QED BY <1>7, <3>1, <3>2, <3>3 DEF RequestStep
    <2>4. Requests'
      BY <1>2, <1>3, <2>2, <2>3 DEF Requests
    <2>5. \A m \in Pending' : scan'[m.scan].status # "ABSENT"
      BY <1>2, <1>3, <1>5, <2>2 DEF Deliveries
    <2>6. Deliveries'
      BY <1>3, <2>1, <2>2, <2>5 DEF Deliveries
    <2> QED BY <1>4, <2>4, <2>6
  <1> QED BY <1>6, <1>7

(* Every step keeps one driver.                                            *)
LEMMA DriverNext ==
    ASSUME "duplicate" \notin Faults, "lost_reply" \notin Faults
    PROVE  DriverInv /\ [Next]_vars => DriverInv'
  <1> SUFFICES ASSUME DriverInv, [Next]_vars PROVE OneDriver'
    BY TypeNext DEF DriverInv
  <1>1. TypeInv'
    BY TypeNext DEF DriverInv
  <1>2. CASE UNCHANGED <<scan, request, ready, unacked, pc, task>>
    BY <1>2 DEF DriverInv, OneDriver, Requests, Deliveries, StillActive, Pending,
                Spent, Starting, IsActive, ScanOf
  <1>3. ASSUME NEW w \in Workers, WorkerStep(w) PROVE OneDriver'
    BY <1>1, <1>3, MovingIsMoves, WritingIsMoves, MoveKeeps, PublishKeeps,
       LeavingIsLeaves, LeaveKeeps
       DEF WorkerStep
  <1>4. \/ UNCHANGED <<scan, request, ready, unacked, pc, task>>
        \/ \E s \in Scans : CheckRequest(s) \/ RequestStep(s) \/ ApiCrash(s)
        \/ \E w \in Workers : WorkerStep(w) \/ WorkerCrash(w) \/ ChildLost(w)
        \/ \E w \in Workers, m \in Messages : Take(w, m)
        \/ \E m \in Messages : Redeliver(m)
    BY DEF Next, VerifyConnection, ExpireLock, Tick, vars, dbVars, brokerVars, localVars
  <1> QED BY <1>2, <1>3, <1>4, RequestKeeps, LeavingIsLeaves, LeaveKeeps,
             TakeKeeps, RedeliverKeeps

-----------------------------------------------------------------------------
(* The scans implement the abstract jobs.                                  *)

(* What a step may do to one scan: request it, start it, end it.           *)
StatusStep(s) ==
    \/ /\ scan[s].status = "ABSENT" /\ scan'[s].status = "QUEUED"
       /\ IndexAdmits(s)
    \/ IsActive(s) /\ scan'[s].status = "RUNNING"
    \/ scan[s].status # "ABSENT" /\ scan'[s].status \in Terminal
    \/ scan'[s].status = scan[s].status

ScanStep(s) ==
    /\ StatusStep(s)
    /\ \A z \in Scans \ {s} : scan'[z] = scan[z]

LEMMA ScanStepIsJobStep ==
    ASSUME TypeInv, TypeInv', NEW s \in Scans, ScanStep(s)
    PROVE  [Jobs!Next]_JobPhase
  <1>1. /\ JobPhase \in [Scans -> {"absent", "queued", "running", "ended"}]
        /\ JobPhase' = [JobPhase EXCEPT ![s] = JobPhase'[s]]
    BY DEF JobPhase, ScanStep
  <1>2. \A z \in Scans :
           /\ JobPhase[z] = "absent" <=> scan[z].status = "ABSENT"
           /\ JobPhase[z] = "queued" <=> scan[z].status = "QUEUED"
           /\ JobPhase[z] = "running" <=> scan[z].status = "RUNNING"
           /\ JobPhase[z] = "ended" <=> scan[z].status \in Terminal
    BY DEF JobPhase, TypeInv, TypeOK, InventoryScan
  <1>3. /\ JobPhase'[s] = "queued" <=> scan'[s].status = "QUEUED"
        /\ JobPhase'[s] = "running" <=> scan'[s].status = "RUNNING"
        /\ JobPhase'[s] = "ended" <=> scan'[s].status \in Terminal
    BY DEF JobPhase, TypeInv, TypeOK, InventoryScan
  <1>4. CASE scan[s].status = "ABSENT" /\ scan'[s].status = "QUEUED" /\ IndexAdmits(s)
    <2>1. \A z \in Scans : ConnectionOf[z] = ConnectionOf[s]
                               => JobPhase[z] \notin {"queued", "running"}
      BY <1>2, <1>4 DEF IndexAdmits, IsActive
    <2>2. Jobs!Submit(s)
      BY <1>1, <1>2, <1>3, <1>4, <2>1 DEF Jobs!Submit, Jobs!KeyIsFree, Jobs!Active
    <2> QED BY <2>2 DEF Jobs!Next
  <1>5. CASE IsActive(s) /\ scan'[s].status = "RUNNING"
    <2>1. Jobs!Start(s) \/ JobPhase' = JobPhase
      BY <1>1, <1>2, <1>3, <1>5 DEF Jobs!Start, IsActive
    <2> QED BY <2>1 DEF Jobs!Next
  <1>6. CASE scan[s].status # "ABSENT" /\ scan'[s].status \in Terminal
    <2>1. scan[s].status \in Active \cup Terminal
      BY <1>6 DEF TypeInv, TypeOK, InventoryScan
    <2>2. Jobs!End(s) \/ JobPhase' = JobPhase
      BY <1>1, <1>2, <1>3, <1>6, <2>1 DEF Jobs!End, Jobs!Active
    <2> QED BY <2>2 DEF Jobs!Next
  <1>7. CASE scan'[s].status = scan[s].status
    <2>1. \A z \in Scans : scan'[z].status = scan[z].status
      BY <1>7 DEF ScanStep
    <2> QED BY <2>1 DEF JobPhase
  <1> QED BY <1>4, <1>5, <1>6, <1>7 DEF ScanStep, StatusStep

(* A flush of an end ends what exists, or leaves its status.               *)
LEMMA EndingIsStatusStep ==
    ASSUME DriverInv, NEW w \in Workers,
           RefuseScan(w) \/ Persist(w) \/ PersistUnanswered(w) \/ FailWrite(w)
    PROVE  ScanStep(ScanOf(w))
  <1> DEFINE s == ScanOf(w)
  <1>1. s \in Scans /\ scan[s].status # "ABSENT"
    <2>1. pc[w] # "idle"
      BY DEF RefuseScan, Persist, PersistUnanswered, FailWrite
    <2> QED BY <2>1, BusyWorker
            DEF DriverInv, OneDriver, Deliveries, Pending, ScanOf
  <1>2. PICK set \in InventoryScan :
           /\ set.status \in Terminal
           /\ scan' = [scan EXCEPT ![s] = Flush(scan[s], mem[w], set)]
    <2>1. CASE RefuseScan(w)
      BY <2>1, FailedType DEF RefuseScan, Failed
    <2>2. CASE Persist(w) \/ PersistUnanswered(w)
      <3>1. Outcome(w) \in InventoryScan /\ Outcome(w).status \in Terminal
        BY DEF Outcome, Failed, InventoryScan
      <3> QED BY <2>2, <3>1 DEF Persist, PersistUnanswered, CommitInventory
    <2>3. CASE FailWrite(w)
      <3>1. code[w] \in Errors
        BY DEF DriverInv, TypeInv, TypeOK
      <3> QED BY <2>3, <3>1, FailedType DEF FailWrite, Failed
    <2> QED BY <2>1, <2>2, <2>3
  <1> HIDE DEF s
  <1>3. /\ scan'[s] = Flush(scan[s], mem[w], set)
        /\ \A z \in Scans \ {s} : scan'[z] = scan[z]
    BY <1>1, <1>2 DEF DriverInv, TypeInv, TypeOK
  <1>4. scan'[s].status \in {set.status, scan[s].status}
    BY <1>3 DEF Flush
  <1>5. ScanStep(s)
    BY <1>1, <1>2, <1>3, <1>4 DEF ScanStep, StatusStep
  <1> QED BY <1>5 DEF s

(* RUNNING is only written where the scan is still active.                 *)
LEMMA StartIsStatusStep ==
    ASSUME DriverInv, NEW w \in Workers, StartScan(w)
    PROVE  ScanStep(ScanOf(w))
  <1> DEFINE s == ScanOf(w)
             running == [mem[w] EXCEPT !.status = "RUNNING"]
             row == Flush(scan[s], mem[w], running)
  <1>1. s \in Scans /\ IsActive(s)
    BY BusyWorker DEF DriverInv, OneDriver, StillActive, Starting, StartScan
  <1>2. scan' = [scan EXCEPT ![s] = row] \/ scan' = scan
    BY DEF StartScan
  <1>3. running.status = "RUNNING"
    BY DEF DriverInv, TypeInv, TypeOK, InventoryScan
  <1>4. row.status \in {"RUNNING", scan[s].status}
    BY <1>3 DEF Flush
  <1>5. /\ scan'[s] \in {row, scan[s]}
        /\ \A z \in Scans \ {s} : scan'[z] = scan[z]
    BY <1>1, <1>2 DEF DriverInv, TypeInv, TypeOK
  <1> HIDE DEF row, s
  <1>6. ScanStep(s)
    BY <1>1, <1>4, <1>5 DEF ScanStep, StatusStep
  <1> QED BY <1>6 DEF s

(* A request makes its scan QUEUED, or marks the one it queued.            *)
LEMMA RequestIsStatusStep ==
    ASSUME DriverInv, NEW s \in Scans, InsertScan(s) \/ MarkDispatchFailed(s)
    PROVE  ScanStep(s)
  <1> USE DEF DriverInv, TypeInv, TypeOK
  <1>1. \A z \in Scans \ {s} : scan'[z] = scan[z]
    BY DEF InsertScan, MarkDispatchFailed
  <1>2. CASE InsertScan(s)
    BY <1>1, <1>2 DEF InsertScan, OneDriver, Requests, ScanStep, StatusStep
  <1>3. CASE MarkDispatchFailed(s)
    <2>1. scan[s].status = "QUEUED"
      BY <1>3 DEF MarkDispatchFailed, OneDriver, Requests
    <2>2. scan'[s] = Flush(scan[s], [status |-> "QUEUED", error |-> NoError],
                           Failed("DISPATCH_FAILED"))
      BY <1>3 DEF MarkDispatchFailed
    <2>3. scan'[s].status = "FAILED"
      BY <2>2 DEF Flush, Failed
    <2> QED BY <1>1, <2>1, <2>3 DEF ScanStep, StatusStep
  <1> QED BY <1>2, <1>3

(* So every step is a step of the abstract jobs or leaves them alone.      *)
LEMMA JobNext ==
    ASSUME DriverInv, TypeInv', [Next]_vars
    PROVE  [Jobs!Next]_JobPhase
  <1>1. CASE scan' = scan
    BY <1>1 DEF JobPhase
  <1>2. ASSUME NEW w \in Workers, WorkerStep(w), scan' # scan
        PROVE  ScanOf(w) \in Scans /\ ScanStep(ScanOf(w))
    <2>1. RefuseScan(w) \/ StartScan(w) \/ Persist(w) \/ PersistUnanswered(w) \/ FailWrite(w)
      BY <1>2 DEF WorkerStep, LoadScan, AcquireLock, LockUnavailable, PublishRetry,
                  ReadScan, CollectService, CollectionRaises, FailRead, ReleaseLock,
                  Ack, DatabaseError, dbVars
    <2>2. pc[w] # "idle"
      BY <2>1 DEF RefuseScan, StartScan, Persist, PersistUnanswered, FailWrite
    <2> QED BY <2>1, <2>2, BusyWorker, EndingIsStatusStep, StartIsStatusStep DEF DriverInv
  <1>3. ASSUME NEW s \in Scans, RequestStep(s), scan' # scan
        PROVE  ScanStep(s)
    BY <1>3, RequestIsStatusStep DEF RequestStep, SendTask, SendRaises, dbVars
  <1>4. \/ scan' = scan
        \/ \E s \in Scans : RequestStep(s)
        \/ \E w \in Workers : WorkerStep(w)
    BY DEF Next, VerifyConnection, ExpireLock, Tick, CheckRequest, ApiCrash,
           WorkerCrash, ChildLost, Take, Redeliver, vars, dbVars
  <1> QED BY <1>1, <1>2, <1>3, <1>4, ScanStepIsJobStep DEF DriverInv

(* If the broker neither delivers a message twice nor takes one that it    *)
(* seems to refuse, scans are submitted for a free connection, start once  *)
(* and end once, whatever crashes, expires or is lost, and however many    *)
(* attempts, requests and workers there are.                               *)
THEOREM ScansAreSafeJobs ==
    ASSUME "duplicate" \notin Faults, "lost_reply" \notin Faults
    PROVE  Spec => Jobs!SafeSpec
  <1>1. Init => Jobs!Init
    BY DEF Init, Jobs!Init, JobPhase, NoScan
  <1>2. Init => DriverInv
    BY TypeInit, DriverInit DEF DriverInv
  <1>3. DriverInv /\ [Next]_vars => DriverInv'
    BY DriverNext
  <1>4. DriverInv /\ DriverInv' /\ [Next]_vars => [Jobs!Next]_JobPhase
    BY JobNext DEF DriverInv
  <1> QED BY <1>1, <1>2, <1>3, <1>4, PTL DEF Spec, Jobs!SafeSpec

(* Under the same assumption, what a client has polled to the end does not *)
(* change again.                                                           *)
THEOREM ScansEndOnce ==
    ASSUME "duplicate" \notin Faults, "lost_reply" \notin Faults
    PROVE  Spec => Jobs!EndedIsFinal
  <1>1. Init => DriverInv
    BY TypeInit, DriverInit DEF DriverInv
  <1>2. DriverInv /\ [Next]_vars => DriverInv'
    BY DriverNext
  <1>3. DriverInv /\ DriverInv' /\ [Next]_vars =>
           [\A j \in Scans :
               /\ JobPhase[j] = "ended" => JobPhase'[j] = "ended"
               /\ JobPhase[j] # "absent" => JobPhase'[j] # "absent"]_JobPhase
    <2> SUFFICES ASSUME DriverInv, DriverInv', [Next]_vars, JobPhase' # JobPhase,
                        NEW j \in Scans
                 PROVE  /\ JobPhase[j] = "ended" => JobPhase'[j] = "ended"
                        /\ JobPhase[j] # "absent" => JobPhase'[j] # "absent"
      OBVIOUS
    <2>1. [Jobs!Next]_JobPhase
      BY JobNext DEF DriverInv
    <2>2. JobPhase = [s \in Scans |-> JobPhase[s]]
      BY DEF JobPhase
    <2> QED BY <2>1, <2>2 DEF Jobs!Next, Jobs!Submit, Jobs!Start, Jobs!End, Jobs!Active
  <1> QED BY <1>1, <1>2, <1>3, PTL DEF Spec, Jobs!EndedIsFinal

-----------------------------------------------------------------------------
(* An active scan has a driver, as long as nothing goes wrong but workers  *)
(* that die or outlast their locks.                                        *)

(* What a worker holds of its scan is what the row is; it is collecting    *)
(* for a scan it made RUNNING; and it ends its scan before it acknowledges.*)
Held(w) ==
    /\ pc[w] = "refuse" => IsActive(ScanOf(w))
    /\ pc[w] \in {"refuse", "start", "abortWrite", "reportWrite"}
          => mem[w].status = scan[ScanOf(w)].status
    /\ pc[w] \in {"collect", "persist"} => mem[w].status = "RUNNING"
    /\ pc[w] = "release" /\ code[w] # "INVENTORY_WORKER_FAILED" => ~IsActive(ScanOf(w))
    /\ pc[w] = "ack" => ~IsActive(ScanOf(w))

Driven ==
    \A s \in Scans : IsActive(s) =>
        \/ request[s] \in {"send", "mark"}
        \/ \E m \in Pending : m.scan = s /\ ~Spent(m)

DrivenInv == DriverInv /\ (\A w \in Workers : Held(w)) /\ Driven

(* A flush of an end over a status that was seen ends the scan.            *)
LEMMA FlushEnds ==
    ASSUME NEW row, NEW loaded, NEW set, set.status \in Terminal,
           loaded.status = row.status \/ loaded.status = "RUNNING"
    PROVE  Flush(row, loaded, set).status \notin Active
  BY DEF Flush

(* What a worker makes of its own scan.                                    *)
LEMMA HeldMoves ==
    ASSUME "database" \notin Faults, DrivenInv, TypeInv', NEW w \in Workers,
           WorkerStep(w)
    PROVE  Held(w)'
  <1> USE DEF DrivenInv, DriverInv
  <1>1. /\ pc[w] # "idle" /\ ScanOf(w) \in Scans
        /\ Ack(w) \/ task' = task
    <2>1. pc[w] # "idle"
      BY DEF WorkerStep, LoadScan, AcquireLock, LockUnavailable, PublishRetry,
             ReadScan, RefuseScan, StartScan, CollectService, CollectionRaises,
             Persist, PersistUnanswered, FailRead, FailWrite, ReleaseLock, Ack,
             DatabaseError
    <2>2. Ack(w) \/ task' = task
      BY DEF WorkerStep, LoadScan, AcquireLock, LockUnavailable, PublishRetry,
             ReadScan, RefuseScan, StartScan, CollectService, CollectionRaises,
             Persist, PersistUnanswered, FailRead, FailWrite, ReleaseLock,
             DatabaseError, localVars
    <2> QED BY <2>1, <2>2, BusyWorker
  <1>2. CASE LoadScan(w) \/ AcquireLock(w) \/ LockUnavailable(w) \/ PublishRetry(w)
    BY <1>2 DEF LoadScan, AcquireLock, LockUnavailable, PublishRetry, Goto, Held,
                IsRunnable, IsActive, ScanOf, dbVars, localVars, TypeInv, TypeOK
  <1>3. CASE ReadScan(w)
    <2>1. IsActive(ScanOf(w))
      BY <1>3 DEF ReadScan, OneDriver, StillActive, Starting
    <2> QED BY <1>3, <2>1 DEF ReadScan, Goto, Held, IsActive, ScanOf, dbVars, TypeInv, TypeOK
  <1>4. CASE RefuseScan(w) \/ Persist(w) \/ FailWrite(w)
    <2>1. PICK set \in InventoryScan :
             /\ set.status \in Terminal
             /\ scan' = [scan EXCEPT ![ScanOf(w)] = Flush(scan[ScanOf(w)], mem[w], set)]
      <3>1. CASE RefuseScan(w)
        BY <3>1, FailedType DEF RefuseScan, Failed
      <3>2. CASE Persist(w)
        <4>1. Outcome(w) \in InventoryScan /\ Outcome(w).status \in Terminal
          BY DEF Outcome, Failed, InventoryScan
        <4> QED BY <3>2, <4>1 DEF Persist, CommitInventory
      <3>3. CASE FailWrite(w)
        <4>1. code[w] \in Errors
          BY DEF TypeInv, TypeOK
        <4> QED BY <3>3, <4>1, FailedType DEF FailWrite, Failed
      <3> QED BY <1>4, <3>1, <3>2, <3>3
    <2>2. mem[w].status = scan[ScanOf(w)].status \/ mem[w].status = "RUNNING"
      BY <1>4 DEF RefuseScan, Persist, FailWrite, Held
    <2>3. scan'[ScanOf(w)] = Flush(scan[ScanOf(w)], mem[w], set)
      BY <1>1, <2>1 DEF TypeInv, TypeOK
    <2>4. scan'[ScanOf(w)].status \notin Active
      BY <2>1, <2>2, <2>3, FlushEnds
    <2>5. ScanOf(w)' = ScanOf(w) /\ pc'[w] \in {"release", "ack"}
      BY <1>1, <1>4 DEF RefuseScan, Persist, FailWrite, Goto, ScanOf, TypeInv, TypeOK
    <2> QED BY <2>4, <2>5 DEF Held, IsActive
  <1>5. CASE StartScan(w)
    BY <1>5 DEF StartScan, CloseSession, Goto, Held, TypeInv, TypeOK, InventoryScan
  <1>6. CASE (\E t \in Types : CollectService(w, t)) \/ CollectionRaises(w)
    BY <1>6 DEF CollectService, CollectionRaises, Goto, Held, TypeInv, TypeOK
  <1>7. CASE FailRead(w)
    BY <1>7 DEF FailRead, Goto, Held, ScanOf, dbVars, TypeInv, TypeOK
  <1>8. CASE ReleaseLock(w) \/ Ack(w)
    BY <1>8 DEF ReleaseLock, Ack, GoIdle, Goto, Held, IsActive, ScanOf, dbVars,
                localVars, TypeInv, TypeOK
  <1>9. ~PersistUnanswered(w) /\ ~DatabaseError(w)
    BY DEF PersistUnanswered, DatabaseError, Fault
  <1> QED BY <1>2, <1>3, <1>4, <1>5, <1>6, <1>7, <1>8, <1>9 DEF WorkerStep

(* A worker's hold is not disturbed by what leaves its scan alone.         *)
LEMMA HeldKept ==
    ASSUME DrivenInv, NEW x \in Workers,
           /\ pc'[x] = pc[x] /\ task'[x] = task[x]
           /\ mem'[x] = mem[x] /\ code'[x] = code[x],
           pc[x] \notin {"idle", "retried"} => scan'[ScanOf(x)] = scan[ScanOf(x)]
    PROVE  Held(x)'
  BY DEF DrivenInv, Held, IsActive, ScanOf

(* A worker that has just come or gone holds nothing.                      *)
LEMMA HeldNothing ==
    ASSUME NEW x \in Workers, pc'[x] \in {"idle", "load"}
    PROVE  Held(x)'
  BY DEF Held

LEMMA HeldNext ==
    ASSUME "database" \notin Faults, DrivenInv, TypeInv', [Next]_vars,
           NEW x \in Workers
    PROVE  Held(x)'
  <1> USE DEF DrivenInv, DriverInv
  <1>1. CASE UNCHANGED <<scan, pc, task, mem, code>>
    BY <1>1, HeldKept
  <1>2. ASSUME NEW s \in Scans, RequestStep(s) PROVE Held(x)'
    <2>1. /\ UNCHANGED <<pc, task, mem, code>>
          /\ \A z \in Scans \ {s} : scan'[z] = scan[z]
          /\ request[s] # "done"
      BY <1>2 DEF RequestStep, InsertScan, SendTask, SendRaises, MarkDispatchFailed,
                  dbVars, localVars, TypeInv, TypeOK
    <2>2. pc[x] # "idle" => ScanOf(x) \in Scans \ {s}
      BY <2>1, BusyWorker, RequestOver DEF OneDriver
    <2> QED BY <2>1, <2>2, HeldKept
  <1>3. ASSUME NEW w \in Workers, WorkerStep(w) PROVE Held(x)'
    <2>1. CASE x = w
      BY <1>3, <2>1, HeldMoves
    <2>2. CASE x # w
      <3>1. /\ pc'[x] = pc[x] /\ task'[x] = task[x]
            /\ mem'[x] = mem[x] /\ code'[x] = code[x]
        BY <1>3, <2>2
           DEF WorkerStep, LoadScan, AcquireLock, LockUnavailable, PublishRetry,
               ReadScan, RefuseScan, StartScan, CollectService, CollectionRaises,
               Persist, PersistUnanswered, FailRead, FailWrite, ReleaseLock, Ack,
               DatabaseError, CloseSession, GoIdle, Goto, localVars, TypeInv, TypeOK
      <3>2. Moves(w) \/ scan' = scan
        BY <1>3, MovingIsMoves, WritingIsMoves
           DEF WorkerStep, PublishRetry, Ack, dbVars
      <3>3. ASSUME pc[x] \notin {"idle", "retried"}
            PROVE  scan'[ScanOf(x)] = scan[ScanOf(x)]
        <4>1. CASE Moves(w)
          <5>1. ScanOf(x) # ScanOf(w) /\ ScanOf(x) \in Scans
            BY <2>2, <3>3, <4>1, OneWorker, BusyWorker DEF Moves, OneDriver
          <5> QED BY <4>1, <5>1 DEF Moves
        <4> QED BY <3>2, <4>1
      <3> QED BY <3>1, <3>3, HeldKept
    <2> QED BY <2>1, <2>2
  <1>4. ASSUME NEW w \in Workers,
               \/ WorkerCrash(w) \/ ChildLost(w)
               \/ \E m \in Messages : Take(w, m)
        PROVE  Held(x)'
    <2>1. CASE x = w
      <3>1. pc'[x] \in {"idle", "load"}
        BY <1>4, <2>1 DEF WorkerCrash, ChildLost, Abandon, GoIdle, Take, Goto, TypeInv, TypeOK
      <3> QED BY <3>1, HeldNothing
    <2>2. CASE x # w
      <3>1. /\ pc'[x] = pc[x] /\ task'[x] = task[x]
            /\ mem'[x] = mem[x] /\ code'[x] = code[x] /\ scan' = scan
        BY <1>4, <2>2 DEF WorkerCrash, ChildLost, Abandon, GoIdle, CloseSession, Take,
                          Goto, dbVars, TypeInv, TypeOK
      <3> QED BY <3>1, HeldKept
    <2> QED BY <2>1, <2>2
  <1>5. \/ UNCHANGED <<scan, pc, task, mem, code>>
        \/ \E s \in Scans : RequestStep(s)
        \/ \E w \in Workers : \/ WorkerStep(w) \/ WorkerCrash(w) \/ ChildLost(w)
                              \/ \E m \in Messages : Take(w, m)
    BY DEF Next, VerifyConnection, ExpireLock, Tick, CheckRequest, ApiCrash,
           Redeliver, vars, dbVars, localVars
  <1> QED BY <1>1, <1>2, <1>3, <1>4, <1>5

(* A worker's own scan is driven by its message.                           *)
LEMMA MoveDriven ==
    ASSUME DrivenInv, NEW w \in Workers, Moves(w)
    PROVE  Driven'
  <1> USE DEF DrivenInv, DriverInv
  <1>1. /\ Pending' = Pending /\ request' = request
        /\ \A m : Spent(m)' <=> Spent(m)
    BY DEF Moves, Goto, Pending, Spent, TypeInv, TypeOK
  <1>2. /\ task[w] \in Pending
        /\ ~Spent(task[w])
    BY DEF Moves, OneDriver, Deliveries, Pending, Spent
  <1>3. ASSUME NEW s \in Scans, s # ScanOf(w), IsActive(s)'
        PROVE  \/ request[s] \in {"send", "mark"}
               \/ \E m \in Pending : m.scan = s /\ ~Spent(m)
    BY <1>3 DEF Moves, Driven, IsActive
  <1> QED BY <1>1, <1>2, <1>3 DEF Driven, ScanOf

(* What is published drives the scan, and the others are driven as before. *)
LEMMA PublishDriven ==
    ASSUME DrivenInv, NEW w \in Workers, PublishRetry(w)
    PROVE  Driven'
  <1> USE DEF DrivenInv, DriverInv, OneDriver
  <1>0. PICK n : n = [scan |-> ScanOf(w), retries |-> task[w].retries + 1]
    OBVIOUS
  <1>1. /\ pc[w] = "retry" /\ task[w] \in Messages
        /\ ready' = ready \cup {n} /\ unacked' = unacked
        /\ pc' = [pc EXCEPT ![w] = "retried"]
        /\ UNCHANGED <<scan, request, task>>
    BY <1>0, BusyWorker DEF PublishRetry, Goto, dbVars, localVars
  <1>2. task[w].retries \in Int
    BY <1>1, ConstantsAssumption DEF Messages
  <1>3. n.scan = ScanOf(w) /\ n.retries = task[w].retries + 1
    BY <1>0
  <1>4. /\ task[w] \in Pending /\ ~Spent(task[w])
        /\ n.scan = task[w].scan /\ n # task[w]
    BY <1>1, <1>2, <1>3 DEF Deliveries, Pending, Spent, ScanOf
  <1>5. n \notin Pending
    BY <1>2, <1>3, <1>4 DEF Deliveries
  <1>6. \A x \in Workers : task[x] # n
    <2> SUFFICES ASSUME NEW x \in Workers, task[x] = n PROVE FALSE
      OBVIOUS
    <2>1. CASE pc[x] # "idle"
      BY <1>5, <2>1 DEF Deliveries, Pending
    <2>2. CASE pc[x] = "idle"
      <3>1. n = NoTask
        BY <2>2 DEF TypeInv, TypeOK
      <3>2. n \in Messages
        BY <1>0, <1>1, ConstantsAssumption
           DEF Messages, ScanOf, TypeInv, RetryFits
      <3> QED BY <3>1, <3>2, ConstantsAssumption
    <2> QED BY <2>1, <2>2
  <1>7. ~Spent(n)' /\ n \in Pending'
    BY <1>1, <1>6 DEF Spent, Pending
  <1>8. \A m \in Pending : m \in Pending' /\ (m # task[w] /\ ~Spent(m) => ~Spent(m)')
    BY <1>1 DEF Spent, Pending, TypeInv, TypeOK
  <1>9. ASSUME NEW s \in Scans, IsActive(s)'
        PROVE  \/ request'[s] \in {"send", "mark"}
               \/ \E m \in Pending' : m.scan = s /\ ~Spent(m)'
    <2>1. IsActive(s) /\ request' = request
      BY <1>1, <1>9 DEF IsActive
    <2>2. CASE s = ScanOf(w)
      BY <1>3, <1>7, <2>2
    <2>3. CASE s # ScanOf(w)
      BY <1>8, <2>1, <2>3 DEF Driven, ScanOf
    <2> QED BY <2>2, <2>3
  <1> QED BY <1>9 DEF Driven

(* A worker acknowledges the message of an ended scan or a spent one, and  *)
(* a worker that dies leaves its message.                                  *)
LEMMA LeaveDriven ==
    ASSUME "child_lost" \notin Faults, "duplicate" \notin Faults, DrivenInv,
           NEW w \in Workers, Ack(w) \/ WorkerCrash(w) \/ ChildLost(w)
    PROVE  Driven'
  <1> USE DEF DrivenInv, DriverInv, OneDriver
  <1>1. /\ \A x \in Workers \ {w} : pc'[x] = pc[x] /\ task'[x] = task[x]
        /\ pc'[w] = "idle" /\ UNCHANGED <<scan, request, ready>>
    BY DEF Ack, WorkerCrash, ChildLost, Abandon, GoIdle, Goto, dbVars, brokerVars,
           TypeInv, TypeOK
  <1>2. \A m : ~Spent(m) => ~Spent(m)'
    BY <1>1 DEF Spent
  <1>3. ASSUME NEW m \in Pending, ~Spent(m), IsActive(m.scan)
        PROVE  m \in Pending'
    <2>1. CASE Ack(w)
      <3>1. m # task[w]
        BY <1>3, <2>1 DEF Ack, Spent, Held, ScanOf
      <3> QED BY <1>1, <2>1, <3>1 DEF Ack, Pending
    <2>2. CASE WorkerCrash(w) \/ ChildLost(w)
      BY <2>2 DEF WorkerCrash, ChildLost, Fault, Pending, brokerVars
    <2> QED BY <2>1, <2>2
  <1>4. \A s \in Scans : IsActive(s)' <=> IsActive(s)
    BY <1>1 DEF IsActive
  <1> QED BY <1>1, <1>2, <1>3, <1>4 DEF Driven

LEMMA BrokerDriven ==
    ASSUME "duplicate" \notin Faults, DrivenInv, NEW m \in Messages,
           (\E w \in Workers : Take(w, m)) \/ Redeliver(m)
    PROVE  Driven'
  <1> USE DEF DrivenInv, DriverInv
  <1>1. /\ Pending' = Pending /\ UNCHANGED <<scan, request>>
        /\ \A n : ~Spent(n) => ~Spent(n)'
    <2>1. CASE Redeliver(m)
      BY <2>1 DEF Redeliver, Pending, Spent, dbVars, localVars
    <2>2. ASSUME NEW w \in Workers, Take(w, m)
          PROVE  /\ Pending' = Pending /\ UNCHANGED <<scan, request>>
                 /\ \A x \in Workers : pc'[x] = "retried" =>
                        pc[x] = "retried" /\ task'[x] = task[x]
      BY <2>2 DEF Take, Goto, Pending, dbVars, TypeInv, TypeOK
    <2> QED BY <2>1, <2>2 DEF Spent
  <1> QED BY <1>1 DEF Driven, IsActive

(* A request drives its scan until its message does.                       *)
LEMMA RequestDriven ==
    ASSUME "lost_reply" \notin Faults, "api_crash" \notin Faults, DrivenInv,
           NEW s \in Scans, CheckRequest(s) \/ RequestStep(s) \/ ApiCrash(s)
    PROVE  Driven'
  <1> USE DEF DrivenInv, DriverInv, OneDriver
  <1>1. /\ UNCHANGED <<unacked, pc, task>>
        /\ Pending \subseteq Pending'
        /\ \A z \in Scans \ {s} : scan'[z] = scan[z] /\ request'[z] = request[z]
        /\ request[s] # "done"
    BY DEF CheckRequest, RequestStep, ApiCrash, InsertScan, SendTask, SendRaises,
           MarkDispatchFailed, dbVars, brokerVars, localVars, TypeInv, TypeOK, Pending
  <1>2. \A m : Spent(m)' <=> Spent(m)
    BY <1>1 DEF Spent
  <1>3. IsActive(s)' => \/ request'[s] \in {"send", "mark"}
                        \/ \E m \in Pending' : m.scan = s /\ ~Spent(m)'
    <2>1. CASE CheckRequest(s)
      BY <2>1 DEF CheckRequest, Requests, IsActive, dbVars
    <2>2. CASE InsertScan(s)
      BY <2>2 DEF InsertScan, Requests, IsActive, TypeInv, TypeOK
    <2>3. CASE SendTask(s)
      <3> DEFINE n == [scan |-> s, retries |-> 0]
      <3>1. n \in Pending' /\ n.scan = s
        BY <2>3 DEF SendTask, Pending
      <3>2. ~Spent(n)
        <4>1. \A w \in Workers : pc[w] # "idle" => task[w].scan # s
          BY <1>1 DEF Requests, Deliveries, Pending
        <4> QED BY <3>1, <4>1 DEF Spent
      <3>3. \E m \in Pending' : m.scan = s /\ ~Spent(m)
        BY <3>1, <3>2
      <3> HIDE DEF n
      <3> QED BY <1>2, <3>3
    <2>4. CASE SendRaises(s)
      BY <2>4 DEF SendRaises, TypeInv, TypeOK
    <2>5. CASE MarkDispatchFailed(s)
      <3>1. scan'[s] = Flush(scan[s], [status |-> "QUEUED", error |-> NoError],
                             Failed("DISPATCH_FAILED"))
        BY <2>5 DEF MarkDispatchFailed, TypeInv, TypeOK
      <3>2. scan'[s].status = "FAILED"
        BY <3>1 DEF Flush, Failed
      <3> QED BY <3>2 DEF IsActive
    <2>6. ~ApiCrash(s)
      BY DEF ApiCrash, Fault
    <2> QED BY <2>1, <2>2, <2>3, <2>4, <2>5, <2>6 DEF RequestStep
  <1>4. ASSUME NEW z \in Scans \ {s}, IsActive(z)'
        PROVE  \/ request'[z] \in {"send", "mark"}
               \/ \E m \in Pending' : m.scan = z /\ ~Spent(m)'
    <2>1. IsActive(z)
      BY <1>1, <1>4 DEF IsActive
    <2> QED BY <1>1, <1>2, <2>1 DEF Driven
  <1> QED BY <1>3, <1>4 DEF Driven

LEMMA DrivenNext ==
    ASSUME Faults \subseteq {"crash", "slow_task"}
    PROVE  DrivenInv /\ [Next]_vars => DrivenInv'
  <1> SUFFICES ASSUME DrivenInv, [Next]_vars PROVE DrivenInv'
    OBVIOUS
  <1>1. DriverInv' /\ TypeInv'
    BY DriverNext DEF DrivenInv, DriverInv
  <1>2. \A x \in Workers : Held(x)'
    BY <1>1, HeldNext
  <1>3. Driven'
    <2>1. CASE UNCHANGED <<scan, request, ready, unacked, pc, task>>
      BY <2>1 DEF DrivenInv, Driven, Pending, Spent, IsActive
    <2>2. ASSUME NEW w \in Workers, WorkerStep(w) PROVE Driven'
      BY <2>2, MovingIsMoves, WritingIsMoves, MoveDriven, PublishDriven, LeaveDriven
         DEF WorkerStep, DrivenInv
    <2>3. \/ UNCHANGED <<scan, request, ready, unacked, pc, task>>
          \/ \E s \in Scans : CheckRequest(s) \/ RequestStep(s) \/ ApiCrash(s)
          \/ \E w \in Workers : WorkerStep(w) \/ WorkerCrash(w) \/ ChildLost(w)
          \/ \E m \in Messages : (\E w \in Workers : Take(w, m)) \/ Redeliver(m)
      BY DEF Next, VerifyConnection, ExpireLock, Tick, vars, dbVars, brokerVars, localVars
    <2> QED BY <2>1, <2>2, <2>3, LeaveDriven, BrokerDriven, RequestDriven
  <1> QED BY <1>1, <1>2, <1>3 DEF DrivenInv

(* If only workers fail, by dying or by outlasting their locks, an active  *)
(* scan has somebody who will end it, however many attempts it takes: its  *)
(* request, or a message whose next attempt is not out already.            *)
THEOREM ActiveScanHasDriverHolds ==
    ASSUME Faults \subseteq {"crash", "slow_task"}
    PROVE  Spec => []ActiveScanHasDriver
  <1>1. Init => DrivenInv
    <2>1. Init => Driven /\ \A w \in Workers : Held(w)
      BY DEF Init, Driven, Held, IsActive, NoScan
    <2> QED BY <2>1, TypeInit, DriverInit DEF DrivenInv, DriverInv
  <1>2. DrivenInv => ActiveScanHasDriver
    BY DEF DrivenInv, Driven, ActiveScanHasDriver, Pending
  <1> QED BY <1>1, <1>2, DrivenNext, PTL DEF Spec
=============================================================================
