------------------------- MODULE MetricSyncsProofs -------------------------
(***************************************************************************)
(* Metric synchronizations, for any number of them, of workers and of      *)
(* series, any size of a batch and all faults but a send_task that raises  *)
(* after the broker took the message.                                      *)
(***************************************************************************)
EXTENDS MetricSyncs, SyncDispatchProofs, FiniteSetTheorems

(* What a worker has asked: series of its own connection and Region, in    *)
(* full batches as long as something is left.                              *)
Own(s) == {q \in Series : HomeOf[q] = KeyOf[s]}

Counted(w) ==
    /\ work[w].failed <= work[w].batches
    /\ work[w].left # {} =>
           work[w].queries = work[w].batches * BatchSize
                                 + Cardinality(work[w].left)
    /\ work[w].left = {} => work[w].batches = BatchCount(w)

Asked ==
    \A w \in Workers : pc[w] = "collect" =>
        /\ work[w].left \cup work[w].records \subseteq Own(task[w])
        /\ Counted(w)

MetricTypes ==
    /\ active \subseteq Series
    /\ points \in [Series -> Syncs \cup {None}]
    /\ work \in [Workers -> Work]
    /\ \A w \in Workers : pc[w] # "collect" => work[w] = NoWork

MetricInv == DispatchInv /\ MetricTypes /\ Asked

USE DEF MetricPCs, MetricErrors, PCs, dispatchVars, rowVars, brokerVars,
        workerVars, faultVars
-----------------------------------------------------------------------------
LEMMA FullBatches ==
  ASSUME NEW B \in Nat \ {0}, NEW k \in Nat, NEW c \in 1..B
  PROVE  (k * B + c + B - 1) \div B = k + 1
  OBVIOUS

(* Every step is one of those that SyncDispatchProofs is about.            *)
LEMMA DispatchKept ==
  ASSUME DispatchInv, "lost_reply" \notin Faults, [Next]_vars
  PROVE  DispatchInv' /\ RowStep
  <1>1. ASSUME UNCHANGED dispatchVars PROVE DispatchInv' /\ RowStep
    BY <1>1, StutterKeeps
  <1>2. ASSUME NEW c \in Connections, VerifyConnection(c)
        PROVE  DispatchInv' /\ RowStep
    BY <1>2, VerifyKeeps
  <1>3. ASSUME NEW s \in Syncs, CheckRequest(s) \/ ApiCrash(s) \/ Call(s)
        PROVE  DispatchInv' /\ RowStep
    BY <1>3, CheckKeeps, ApiCrashKeeps, InsertKeeps, SendKeeps, MarkKeeps
    DEF Call, RequestStep
  <1>4. ASSUME NEW s \in Syncs, Receive(s) \/ Return(s)
        PROVE  DispatchInv' /\ RowStep
    BY <1>4, TakeKeeps, RedeliverKeeps DEF Receive, Return
  <1>5. ASSUME NEW w \in Workers, Claim(w) PROVE DispatchInv' /\ RowStep
    <2>1. ClaimStep(w)
      BY <1>5 DEF Claim, ClaimStep, Claimable, Goto, others, brokerVars,
         faultVars
    <2> QED
      BY <2>1, ClaimKeeps
  <1>6. ASSUME NEW w \in Workers, ReadInventory(w)
        PROVE  DispatchInv' /\ RowStep
    <2>1. AskStep(w)
      BY <1>6 DEF ReadInventory, AskStep, Goto, others
    <2> QED
      BY <2>1, AskKeeps
  <1>7. ASSUME NEW w \in Workers, AskBatch(w) PROVE DispatchInv' /\ RowStep
    BY <1>1, <1>7 DEF AskBatch
  <1>8. ASSUME NEW w \in Workers, CollectionRaises(w)
        PROVE  DispatchInv' /\ RowStep
    <2>1. RaiseStep(w)
      BY <1>8, MetricErrorsAssumption
      DEF CollectionRaises, Failing, RaiseStep, Goto, others
    <2> QED
      BY <2>1, RaiseKeeps
  <1>9. ASSUME NEW w \in Workers, Persist(w) PROVE DispatchInv' /\ RowStep
    <2>1. Outcome(w) \in Row /\ Outcome(w).status \in Terminal
      BY MetricErrorsAssumption
      DEF Outcome, Failed, NoError, Row, Active, Terminal
    <2>2. EndStep(w)
      BY <1>9, <2>1 DEF Persist, EndStep, others
    <2> QED
      BY <2>2, EndKeeps
  <1>10. ASSUME NEW w \in Workers,
                FailRead(w) \/ FailWrite(w) \/ Ack(w) \/ TaskRaises(w)
         PROVE  DispatchInv' /\ RowStep
    BY <1>10, FailReadKeeps, FailWriteKeeps, AckKeeps, RaisesKeeps
  <1>11. ASSUME NEW w \in Workers, Lose(w) PROVE DispatchInv' /\ RowStep
    BY <1>11, CrashKeeps DEF Lose
  <1> QED
    BY <1>1, <1>2, <1>3, <1>4, <1>5, <1>6, <1>7, <1>8, <1>9, <1>10, <1>11
    DEF Next, WorkStep, InventoryChanges, vars

-----------------------------------------------------------------------------
(* What the steps do to what a worker has asked.                           *)
LEMMA BatchKept ==
  ASSUME MetricInv, NEW w \in Workers, AskBatch(w)
  PROVE  MetricTypes' /\ Asked'
  <1> DEFINE left == work[w].left
             size == Min({BatchSize, Cardinality(left)})
  <1> DEFINE After(batch, told, fails) ==
               [left |-> left \ batch, queries |-> work[w].queries,
                records |-> work[w].records \cup told,
                failed |-> work[w].failed + fails,
                batches |-> work[w].batches + 1]
  <1>1. PICK batch \in kSubset(size, left), fails \in {0, 1} :
          \E told \in SUBSET batch :
             work' = [work EXCEPT ![w] = After(batch, told, fails)]
    BY DEF AskBatch, MetricInv, MetricTypes
  <1>2. PICK told \in SUBSET batch :
             work' = [work EXCEPT ![w] = After(batch, told, fails)]
    BY <1>1
  <1>3. /\ pc[w] = "collect" /\ left # {}
        /\ work[w] \in Work
        /\ left \subseteq Own(task[w])
        /\ work[w].records \subseteq Own(task[w])
        /\ Counted(w)
    BY DEF AskBatch, MetricInv, MetricTypes, Asked
  <1>4. /\ batch \subseteq left
        /\ Cardinality(batch) = size
        /\ IsFiniteSet(left) /\ IsFiniteSet(batch)
        /\ Cardinality(left) \in Nat \ {0}
    <2>1. batch \subseteq left /\ Cardinality(batch) = size
      BY DEF kSubset
    <2>2. IsFiniteSet(left) /\ IsFiniteSet(batch)
      BY <1>3, <2>1, SeriesAssumption, FS_Subset DEF Work
    <2>3. Cardinality(left) \in Nat /\ Cardinality(left) # 0
      BY <1>3, <2>2, FS_CardinalityType, FS_EmptySet
    <2> QED
      BY <2>1, <2>2, <2>3
  <1>5. /\ size = IF BatchSize <= Cardinality(left) THEN BatchSize
                                                    ELSE Cardinality(left)
        /\ size \in 1..BatchSize
        /\ Cardinality(left \ batch) = Cardinality(left) - size
    <2>1. \A m, n \in Nat : Min({m, n}) = IF m <= n THEN m ELSE n
      BY DEF Min
    <2>2. size = IF BatchSize <= Cardinality(left) THEN BatchSize
                                                  ELSE Cardinality(left)
      BY <2>1, <1>4, SeriesAssumption
    <2>3. size \in 1..BatchSize
      BY <2>2, <1>4, SeriesAssumption
    <2>4. left \cap batch = batch
      BY <1>4
    <2>5. Cardinality(left \ batch) = Cardinality(left) - Cardinality(batch)
      BY <2>4, <1>4, FS_Difference
    <2> QED
      BY <2>2, <2>3, <2>5, <1>4
  <1> DEFINE new == work'[w]
  <1>6. /\ new \in Work
        /\ new.left = left \ batch
        /\ new.queries = work[w].queries
        /\ new.records = work[w].records \cup told
        /\ new.failed = work[w].failed + fails
        /\ new.batches = work[w].batches + 1
        /\ work' = [work EXCEPT ![w] = new]
    <2>1. After(batch, told, fails) \in Work
      BY <1>3, <1>4 DEF Work
    <2>2. new = After(batch, told, fails)
      BY <1>2 DEF MetricInv, MetricTypes
    <2> HIDE DEF new
    <2>3. work' = [work EXCEPT ![w] = new]
      BY <1>2, <2>2
    <2>4. new \in Work
      BY <2>1, <2>2
    <2> QED
      BY <2>2, <2>3, <2>4
  <1> HIDE DEF new, size
  <1>7. /\ UNCHANGED <<active, points, pc, task>>
        /\ new.left \cup new.records \subseteq Own(task[w])
    BY <1>3, <1>4, <1>6 DEF AskBatch
  <1>8. new.failed <= new.batches
    BY <1>3, <1>6 DEF Counted, Work
  <1>9. new.left # {} =>
           new.queries = new.batches * BatchSize + Cardinality(new.left)
    <2> HAVE new.left # {}
    <2>1. Cardinality(new.left) = Cardinality(left) - size
      BY <1>5, <1>6
    <2>2. IsFiniteSet(new.left) /\ Cardinality(new.left) # 0
      BY <1>4, <1>6, FS_Subset, FS_EmptySet
    <2>3. size = BatchSize
      BY <2>1, <2>2, <1>4, <1>5, SeriesAssumption
    <2>4. new.queries = work[w].batches * BatchSize + Cardinality(left)
      BY <1>3, <1>6 DEF Counted
    <2>5. work[w].batches * BatchSize + BatchSize
            = (work[w].batches + 1) * BatchSize
      BY <1>3, SeriesAssumption DEF Work
    <2> QED
      BY <2>1, <2>3, <2>4, <2>5, <1>3, <1>4, <1>6, SeriesAssumption DEF Work
  <1>10. new.left = {} =>
            new.batches = (new.queries + BatchSize - 1) \div BatchSize
    <2> HAVE new.left = {}
    <2>1. size = Cardinality(left)
      BY <1>4, <1>5, <1>6, FS_EmptySet
    <2>2. new.queries = work[w].batches * BatchSize + size
      BY <2>1, <1>3, <1>6 DEF Counted
    <2>3. work[w].batches \in Nat
      BY <1>3 DEF Work
    <2>4. (work[w].batches * BatchSize + size + BatchSize - 1) \div BatchSize
            = work[w].batches + 1
      BY <2>3, <1>5, FullBatches, SeriesAssumption
    <2> QED
      BY <2>2, <2>4, <1>6
  <1>11. Counted(w)'
    BY <1>8, <1>9, <1>10 DEF Counted, BatchCount, new
  <1>12. Asked'
    BY <1>6, <1>7, <1>11 DEF MetricInv, MetricTypes, Asked, Counted, Own,
       BatchCount
  <1> QED
    BY <1>3, <1>6, <1>7, <1>12 DEF MetricInv, MetricTypes

LEMMA NoBatches ==
  ASSUME NEW B \in Nat \ {0}
  PROVE  (0 + B - 1) \div B = 0
  OBVIOUS

LEMMA InventoryRead ==
  ASSUME MetricInv, NEW w \in Workers, ReadInventory(w)
  PROVE  MetricTypes' /\ Asked'
  <1> DEFINE queries == {q \in active : HomeOf[q] = KeyOf[task[w]]}
             new == [left |-> queries, queries |-> Cardinality(queries),
                     records |-> {}, failed |-> 0, batches |-> 0]
  <1>2. /\ work' = [work EXCEPT ![w] = new]
        /\ pc' = [pc EXCEPT ![w] = "collect"]
        /\ UNCHANGED <<active, points, task>>
    BY DEF ReadInventory, Goto
  <1>3. queries \subseteq Own(task[w]) /\ queries \subseteq Series
    BY DEF Own, MetricInv, MetricTypes
  <1>4. IsFiniteSet(queries) /\ Cardinality(queries) \in Nat
    BY <1>3, SeriesAssumption, FS_Subset, FS_CardinalityType
  <1>5. queries = {} => Cardinality(queries) = 0
    BY FS_EmptySet
  <1> HIDE DEF queries
  <1>6. new \in Work
    BY <1>3, <1>4 DEF Work
  <1>7. work'[w] = new
    BY <1>2 DEF MetricInv, MetricTypes
  <1>8. work'[w].queries = 0 * BatchSize + Cardinality(queries)
    BY <1>4, <1>7, SeriesAssumption
  <1>9. Counted(w)'
    BY <1>4, <1>5, <1>7, <1>8, NoBatches, SeriesAssumption
    DEF Counted, BatchCount
  <1>10. \A v \in Workers : v # w =>
            work'[v] = work[v] /\ pc'[v] = pc[v] /\ task'[v] = task[v]
    BY <1>2 DEF MetricInv, MetricTypes, DispatchInv, Types, DispatchTypeOK
  <1>11. Asked'
    <2> SUFFICES ASSUME NEW v \in Workers, pc'[v] = "collect"
                 PROVE  /\ work'[v].left \cup work'[v].records
                              \subseteq Own(task[v])
                        /\ Counted(v)'
      BY <1>2 DEF Asked, Own
    <2>1. CASE v = w
      BY <2>1, <1>3, <1>7, <1>9
    <2>2. CASE v # w
      BY <2>2, <1>10 DEF MetricInv, Asked, Counted, BatchCount
    <2> QED
      BY <2>1, <2>2
  <1>12. MetricTypes'
    BY <1>2, <1>6, <1>10 DEF MetricInv, MetricTypes, DispatchInv, Types,
       DispatchTypeOK
  <1> QED
    BY <1>11, <1>12

(* Steps after which the same workers collect the same.                    *)
LEMMA AskedFrame ==
  ASSUME MetricInv, UNCHANGED <<points, work>>, active' \subseteq Series,
         \A v \in Workers : /\ pc'[v] = "collect" <=> pc[v] = "collect"
                            /\ pc[v] = "collect" => task'[v] = task[v]
  PROVE  MetricTypes' /\ Asked'
  BY DEF MetricInv, MetricTypes, Asked, Counted, BatchCount

(* Steps with which a worker stops to collect.                             *)
LEMMA AskedEnds ==
  ASSUME MetricInv, NEW w \in Workers, UNCHANGED active,
         points' \in [Series -> Syncs \cup {None}],
         work' = [work EXCEPT ![w] = NoWork], pc'[w] # "collect",
         \A v \in Workers \ {w} : pc'[v] = pc[v] /\ task'[v] = task[v]
  PROVE  MetricTypes' /\ Asked'
  <1>1. NoWork \in Work
    BY DEF NoWork, Work
  <1>2. work' \in [Workers -> Work] /\ work'[w] = NoWork
    BY <1>1 DEF MetricInv, MetricTypes
  <1>3. \A v \in Workers \ {w} : work'[v] = work[v]
    BY DEF MetricInv, MetricTypes
  <1> QED
    BY <1>2, <1>3
    DEF MetricInv, MetricTypes, Asked, Counted, BatchCount

LEMMA InvKept ==
  ASSUME MetricInv, "lost_reply" \notin Faults, [Next]_vars
  PROVE  MetricInv'
  <1> USE DEF MetricInv, DispatchInv, Types, DispatchTypeOK
  <1>1. DispatchInv'
    BY DispatchKept
  <1>2. ASSUME UNCHANGED vars PROVE MetricTypes' /\ Asked'
    BY <1>2, AskedFrame DEF vars, metricVars, MetricTypes
  <1>3. ASSUME NEW q \in Series, InventoryChanges(q)
        PROVE  MetricTypes' /\ Asked'
    BY <1>3, AskedFrame DEF InventoryChanges, MetricTypes
  <1>4. ASSUME UNCHANGED <<metricVars, pc, task>> PROVE MetricTypes' /\ Asked'
    BY <1>4, AskedFrame DEF metricVars, MetricTypes
  <1>5. ASSUME NEW c \in Connections, VerifyConnection(c), UNCHANGED metricVars
        PROVE  MetricTypes' /\ Asked'
    BY <1>4, <1>5 DEF VerifyConnection
  <1>6. ASSUME NEW s \in Syncs, UNCHANGED metricVars,
               CheckRequest(s) \/ ApiCrash(s) \/ RequestStep(s) \/ Redeliver(s)
        PROVE  MetricTypes' /\ Asked'
    BY <1>4, <1>6 DEF CheckRequest, ApiCrash, RequestStep, Redeliver,
       InsertRow, SendTask, SendRaises, MarkDispatchFailed
  <1>7. ASSUME NEW w \in Workers, UNCHANGED metricVars,
               pc[w] # "collect", pc'[w] # "collect",
               \A v \in Workers \ {w} : pc'[v] = pc[v] /\ task'[v] = task[v]
        PROVE  MetricTypes' /\ Asked'
    <2>1. active' \subseteq Series /\ UNCHANGED <<points, work>>
      BY <1>7 DEF metricVars, MetricTypes
    <2>2. \A v \in Workers : /\ pc'[v] = "collect" <=> pc[v] = "collect"
                             /\ pc[v] = "collect" => task'[v] = task[v]
      BY <1>7
    <2> QED
      BY <2>1, <2>2, AskedFrame
  <1>8. ASSUME NEW w \in Workers, NEW s \in Syncs, Take(w, s),
               UNCHANGED metricVars
        PROVE  MetricTypes' /\ Asked'
    BY <1>7, <1>8 DEF Take, Goto
  <1>9. ASSUME NEW w \in Workers, Claim(w) PROVE MetricTypes' /\ Asked'
    BY <1>7, <1>9 DEF Claim, Goto
  <1>10. ASSUME NEW w \in Workers, UNCHANGED metricVars,
                FailRead(w) \/ FailWrite(w) \/ Ack(w) \/ TaskRaises(w)
         PROVE  MetricTypes' /\ Asked'
    BY <1>7, <1>10 DEF FailRead, FailWrite, Ack, TaskRaises, GoIdle, Goto
  <1>11. ASSUME NEW w \in Workers, Lose(w) PROVE MetricTypes' /\ Asked'
    BY <1>11, AskedEnds
    DEF Lose, WorkerCrash, ChildLost, GoIdle, Goto, Forget, MetricTypes
  <1>12. ASSUME NEW w \in Workers, CollectionRaises(w)
         PROVE  MetricTypes' /\ Asked'
    BY <1>12, AskedEnds DEF CollectionRaises, Failing, Goto, MetricTypes
  <1>13. ASSUME NEW w \in Workers, Persist(w) PROVE MetricTypes' /\ Asked'
    BY <1>13, AskedEnds DEF Persist, Goto, MetricTypes
  <1>14. MetricTypes' /\ Asked'
    BY <1>2, <1>3, <1>5, <1>6, <1>8, <1>9, <1>10, <1>11, <1>12, <1>13,
       BatchKept, InventoryRead
    DEF Next, WorkStep, Call, Receive, Return
  <1> QED
    BY <1>1, <1>14

LEMMA InvHolds ==
  ASSUME "lost_reply" \notin Faults
  PROVE  Spec => []MetricInv
  <1>1. Init => MetricInv
    <2> SUFFICES ASSUME Init PROVE MetricInv
      OBVIOUS
    <2>1. DispatchInv
      BY InitInv DEF Init
    <2>2. NoWork \in Work
      BY DEF NoWork, Work
    <2>3. MetricTypes
      BY <2>2 DEF Init, MetricTypes
    <2>4. Asked
      BY DEF Init, Asked, DispatchInit
    <2> QED
      BY <2>1, <2>3, <2>4 DEF MetricInv
  <1>2. MetricInv /\ [Next]_vars => MetricInv'
    BY InvKept
  <1> QED
    BY <1>1, <1>2, PTL DEF Spec
-----------------------------------------------------------------------------
(* Whatever is delivered twice or dies, one worker collects for a          *)
(* connection and Region: the claim lets one worker have an id, and the    *)
(* index one id have the key.                                              *)
THEOREM OneCollectorHolds ==
  ASSUME "lost_reply" \notin Faults
  PROVE  Spec => []OneCollector
  <1>1. MetricInv => OneCollector
    BY DEF MetricInv, DispatchInv, Types, DispatchTypeOK, Owned, Busy,
       OneActiveSync, IsActive, Active, OneCollector
  <1> QED
    BY <1>1, InvHolds, PTL

(* Every datapoint has a synchronization of its connection and Region that *)
(* ended well: what is persisted was asked for, and what ended stays so.   *)
LEMMA SourceKept ==
  ASSUME MetricInv, PointsHaveSource, "lost_reply" \notin Faults, [Next]_vars
  PROVE  PointsHaveSource'
  <1>1. \A s \in Syncs : sync[s].status \in {"COMPLETED", "PARTIAL"}
                               => sync'[s] = sync[s]
    BY DispatchKept
    DEF MetricInv, DispatchInv, Types, DispatchTypeOK, RowStep, Submits,
        Starts, Ends, Active
  <1>2. CASE UNCHANGED points
    BY <1>1, <1>2 DEF PointsHaveSource, MetricInv, MetricTypes
  <1>3. ASSUME NEW w \in Workers, Persist(w) PROVE PointsHaveSource'
    <2> SUFFICES ASSUME NEW q \in Series, points'[q] # None
                 PROVE  /\ KeyOf[points'[q]] = HomeOf[q]
                        /\ sync'[points'[q]].status \in {"COMPLETED", "PARTIAL"}
      BY DEF PointsHaveSource
    <2>1. CASE q \notin work[w].records
      <3>1. points'[q] = points[q]
        BY <1>3, <2>1 DEF Persist
      <3> QED
        BY <1>1, <3>1 DEF PointsHaveSource, MetricInv, MetricTypes
    <2>2. CASE q \in work[w].records
      <3>1. points'[q] = task[w] /\ KeyOf[task[w]] = HomeOf[q]
        BY <1>3, <2>2 DEF Persist, MetricInv, Asked, Own
      <3>2. Outcome(w).status \in {"COMPLETED", "PARTIAL"}
        BY <2>2 DEF Outcome, NothingAnswered
      <3>3. sync'[task[w]].status = Outcome(w).status
        BY <1>3, <3>2 DEF Persist, MetricInv, DispatchInv, Types,
           DispatchTypeOK, Loaded, Flush
      <3> QED
        BY <3>1, <3>2, <3>3
    <2> QED
      BY <2>1, <2>2
  <1> QED
    BY <1>2, <1>3
    DEF Next, vars, metricVars, InventoryChanges, Call, Receive, Return,
        WorkStep, Claim, ReadInventory, AskBatch, CollectionRaises, Lose,
        Forget

THEOREM PointsHaveSourceHolds ==
  ASSUME "lost_reply" \notin Faults
  PROVE  Spec => []PointsHaveSource
  <1>1. Init => PointsHaveSource
    BY DEF Init, PointsHaveSource
  <1>2. MetricInv /\ PointsHaveSource /\ [Next]_vars => PointsHaveSource'
    BY SourceKept
  <1> QED
    BY <1>1, <1>2, InvHolds, PTL DEF Spec

(* A synchronization ends well by Persist only, whose count of batches is  *)
(* the number of those that were asked.                                    *)
LEMMA EndsWellByPersist ==
  ASSUME MetricInv, Next, NEW w \in Workers, pc[w] = "collect",
         sync[task[w]].status = "RUNNING",
         sync'[task[w]].status \in {"COMPLETED", "PARTIAL"}
  PROVE  Persist(w)
  <1> USE DEF MetricInv, DispatchInv, Types, DispatchTypeOK
  <1>1. task[w] \in Syncs
    OBVIOUS
  <1>2. ASSUME NEW s \in Syncs, InsertRow(s) \/ MarkDispatchFailed(s)
        PROVE  FALSE
    BY <1>1, <1>2 DEF InsertRow, MarkDispatchFailed, Queued, Failed, Flush
  <1>3. ASSUME NEW v \in Workers, Claim(v) PROVE FALSE
    <2>1. \/ sync' = sync
          \/ sync' = [sync EXCEPT ![task[v]] = Failed("CONNECTION_NOT_VERIFIED")]
          \/ sync' = [sync EXCEPT ![task[v]].status = "RUNNING"]
      BY <1>3 DEF Claim
    <2>2. task[v] \in Syncs
      BY <1>3 DEF Claim
    <2>3. sync'[task[w]] # sync[task[w]] => task[v] = task[w]
      BY <1>1, <2>1, <2>2
    <2>4. sync'[task[v]].status \in {sync[task[v]].status, "FAILED", "RUNNING"}
      BY <2>1, <2>2 DEF Failed, Row
    <2> QED
      BY <1>1, <2>3, <2>4
  <1>4. ASSUME NEW v \in Workers, FailWrite(v) PROVE FALSE
    BY <1>1, <1>4 DEF FailWrite, Failed, Flush
  <1>5. ASSUME NEW v \in Workers, Persist(v) PROVE v = w
    <2>1. sync' = [sync EXCEPT ![task[v]] = Flush(@, mem[v], Outcome(v))]
      BY <1>5 DEF Persist
    <2>2. task[v] = task[w]
      BY <1>1, <2>1
    <2> QED
      BY <1>5, <2>2 DEF Persist, Owned, Busy
  <1>6. sync' # sync
    OBVIOUS
  <1> QED
    BY <1>2, <1>3, <1>4, <1>5, <1>6
    DEF Next, VerifyConnection, InventoryChanges, CheckRequest, ApiCrash,
        Call, RequestStep, SendTask, SendRaises, Receive, Take, Return,
        Redeliver, WorkStep, ReadInventory, AskBatch, CollectionRaises,
        FailRead, Ack, TaskRaises, Lose, WorkerCrash, ChildLost

THEOREM UnansweredIsNoSuccessHolds ==
  ASSUME "lost_reply" \notin Faults
  PROVE  Spec => UnansweredIsNoSuccess
  <1> DEFINE Good(w) == \/ work[w].batches = 0
                        \/ work[w].failed < work[w].batches
                        \/ work[w].records # {}
  <1>1. ASSUME MetricInv, NEW w \in Workers, Persist(w),
               sync'[task[w]].status \in {"COMPLETED", "PARTIAL"}
        PROVE  Good(w)
    <2>1. /\ work[w] \in Work /\ pc[w] = "collect" /\ Counted(w)
          /\ work[w].batches = BatchCount(w)
      BY <1>1 DEF Persist, MetricInv, MetricTypes, Asked, Counted
    <2>2. ~NothingAnswered(w)
      BY <1>1 DEF Persist, MetricInv, DispatchInv, Types, DispatchTypeOK,
         Loaded, Flush, Outcome, Failed
    <2> QED
      BY <2>1, <2>2 DEF Counted, NothingAnswered, Work
  <1>2. MetricInv /\ [Next]_vars =>
          [\A w \in Workers :
              LET s == task[w]
              IN  /\ pc[w] = "collect"
                  /\ sync[s].status = "RUNNING"
                  /\ sync'[s].status \in {"COMPLETED", "PARTIAL"}
                  => Good(w)]_vars
    BY <1>1, EndsWellByPersist
  <1> QED
    BY <1>2, InvHolds, PTL DEF Spec, UnansweredIsNoSuccess

(* Metric synchronizations are abstract jobs.                              *)
THEOREM MetricSyncsAreJobs ==
  ASSUME "lost_reply" \notin Faults
  PROVE  Spec => SyncsAreJobs
  <1>1. Init => Jobs!Init
    BY DEF Init, DispatchInit, Jobs!Init, JobPhase, NoRow
  <1>2. MetricInv /\ [Next]_vars => [Jobs!Next]_JobPhase
    BY DispatchKept, RowStepIsJobStep
    DEF MetricInv, DispatchInv, Types, DispatchTypeOK
  <1> QED
    BY <1>1, <1>2, InvHolds, PTL DEF Spec, SyncsAreJobs, Jobs!SafeSpec
=============================================================================
