----------------------------- MODULE MetricSyncs -----------------------------
(***************************************************************************)
(* Metric synchronizations of a connection and a Region.  The request and  *)
(* the broker are SyncDispatch's; here is synchronize_metrics              *)
(* (metrics/tasks.py): it claims the QUEUED row under FOR UPDATE, reads    *)
(* the active inventory, asks CloudWatch in batches of queries, and        *)
(* upserts the datapoints and ends the synchronization in one transaction. *)
(***************************************************************************)
EXTENDS SyncDispatch, FiniteSetsExt

CONSTANTS
    Series,     \* the metrics of the inventory resources, a query for each
    HomeOf,     \* the connection and Region of a series
    BatchSize   \* queries in a GetMetricData request: 500

ASSUME SeriesAssumption ==
    /\ IsFiniteSet(Series)
    /\ DOMAIN HomeOf = Series
    /\ BatchSize \in Nat \ {0}

VARIABLES
    active,   \* series of the resources that are active in the inventory
    points,   \* resource_metrics.sync_id of the last datapoint of a series
    work      \* what each worker has asked and been told

metricVars == <<active, points, work>>
vars == <<dispatchVars, metricVars>>
-----------------------------------------------------------------------------
MetricErrors == {"NONE", "DISPATCH_FAILED", "CONNECTION_NOT_VERIFIED",
                 "AWS_ROLE_UNAVAILABLE", "CLOUDWATCH_METRICS_UNAVAILABLE",
                 "METRIC_PERSISTENCE_FAILED", "CLOUDWATCH_DATA_PARTIAL"}

ASSUME MetricErrorsAssumption == MetricErrors \subseteq Errors

MetricPCs == {"idle", "claim", "read", "collect", "failRead", "failWrite", "ack"}

(* The queries to be asked, how many there were, the series that records   *)
(* came for, failed_batches, and the batches asked so far.                 *)
Work == [left: SUBSET Series, queries: Nat, records: SUBSET Series,
         failed: Nat, batches: Nat]
NoWork == [left |-> {}, queries |-> 0, records |-> {}, failed |-> 0,
           batches |-> 0]

TypeOK ==
    /\ DispatchTypeOK(MetricPCs)
    /\ active \subseteq Series
    /\ points \in [Series -> Syncs \cup {None}]
    /\ work \in [Workers -> Work]
    /\ \A w \in Workers : pc[w] # "collect" => work[w] = NoWork

Init ==
    /\ DispatchInit
    /\ active = {}
    /\ points = [q \in Series |-> None]
    /\ work = [w \in Workers |-> NoWork]

(* A scan of the Region has found a resource, or not found it any more.    *)
InventoryChanges(q) ==
    /\ active' = IF q \in active THEN active \ {q} ELSE active \cup {q}
    /\ UNCHANGED <<dispatchVars, points, work>>

-----------------------------------------------------------------------------
(* Mutant: a synchronization that is RUNNING can be claimed as well.       *)
ClaimsActive(s) == IsActive(s)

Claimable(s) == sync[s].status = "QUEUED"

(* The row is locked from the read to the commit.                          *)
Claim(w) ==
    LET s == task[w]
    IN  /\ pc[w] = "claim"
        /\ \/ /\ ~Claimable(s)
              /\ Goto(w, "ack")
              /\ UNCHANGED <<sync, mem>>
           \/ /\ Claimable(s)
              /\ connection[ConnectionOf[s]] # "VERIFIED"
              /\ sync' = [sync EXCEPT ![s] = Failed("CONNECTION_NOT_VERIFIED")]
              /\ Goto(w, "ack")
              /\ mem' = mem
           \/ /\ Claimable(s)
              /\ connection[ConnectionOf[s]] = "VERIFIED"
              /\ sync' = [sync EXCEPT ![s].status = "RUNNING"]
              /\ mem' = [mem EXCEPT ![w] = sync'[s]]
              /\ Goto(w, "read")
        /\ UNCHANGED <<connection, request, brokerVars, task, code, faultVars,
                       metricVars>>

(* The active resources of the connection and Region, as they are now.     *)
ReadInventory(w) ==
    LET queries == {q \in active : HomeOf[q] = KeyOf[task[w]]}
    IN  /\ pc[w] = "read"
        /\ work' = [work EXCEPT ![w] =
               [left |-> queries, queries |-> Cardinality(queries),
                records |-> {}, failed |-> 0, batches |-> 0]]
        /\ Goto(w, "collect")
        /\ UNCHANGED <<rowVars, request, brokerVars, task, mem, code, faultVars,
                       active, points>>

(* One round of get_metrics: a full batch, or what is left.  A series may  *)
(* have no datapoint; a batch that fails on a later page keeps the records *)
(* of the pages before.                                                    *)
AskBatch(w) ==
    LET left == work[w].left
        size == Min({BatchSize, Cardinality(left)})
    IN  /\ pc[w] = "collect"
        /\ left # {}
        /\ \E batch \in kSubset(size, left), fails \in {0, 1} :
              \E told \in SUBSET batch :
                 work' = [work EXCEPT ![w] =
                     [left |-> left \ batch, queries |-> @.queries,
                      records |-> @.records \cup told,
                      failed |-> @.failed + fails,
                      batches |-> @.batches + 1]]
        /\ UNCHANGED <<dispatchVars, active, points>>

Failing(w, e) ==
    /\ code' = [code EXCEPT ![w] = e]
    /\ work' = [work EXCEPT ![w] = NoWork]
    /\ Goto(w, "failRead")

(* Mutant: the records so far are committed, not rolled back.              *)
RaisesAfterWriting(w) ==
    /\ pc[w] = "collect"
    /\ points' = [q \in Series |->
           IF q \in work[w].records THEN task[w] ELSE points[q]]
    /\ Failing(w, "METRIC_PERSISTENCE_FAILED")
    /\ UNCHANGED <<rowVars, request, brokerVars, task, mem, faultVars, active>>

(* The role cannot be assumed, or anything else in the try block raises.   *)
CollectionRaises(w) ==
    /\ \/ /\ pc[w] = "collect" /\ work[w].batches = 0
          /\ Failing(w, "AWS_ROLE_UNAVAILABLE")
       \/ /\ pc[w] \in {"read", "collect"}
          /\ Failing(w, "METRIC_PERSISTENCE_FAILED")
    /\ UNCHANGED <<rowVars, request, brokerVars, task, mem, faultVars, active,
                   points>>

(* Mutant: off by one when the last batch is full.                         *)
OneBatchMore(w) == (work[w].queries + BatchSize) \div BatchSize

BatchCount(w) == (work[w].queries + BatchSize - 1) \div BatchSize

NothingAnswered(w) ==
    /\ BatchCount(w) > 0
    /\ work[w].failed = BatchCount(w)
    /\ work[w].records = {}

Outcome(w) ==
    IF NothingAnswered(w) THEN Failed("CLOUDWATCH_METRICS_UNAVAILABLE")
    ELSE IF work[w].failed > 0
         THEN [status |-> "PARTIAL", error |-> "CLOUDWATCH_DATA_PARTIAL"]
         ELSE [status |-> "COMPLETED", error |-> NoError]

(* The upserts and the end of the synchronization, in one transaction.     *)
Persist(w) ==
    /\ pc[w] = "collect"
    /\ work[w].left = {}
    /\ points' = [q \in Series |->
           IF q \in work[w].records THEN task[w] ELSE points[q]]
    /\ sync' = [sync EXCEPT ![task[w]] = Flush(@, mem[w], Outcome(w))]
    /\ work' = [work EXCEPT ![w] = NoWork]
    /\ Goto(w, "ack")
    /\ UNCHANGED <<connection, request, brokerVars, task, mem, code, faultVars,
                   active>>

-----------------------------------------------------------------------------
(* The steps of SyncDispatch, and what they mean for this module.          *)

Forget(w) ==
    /\ work' = [work EXCEPT ![w] = NoWork]
    /\ UNCHANGED <<active, points>>

Call(s) == RequestStep(s) /\ UNCHANGED metricVars

Receive(s) == \E w \in Workers : Take(w, s) /\ UNCHANGED metricVars

Return(s) == Redeliver(s) /\ UNCHANGED metricVars

WorkStep(w) ==
    \/ Claim(w) \/ ReadInventory(w) \/ AskBatch(w) \/ CollectionRaises(w)
    \/ Persist(w)
    \/ (FailRead(w) \/ FailWrite(w) \/ Ack(w) \/ TaskRaises(w))
         /\ UNCHANGED metricVars

Lose(w) == (WorkerCrash(w) \/ ChildLost(w)) /\ Forget(w)

Next ==
    \/ \E c \in Connections : VerifyConnection(c) /\ UNCHANGED metricVars
    \/ \E q \in Series : InventoryChanges(q)
    \/ \E s \in Syncs : (CheckRequest(s) \/ ApiCrash(s)) /\ UNCHANGED metricVars
    \/ \E s \in Syncs : Call(s) \/ Receive(s) \/ Return(s)
    \/ \E w \in Workers : WorkStep(w) \/ Lose(w)

Spec == Init /\ [][Next]_vars

(* A call that was begun returns, queued ids are taken, and what nobody    *)
(* acknowledged is handed back.                                            *)
Fairness ==
    /\ \A s \in Syncs : WF_vars(Call(s)) /\ WF_vars(Receive(s)) /\ WF_vars(Return(s))
    /\ \A w \in Workers : WF_vars(WorkStep(w))

FairSpec == Spec /\ Fairness
-----------------------------------------------------------------------------
(* Properties, besides those of SyncDispatch.                              *)

(* A synchronization does not end well when CloudWatch failed every batch  *)
(* and told nothing: the count of batches that is computed from the number *)
(* of queries is the number that was asked, full last batch or not.        *)
UnansweredIsNoSuccess ==
    [][\A w \in Workers :
          LET s == task[w]
          IN  /\ pc[w] = "collect"
              /\ sync[s].status = "RUNNING"
              /\ sync'[s].status \in {"COMPLETED", "PARTIAL"}
              => \/ work[w].batches = 0
                 \/ work[w].failed < work[w].batches
                 \/ work[w].records # {}]_vars

(* No two workers collect the metrics of a connection and Region at the    *)
(* same time, although nothing but the claim stands between them: the      *)
(* datapoints of the slower one would replace later ones.                  *)
OneCollector ==
    \A v, w \in Workers :
        /\ v # w
        /\ {pc[v], pc[w]} \subseteq {"read", "collect"}
        => KeyOf[task[v]] # KeyOf[task[w]]

(* Every datapoint was written by a synchronization of its own connection  *)
(* and Region that ended well.                                             *)
PointsHaveSource ==
    \A q \in Series :
        points[q] # None =>
            /\ KeyOf[points[q]] = HomeOf[q]
            /\ sync[points[q]].status \in {"COMPLETED", "PARTIAL"}
=============================================================================
