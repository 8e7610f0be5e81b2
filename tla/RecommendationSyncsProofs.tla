--------------------- MODULE RecommendationSyncsProofs ---------------------
(***************************************************************************)
(* Imports for one connection, for any number of them, of workers, keys    *)
(* and entries, whatever pages and calls fail, workers and pool children   *)
(* die and database calls raise.  Nothing is delivered while it is worked  *)
(* on, and the broker does not have a message whose send_task raised.      *)
(***************************************************************************)
EXTENDS RecommendationSyncs, SyncDispatchProofs, FiniteSetTheorems

(* All of the requests are for the connection whose rows are modelled.     *)
OneConnection == \A s, z \in Syncs : KeyOf[s] = KeyOf[z]

(* Compute Optimizer is asked about instances and volumes, whose ids no    *)
(* other Region has.                                                       *)
ComputeIdsAreGlobal ==
    \A i \in Items, k \in Keys :
        i.call # "hub" /\ i.name = NameOf[k] => RegionOf[k] = i.region

(* A Region has no two resources of a type with the same last part of the  *)
(* identifier.                                                             *)
NamesAreUnique ==
    \A k, l \in Keys : NameOf[k] = NameOf[l] /\ RegionOf[k] = RegionOf[l] => k = l

(* An id that a worker has is nowhere else.                                *)
Alone ==
    \A w \in Workers : pc[w] # "idle" =>
        /\ task[w] \notin ready
        /\ \A v \in Workers : v # w => task[v] # task[w]

(* From its claim to its end an import is active.                          *)
Asking == Calls \cup {"unavailable", "resources", "load", "merge"}

Claimed ==
    \A w \in Workers : pc[w] \in Asking \cup {"start", "fail"} => IsActive(task[w])

(* What the session of a worker knows of its row.                          *)
Known ==
    \A w \in Workers :
        /\ pc[w] = "start" => mem[w] = sync[task[w]]
        /\ pc[w] \in Asking => mem[w].status = "RUNNING"
        /\ pc[w] = "fail" => mem[w].status \notin Terminal

RowsInv ==
    /\ DispatchTypeOK(ImportPCs)
    /\ Unsent /\ Sent /\ Alone /\ Claimed /\ Known /\ OneActiveSync

(* What a worker was told: entries of the call that is being read, and     *)
(* before them normalised ones, of the Region and of a Hub that answered.  *)
ToldTo(w) ==
    /\ pc[w] \notin Asking => work[w] = NoWork
    /\ pc[w] \in Calls => work[w].page \subseteq Listed(w)
    /\ pc[w] = "hub" => work[w].items = {} /\ work[w].failed = {}
    /\ \A i \in work[w].items :
          /\ i \in Normalized(Items)
          /\ i.call = "hub" => "hub" \notin work[w].failed
          /\ i.call # "hub" => i.region = RegionAsked[task[w]]

Told == \A w \in Workers : ToldTo(w)

(* Rows are loaded for the merge, and nobody else writes them before it.   *)
Current ==
    \A w \in Workers : loaded[w] = IF pc[w] = "merge" THEN recs ELSE Tables!Nothing

WorkInv ==
    /\ active \subseteq Keys
    /\ work \in [Workers -> [page: SUBSET Items, items: SUBSET Items,
                             failed: SUBSET Calls]]
    /\ seen \in [Workers -> SUBSET Keys]
    /\ loaded = [w \in Workers |-> loaded[w]]
    /\ Told /\ Current

ImportInv == RowsInv /\ WorkInv
-----------------------------------------------------------------------------
USE DEF Row, Active, Terminal, RequestPCs, ImportPCs, Calls, HubCalls,
        ComputeCalls, Asking, DispatchTypeOK, dispatchVars, rowVars, brokerVars,
        workerVars, faultVars, importVars, ImportErrors

(* Nothing is there at first.                                              *)
LEMMA RowsInit == Init => RowsInv
  BY DispatchAssumption
  DEF Init, DispatchInit, RowsInv, Unsent, Sent, Alone, Claimed, Known,
      OneActiveSync, IsActive, NoRow, NoError

(* The request and the broker.                                             *)
LEMMA RowsStutter ==
  ASSUME RowsInv, UNCHANGED dispatchVars
  PROVE  RowsInv' /\ RowStep
  BY DEF RowsInv, Unsent, Sent, Alone, Claimed, Known, OneActiveSync, IsActive,
         RowStep

LEMMA RowsVerify ==
  ASSUME RowsInv, NEW c \in Connections, VerifyConnection(c)
  PROVE  RowsInv' /\ RowStep
  <1> USE DispatchAssumption DEF RowsInv, VerifyConnection
  <1>0. RowStep
    BY DEF RowStep
  <1>1. DispatchTypeOK(ImportPCs)'
    OBVIOUS
  <1>2. Unsent'
    BY DEF Unsent
  <1>3. Sent'
    BY DEF Sent
  <1>4. Alone'
    BY DEF Alone
  <1>5. Claimed'
    BY DEF Claimed, IsActive
  <1>6. Known'
    BY DEF Known
  <1> QED
    BY <1>0, <1>1, <1>2, <1>3, <1>4, <1>5, <1>6, RowStepKeepsOne

LEMMA RowsRequest ==
  ASSUME RowsInv, NEW s \in Syncs, CheckRequest(s) \/ ApiCrash(s)
  PROVE  RowsInv' /\ RowStep
  <1> USE DispatchAssumption DEF RowsInv, CheckRequest, ApiCrash, Fault
  <1>0. RowStep
    BY DEF RowStep
  <1>1. DispatchTypeOK(ImportPCs)'
    OBVIOUS
  <1>2. Unsent'
    BY DEF Unsent
  <1>3. Sent'
    BY DEF Sent
  <1>4. Alone'
    BY DEF Alone
  <1>5. Claimed'
    BY DEF Claimed, IsActive
  <1>6. Known'
    BY DEF Known
  <1> QED
    BY <1>0, <1>1, <1>2, <1>3, <1>4, <1>5, <1>6, RowStepKeepsOne

LEMMA RowsInsert ==
  ASSUME RowsInv, NEW s \in Syncs, InsertRow(s)
  PROVE  RowsInv' /\ RowStep
  <1> USE DispatchAssumption DEF RowsInv, InsertRow
  <1>0. RowStep
    BY DEF RowStep, Submits, Unsent, NoRow
  <1>1. DispatchTypeOK(ImportPCs)'
    <2>1. Queued \in Row
      BY DEF Queued, NoError
    <2>2. sync' \in [Syncs -> Row]
      BY <2>1
    <2>3. request' \in [Syncs -> RequestPCs]
      OBVIOUS
    <2> QED
      BY <2>2, <2>3
  <1>2. Unsent'
    BY DEF Unsent
  <1>3. Sent'
    BY DEF Sent
  <1>4. Alone'
    BY DEF Alone
  <1>5. Claimed'
    BY DEF Claimed, IsActive, Sent
  <1>6. Known'
    BY DEF Known, Sent
  <1> QED
    BY <1>0, <1>1, <1>2, <1>3, <1>4, <1>5, <1>6, RowStepKeepsOne

LEMMA RowsSend ==
  ASSUME RowsInv, NEW s \in Syncs, "lost_reply" \notin Faults,
         SendTask(s) \/ SendRaises(s)
  PROVE  RowsInv' /\ RowStep
  <1> USE DispatchAssumption DEF RowsInv, SendTask, SendRaises, Fault
  <1>0. RowStep
    BY DEF RowStep
  <1>1. DispatchTypeOK(ImportPCs)'
    <2>1. request' \in [Syncs -> RequestPCs] /\ ready' \subseteq Syncs
      OBVIOUS
    <2> QED
      BY <2>1
  <1>2. Unsent'
    BY DEF Unsent
  <1>3. Sent'
    BY DEF Sent
  <1>4. Alone'
    BY DEF Alone, Sent
  <1>5. Claimed'
    BY DEF Claimed, IsActive
  <1>6. Known'
    BY DEF Known
  <1> QED
    BY <1>0, <1>1, <1>2, <1>3, <1>4, <1>5, <1>6, RowStepKeepsOne

(* Only the request knows the id, so that nothing else has changed the row.*)
LEMMA RowsMark ==
  ASSUME RowsInv, NEW s \in Syncs, MarkDispatchFailed(s)
  PROVE  RowsInv' /\ RowStep
  <1> USE DispatchAssumption DEF RowsInv, MarkDispatchFailed
  <1>0. RowStep
    <2> DEFINE row == Failed("DISPATCH_FAILED")
    <2>1. row \in Row /\ row.status \in Terminal
      BY DEF Failed
    <2>2. sync[s] = Queued /\ sync' = [sync EXCEPT ![s] = row]
      BY DEF Unsent, Flush, Queued, Failed, NoError
    <2>3. sync[s].status \in Active
      BY <2>2 DEF Queued
    <2> QED
      BY <2>1, <2>2, <2>3 DEF RowStep, Ends
  <1>1. DispatchTypeOK(ImportPCs)'
    BY DEF Flush, Failed, Queued, NoError
  <1>2. Unsent'
    BY DEF Unsent
  <1>3. Sent'
    BY DEF Sent
  <1>4. Alone'
    BY DEF Alone
  <1>5. Claimed'
    BY DEF Claimed, IsActive, Sent
  <1>6. Known'
    BY DEF Known, Sent
  <1> QED
    BY <1>0, <1>1, <1>2, <1>3, <1>4, <1>5, <1>6, RowStepKeepsOne

LEMMA RowsTake ==
  ASSUME RowsInv, NEW w \in Workers, NEW s \in Syncs, Take(w, s)
  PROVE  RowsInv' /\ RowStep
  <1> USE DispatchAssumption DEF RowsInv, Take, Goto
  <1>0. RowStep
    BY DEF RowStep
  <1>1. DispatchTypeOK(ImportPCs)'
    OBVIOUS
  <1>2. Unsent'
    BY DEF Unsent
  <1>3. Sent'
    BY DEF Sent
  <1>4. Alone'
    BY DEF Alone
  <1>5. Claimed'
    BY DEF Claimed, IsActive
  <1>6. Known'
    BY DEF Known
  <1> QED
    BY <1>0, <1>1, <1>2, <1>3, <1>4, <1>5, <1>6, RowStepKeepsOne

LEMMA RowsRedeliver ==
  ASSUME RowsInv, NEW s \in Syncs, "duplicate" \notin Faults, Redeliver(s)
  PROVE  RowsInv' /\ RowStep
  <1> USE DispatchAssumption DEF RowsInv, Redeliver, Fault
  <1>0. RowStep
    BY DEF RowStep
  <1>1. DispatchTypeOK(ImportPCs)'
    OBVIOUS
  <1>2. Unsent'
    BY DEF Unsent
  <1>3. Sent'
    BY DEF Sent
  <1>4. Alone'
    BY DEF Alone
  <1>5. Claimed'
    BY DEF Claimed, IsActive
  <1>6. Known'
    BY DEF Known
  <1> QED
    BY <1>0, <1>1, <1>2, <1>3, <1>4, <1>5, <1>6, RowStepKeepsOne

(* A worker that is done, or dies.                                         *)
LEMMA RowsLeave ==
  ASSUME RowsInv, NEW w \in Workers, Ack(w) \/ ChildLost(w) \/ Crash(w)
  PROVE  RowsInv' /\ RowStep
  <1> USE DispatchAssumption DEF RowsInv, Ack, ChildLost, Crash, GoIdle, Goto, Fault, NoRow, NoError
  <1>0. RowStep
    BY DEF RowStep
  <1>1. DispatchTypeOK(ImportPCs)'
    <2>1. NoRow \in Row /\ NoError \in Errors
      OBVIOUS
    <2> HIDE DEF NoRow, NoError
    <2>2. /\ pc' = [pc EXCEPT ![w] = "idle"]
          /\ task' = [task EXCEPT ![w] = None]
          /\ mem' = [mem EXCEPT ![w] = NoRow]
          /\ code' = [code EXCEPT ![w] = NoError]
      OBVIOUS
    <2>3. /\ faults' \in 0..MaxFaults
          /\ lost' \subseteq Syncs
          /\ unacked' \subseteq Syncs
      OBVIOUS
    <2>4. UNCHANGED <<connection, sync, request, ready>>
      OBVIOUS
    <2> HIDE DEF Ack, ChildLost, Crash
    <2> QED
      BY <2>1, <2>2, <2>3, <2>4
  <1>2. Unsent'
    BY DEF Unsent
  <1>3. Sent'
    BY DEF Sent
  <1>4. Alone'
    BY DEF Alone
  <1>5. Claimed'
    BY DEF Claimed, IsActive
  <1>6. Known'
    BY DEF Known
  <1> QED
    BY <1>0, <1>1, <1>2, <1>3, <1>4, <1>5, <1>6, RowStepKeepsOne

(* The task: a step that takes worker w on, and may change its row.        *)
Moves(w) ==
    LET s == task[w] IN
    /\ pc[w] # "idle"
    /\ pc' = [pc EXCEPT ![w] = pc'[w]]
    /\ pc'[w] \in ImportPCs \ {"idle"}
    /\ sync' = [sync EXCEPT ![s] = sync'[s]]
    /\ mem' = [mem EXCEPT ![w] = mem'[w]]
    /\ code' \in [Workers -> Errors]
    /\ sync'[s] \in Row /\ mem'[w] \in Row
    /\ faults' \in 0..MaxFaults
    /\ lost' \subseteq Syncs
    /\ UNCHANGED <<connection, request, brokerVars, task>>
    /\ pc'[w] \in Asking \cup {"start", "fail"} => sync'[s].status \in Active
    /\ pc'[w] = "start" => mem'[w] = sync'[s]
    /\ pc'[w] \in Asking => mem'[w].status = "RUNNING"
    /\ pc'[w] = "fail" => mem'[w].status \notin Terminal

LEMMA MovesKeeps ==
  ASSUME RowsInv, NEW w \in Workers, Moves(w), RowStep
  PROVE  RowsInv'
  <1> USE DispatchAssumption DEF RowsInv, Moves
  <1>0. task[w] \in Syncs /\ \A v \in Workers : v # w => task[v] # task[w]
    BY DEF Alone
  <1>1. DispatchTypeOK(ImportPCs)'
    <2>1. pc' \in [Workers -> ImportPCs]
      OBVIOUS
    <2>2. sync' \in [Syncs -> Row]
      BY <1>0, RowStepTyped
    <2>4. mem' \in [Workers -> Row]
      BY Zenon
    <2>3. \A v \in Workers : task'[v] = None <=> pc'[v] = "idle"
      OBVIOUS
    <2> QED
      BY <2>1, <2>2, <2>3, <2>4
  <1>2. Unsent'
    BY <1>0 DEF Unsent, Sent
  <1>3. Sent'
    BY DEF Sent
  <1>4. Alone'
    BY DEF Alone
  <1>5. Claimed'
    BY <1>0 DEF Claimed, IsActive
  <1>6. Known'
    BY <1>0 DEF Known
  <1> QED
    BY <1>1, <1>2, <1>3, <1>4, <1>5, <1>6, RowStepKeepsOne

LEMMA RowsClaim ==
  ASSUME RowsInv, NEW w \in Workers, Claim(w)
  PROVE  RowsInv' /\ RowStep
  <1> USE DispatchAssumption, ImportErrorsAssumption DEF RowsInv, Claim, Acceptable, Record, Goto, IsActive
  <1>0. task[w] \in Syncs
    OBVIOUS
  <1>1. RowStep
    BY DEF RowStep
  <1>2. Moves(w)
    <2>1. CASE pc'[w] = "ack" /\ code' = code
      BY <1>0, <2>1 DEF Moves
    <2>2. CASE pc'[w] = "fail"
      BY <1>0, <2>2 DEF Moves
    <2>3. CASE pc'[w] = "start"
      BY <1>0, <2>3 DEF Moves
    <2> QED
      BY <2>1, <2>2, <2>3
  <1> QED
    BY <1>1, <1>2, MovesKeeps

LEMMA RowsStart ==
  ASSUME RowsInv, NEW w \in Workers, Start(w)
  PROVE  RowsInv' /\ RowStep
  <1> USE DispatchAssumption, ImportErrorsAssumption DEF RowsInv, Start, Goto
  <1>0. task[w] \in Syncs
    OBVIOUS
  <1>1. RowStep
    <2>1. sync[task[w]] = mem[w] /\ sync[task[w]] \in Row
      BY <1>0 DEF Known
    <2>2. mem[w].status \in {"QUEUED", "RUNNING"}
      BY <2>1 DEF Claimed, IsActive
    <2>3. sync' = [sync EXCEPT ![task[w]] =
                      Flush(@, mem[w], [mem[w] EXCEPT !.status = "RUNNING"])]
      OBVIOUS
    <2>4. Flush(mem[w], mem[w], [mem[w] EXCEPT !.status = "RUNNING"])
              = [mem[w] EXCEPT !.status = "RUNNING"]
      BY <2>1, <2>2 DEF Flush
    <2>5. sync' = [sync EXCEPT ![task[w]].status = "RUNNING"]
      BY <1>0, <2>1, <2>3, <2>4
    <2>6. CASE mem[w].status = "RUNNING"
      <3>1. [mem[w] EXCEPT !.status = "RUNNING"] = mem[w]
        BY <2>1, <2>6
      <3>2. sync' = sync
        BY <1>0, <2>1, <2>5, <3>1
      <3> QED
        BY <3>2 DEF RowStep
    <2>7. CASE mem[w].status = "QUEUED"
      BY <1>0, <2>1, <2>5, <2>7 DEF RowStep, Starts
    <2> QED
      BY <2>2, <2>6, <2>7
  <1>2. Moves(w)
    BY <1>0 DEF Moves, Flush, Claimed, IsActive, Known
  <1> QED
    BY <1>1, <1>2, MovesKeeps

LEMMA RowsCall ==
  ASSUME RowsInv, NEW w \in Workers, EndCall(w) \/ CallFails(w)
  PROVE  RowsInv' /\ RowStep
  <1> USE DispatchAssumption, ImportErrorsAssumption DEF RowsInv
  <1>0. task[w] \in Syncs
    BY DEF EndCall, CallFails
  <1>1. RowStep
    BY DEF RowStep, EndCall, CallFails, After
  <1>2. Moves(w)
    <2>1. /\ pc[w] \in Calls
          /\ pc' = [pc EXCEPT ![w] = pc'[w]]
          /\ pc'[w] \in {"ec2", "ebs", "unavailable", "resources"}
          /\ code' \in [Workers -> Errors]
          /\ UNCHANGED <<rowVars, request, brokerVars, task, mem, faultVars>>
      <3>1. pc[w] \in Calls
        BY DEF EndCall, CallFails
      <3>2. PICK items, failed : After(w, items, failed)
        BY DEF EndCall, CallFails
      <3> DEFINE step == IF pc[w] # "ebs" THEN NextCall[pc[w]]
                         ELSE IF /\ Completed(failed) = {}
                                 /\ Kept(items, failed) = {} THEN "unavailable"
                         ELSE "resources"
      <3>3. step \in {"ec2", "ebs", "unavailable", "resources"}
        BY <3>1 DEF NextCall
      <3>4. /\ pc' = [pc EXCEPT ![w] = step]
            /\ code' = code \/ \E e \in Errors : code' = [code EXCEPT ![w] = e]
            /\ UNCHANGED <<rowVars, request, brokerVars, task, mem, faultVars>>
        BY <3>2 DEF After, Goto, Record
      <3> HIDE DEF step
      <3> QED
        BY <3>1, <3>3, <3>4
    <2>2. sync[task[w]] \in Row /\ sync[task[w]].status \in Active
      BY <1>0, <2>1 DEF Claimed, IsActive
    <2>3. mem[w].status = "RUNNING" /\ mem[w] \in Row
      BY <2>1 DEF Known
    <2> QED
      BY <1>0, <2>1, <2>2, <2>3 DEF Moves
  <1> QED
    BY <1>1, <1>2, MovesKeeps

LEMMA RowsRead ==
  ASSUME RowsInv, NEW w \in Workers, ReadResources(w) \/ LoadRows(w)
  PROVE  RowsInv' /\ RowStep
  <1> USE DispatchAssumption, ImportErrorsAssumption DEF RowsInv, ReadResources, LoadRows, Goto
  <1>0. task[w] \in Syncs
    OBVIOUS
  <1>1. RowStep
    BY DEF RowStep
  <1>2. Moves(w)
    BY <1>0 DEF Moves, Claimed, Known, IsActive
  <1> QED
    BY <1>1, <1>2, MovesKeeps

LEMMA RowsMerge ==
  ASSUME RowsInv, NEW w \in Workers, Merge(w)
  PROVE  RowsInv' /\ RowStep
  <1> USE DispatchAssumption, ImportErrorsAssumption DEF RowsInv, Merge, Goto
  <1>0. task[w] \in Syncs
    OBVIOUS
  <1>1. RowStep
    BY <1>0 DEF RowStep, Ends, Flush, Outcome, Claimed, IsActive, Known, NoError
  <1>2. Moves(w)
    BY <1>0 DEF Moves, Flush, Outcome, NoError
  <1> QED
    BY <1>1, <1>2, MovesKeeps

LEMMA RowsRaise ==
  ASSUME RowsInv, NEW w \in Workers, ImportRaises(w) \/ Raises(w)
  PROVE  RowsInv' /\ RowStep
  <1> USE DispatchAssumption, ImportErrorsAssumption DEF RowsInv, ImportRaises, Raises, Record, Fault, Goto, NoRow, NoError
  <1>0. task[w] \in Syncs
    OBVIOUS
  <1>1. RowStep
    BY DEF RowStep
  <1>2. Moves(w)
    BY <1>0 DEF Moves, Claimed, IsActive
  <1> QED
    BY <1>1, <1>2, MovesKeeps

LEMMA RowsFail ==
  ASSUME RowsInv, NEW w \in Workers, Fail(w)
  PROVE  RowsInv' /\ RowStep
  <1> USE DispatchAssumption, ImportErrorsAssumption DEF RowsInv, Fail, Goto
  <1>0. task[w] \in Syncs
    OBVIOUS
  <1>1. RowStep
    BY <1>0 DEF RowStep, Ends, Flush, Failed, Claimed, IsActive, Known
  <1>2. Moves(w)
    BY <1>0 DEF Moves, Flush, Failed
  <1> QED
    BY <1>1, <1>2, MovesKeeps

LEMMA RowsNext ==
  ASSUME RowsInv, [Next]_vars, {"duplicate", "lost_reply"} \cap Faults = {}
  PROVE  RowsInv' /\ RowStep
  <1>1. ASSUME UNCHANGED dispatchVars PROVE RowsInv' /\ RowStep
    BY <1>1, RowsStutter
  <1>2. ASSUME NEW c \in Connections, VerifyConnection(c)
        PROVE  RowsInv' /\ RowStep
    BY <1>2, RowsVerify
  <1>3. ASSUME NEW s \in Syncs, CheckRequest(s) \/ ApiCrash(s) \/ Call(s)
        PROVE  RowsInv' /\ RowStep
    BY <1>3, RowsRequest, RowsInsert, RowsSend, RowsMark DEF Call, RequestStep
  <1>4. ASSUME NEW s \in Syncs, Receive(s) \/ Return(s)
        PROVE  RowsInv' /\ RowStep
    BY <1>4, RowsTake, RowsRedeliver DEF Receive, Return
  <1>5. ASSUME NEW w \in Workers, WorkStep(w) PROVE RowsInv' /\ RowStep
    BY <1>5, RowsClaim, RowsStart, RowsCall, RowsRead, RowsMerge, RowsRaise,
       RowsFail, RowsLeave
    DEF WorkStep
  <1>6. ASSUME NEW w \in Workers, Crash(w) \/ Lose(w) PROVE RowsInv' /\ RowStep
    BY <1>6, RowsLeave DEF Lose
  <1>7. ASSUME NEW w \in Workers, ReadPage(w) PROVE RowsInv' /\ RowStep
    BY <1>1, <1>7 DEF ReadPage
  <1>8. ASSUME NEW k \in Keys, InventoryChanges(k) PROVE RowsInv' /\ RowStep
    BY <1>1, <1>8 DEF InventoryChanges
  <1>9. ASSUME UNCHANGED vars PROVE RowsInv' /\ RowStep
    BY <1>1, <1>9 DEF vars
  <1> QED
    BY <1>2, <1>3, <1>4, <1>5, <1>6, <1>7, <1>8, <1>9 DEF Next

(* No two workers import at the same time.                                 *)
LEMMA OneImporter ==
  ASSUME RowsInv, OneConnection, NEW v \in Workers, NEW w \in Workers,
         pc[v] \in Asking, pc[w] \in Asking
  PROVE  v = w
  <1>1. /\ task[v] \in Syncs /\ task[w] \in Syncs
        /\ IsActive(task[v]) /\ IsActive(task[w])
    BY DEF RowsInv, Claimed
  <1>2. v # w => task[v] # task[w]
    BY DEF RowsInv, Alone
  <1> QED
    BY <1>1, <1>2 DEF OneConnection, RowsInv, OneActiveSync
-----------------------------------------------------------------------------
(* What workers were told and have read.                                   *)
LEMMA WorkInit == Init => WorkInv
  BY DEF Init, WorkInv, DispatchInit, Told, ToldTo, Current, NoWork

(* A step of the rest of the system, or of a worker that is not asking.    *)
Elsewhere ==
    /\ UNCHANGED <<work, seen, loaded, recs>>
    /\ active' \subseteq Keys
    /\ \A w \in Workers :
          \/ pc'[w] = pc[w] /\ task'[w] = task[w]
          \/ pc[w] \notin Asking /\ pc'[w] \notin Asking \ {"hub"}

LEMMA WorkElsewhere ==
  ASSUME WorkInv, Elsewhere
  PROVE  WorkInv'
  <1> USE DEF WorkInv, Elsewhere
  <1>1. Told'
    <2> SUFFICES ASSUME NEW w \in Workers PROVE ToldTo(w)'
      BY DEF Told
    <2>1. CASE pc'[w] = pc[w] /\ task'[w] = task[w]
      BY <2>1 DEF Told, ToldTo, Listed
    <2>2. CASE pc[w] \notin Asking /\ pc'[w] \notin Asking \ {"hub"}
      BY <2>2 DEF Told, ToldTo, NoWork
    <2> QED
      BY <2>1, <2>2
  <1>2. Current'
    BY DEF Current
  <1> QED
    BY <1>1, <1>2

(* A worker whose import is over, in one way or another.                   *)
Leaves(w) ==
    /\ pc' = [pc EXCEPT ![w] = pc'[w]]
    /\ pc'[w] \notin Asking
    /\ \A v \in Workers : v # w => task'[v] = task[v]
    /\ Forget(w)
    /\ recs' = recs \/ \A v \in Workers : v # w => pc[v] # "merge"

LEMMA WorkLeaves ==
  ASSUME RowsInv, WorkInv, NEW w \in Workers, Leaves(w)
  PROVE  WorkInv'
  <1> USE DEF WorkInv, Leaves, Forget
  <1>1. /\ NoWork \in [page: SUBSET Items, items: SUBSET Items, failed: SUBSET Calls]
        /\ NoWork.items = {}
    BY DEF NoWork
  <1>2. /\ work' \in [Workers -> [page: SUBSET Items, items: SUBSET Items,
                                  failed: SUBSET Calls]]
        /\ seen' \in [Workers -> SUBSET Keys]
        /\ loaded' = [v \in Workers |-> loaded'[v]]
        /\ active' \subseteq Keys
    BY <1>1
  <1>3. /\ work'[w] = NoWork /\ loaded'[w] = Tables!Nothing
        /\ \A v \in Workers : v # w => /\ work'[v] = work[v] /\ pc'[v] = pc[v]
                                        /\ loaded'[v] = loaded[v]
    BY DEF RowsInv
  <1> HIDE DEF Forget
  <1>4. Told'
    <2> SUFFICES ASSUME NEW v \in Workers PROVE ToldTo(v)'
      BY DEF Told
    <2>1. CASE v = w
      BY <1>1, <1>3, <2>1 DEF ToldTo
    <2>2. CASE v # w
      BY <1>3, <2>2 DEF Told, ToldTo, Listed
    <2> QED
      BY <2>1, <2>2
  <1>5. Current'
    <2>1. \A v \in Workers : v # w /\ pc[v] = "merge" => recs' = recs
      OBVIOUS
    <2> QED
      BY <1>3, <2>1 DEF Current
  <1> QED
    BY <1>2, <1>4, <1>5
LEMMA WorkPage ==
  ASSUME RowsInv, WorkInv, NEW w \in Workers, ReadPage(w)
  PROVE  WorkInv'
  <1> USE DEF WorkInv
  <1>1. PICK more \in SUBSET Listed(w) :
            work' = [work EXCEPT ![w].page = @ \cup more]
    BY DEF ReadPage
  <1>2. /\ pc[w] \in Calls
        /\ UNCHANGED <<dispatchVars, active, recs, seen, loaded>>
    BY DEF ReadPage
  <1>3. more \subseteq Items
    BY <1>1 DEF Listed
  <1>4. /\ work' \in [Workers -> [page: SUBSET Items, items: SUBSET Items,
                                  failed: SUBSET Calls]]
        /\ work'[w].page = work[w].page \cup more
        /\ work'[w].items = work[w].items /\ work'[w].failed = work[w].failed
        /\ \A v \in Workers : v # w => work'[v] = work[v]
    BY <1>1, <1>3
  <1>5. Told'
    <2> SUFFICES ASSUME NEW v \in Workers PROVE ToldTo(v)'
      BY DEF Told
    <2>1. ToldTo(v)
      BY DEF Told
    <2> QED
      BY <1>1, <1>2, <1>4, <2>1 DEF ToldTo, Listed
  <1>6. Current'
    BY <1>2 DEF Current
  <1> QED
    BY <1>2, <1>4, <1>5, <1>6

(* Entries that are kept are normalised and of the call that listed them.  *)
LEMMA WorkCall ==
  ASSUME RowsInv, WorkInv, NEW w \in Workers, EndCall(w) \/ CallFails(w)
  PROVE  WorkInv'
  <1> USE DEF WorkInv
  <1>1. pc[w] \in Calls /\ ToldTo(w)
    BY DEF EndCall, CallFails, Told
  <1>2. \E kept \in SUBSET Normalized(work[w].page), failed \in SUBSET Calls :
           /\ After(w, work[w].items \cup kept, failed)
           /\ failed \in {work[w].failed, work[w].failed \cup {pc[w]}}
           /\ pc[w] = "hub" /\ failed # work[w].failed => kept = {}
    BY <1>1 DEF EndCall, CallFails
  <1>3. PICK kept \in SUBSET Normalized(work[w].page), failed \in SUBSET Calls :
           /\ After(w, work[w].items \cup kept, failed)
           /\ failed \in {work[w].failed, work[w].failed \cup {pc[w]}}
           /\ pc[w] = "hub" /\ failed # work[w].failed => kept = {}
    BY <1>2
  <1> DEFINE all == Kept(work[w].items \cup kept, failed)
             now == [page |-> {}, items |-> all, failed |-> failed]
  <1>4. \A i \in kept : /\ i \in Normalized(Items) /\ i \in Items
                        /\ i.call = pc[w]
                        /\ i.call # "hub" => i.region = RegionAsked[task[w]]
    BY <1>1 DEF ToldTo, Listed, Normalized
  <1>5. all \subseteq work[w].items \cup kept
    BY DEF Kept
  <1>6. \A i \in all : /\ i \in Normalized(Items) /\ i \in Items
                       /\ i.call = "hub" => "hub" \notin failed
                       /\ i.call # "hub" => i.region = RegionAsked[task[w]]
    <2> SUFFICES ASSUME NEW i \in all
                 PROVE  /\ i \in Normalized(Items) /\ i \in Items
                        /\ i.call = "hub" => "hub" \notin failed
                        /\ i.call # "hub" => i.region = RegionAsked[task[w]]
      OBVIOUS
    <2>1. CASE i \in work[w].items
      BY <1>1, <1>3, <2>1 DEF ToldTo
    <2>2. CASE i \in kept
      BY <1>1, <1>3, <1>4, <2>2 DEF ToldTo
    <2> QED
      BY <1>5, <2>1, <2>2
  <1>7. /\ pc' = [pc EXCEPT ![w] = pc'[w]]
        /\ pc'[w] \in {"ec2", "ebs", "unavailable", "resources"}
    <2> DEFINE step == IF pc[w] # "ebs" THEN NextCall[pc[w]]
                       ELSE IF Completed(failed) = {} /\ all = {} THEN "unavailable"
                       ELSE "resources"
    <2>1. step \in {"ec2", "ebs", "unavailable", "resources"}
      BY <1>1 DEF NextCall
    <2>2. pc' = [pc EXCEPT ![w] = step]
      BY <1>3 DEF After, Goto
    <2> HIDE DEF step
    <2> QED
      BY <2>1, <2>2 DEF RowsInv
  <1>8. /\ work' = [work EXCEPT ![w] = now]
        /\ UNCHANGED <<task, active, recs, seen, loaded>>
    BY <1>3 DEF After
  <1> HIDE DEF all
  <1>9. now \in [page: SUBSET Items, items: SUBSET Items, failed: SUBSET Calls]
    BY <1>6
  <1>10. Told'
    <2> SUFFICES ASSUME NEW v \in Workers PROVE ToldTo(v)'
      BY DEF Told
    <2>1. CASE v = w
      <3>1. work'[w] = now
        BY <1>8
      <3> QED
        BY <1>6, <1>7, <1>8, <2>1, <3>1 DEF ToldTo
    <2>2. CASE v # w
      <3>1. work'[v] = work[v] /\ pc'[v] = pc[v] /\ task' = task
        BY <1>7, <1>8, <2>2 DEF RowsInv
      <3>2. ToldTo(v)
        BY DEF Told
      <3> HIDE DEF WorkInv
      <3> QED
        BY <3>1, <3>2 DEF ToldTo, Listed
    <2> QED
      BY <2>1, <2>2
  <1>11. Current'
    BY <1>1, <1>7, <1>8 DEF Current, RowsInv
  <1> QED
    BY <1>8, <1>9, <1>10, <1>11

LEMMA WorkRead ==
  ASSUME RowsInv, WorkInv, NEW w \in Workers, ReadResources(w) \/ LoadRows(w)
  PROVE  WorkInv'
  <1> USE DEF WorkInv, ReadResources, LoadRows, Goto, RowsInv
  <1>1. Told'
    <2> SUFFICES ASSUME NEW v \in Workers PROVE ToldTo(v)'
      BY DEF Told
    <2>1. /\ work' = work /\ task' = task
          /\ \/ pc'[v] = pc[v]
             \/ /\ pc[v] \in {"resources", "load", "merge"}
                /\ pc'[v] \in {"resources", "load", "merge"}
      OBVIOUS
    <2>2. ToldTo(v)
      BY DEF Told
    <2> HIDE DEF WorkInv, ReadResources, LoadRows, RowsInv
    <2> QED
      BY <2>1, <2>2 DEF ToldTo, Listed
  <1>2. Current'
    BY DEF Current
  <1>3. loaded' = [v \in Workers |-> loaded'[v]]
    OBVIOUS
  <1>4. seen' \in [Workers -> SUBSET Keys]
    OBVIOUS
  <1> QED
    BY <1>1, <1>2, <1>3, <1>4
LEMMA WorkNext ==
  ASSUME ImportInv, RowsInv', OneConnection, [Next]_vars
  PROVE  WorkInv'
  <1> USE DEF ImportInv
  <1>1. ASSUME UNCHANGED <<pc, task, work, seen, loaded, recs>>,
               active' \subseteq Keys
        PROVE  WorkInv'
    <2>1. Elsewhere
      BY <1>1 DEF Elsewhere
    <2> QED
      BY <2>1, WorkElsewhere
  <1>2. active \subseteq Keys
    BY DEF WorkInv
  <1>3. ASSUME NEW c \in Connections, VerifyConnection(c) /\ UNCHANGED importVars
        PROVE  WorkInv'
    BY <1>1, <1>2, <1>3 DEF VerifyConnection
  <1>4. ASSUME NEW k \in Keys, InventoryChanges(k) PROVE WorkInv'
    BY <1>1, <1>2, <1>4 DEF InventoryChanges
  <1>5. ASSUME NEW s \in Syncs,
               \/ (CheckRequest(s) \/ ApiCrash(s)) /\ UNCHANGED importVars
               \/ Call(s) \/ Return(s)
        PROVE  WorkInv'
    BY <1>1, <1>2, <1>5
    DEF CheckRequest, ApiCrash, Call, RequestStep, InsertRow, SendTask,
        SendRaises, MarkDispatchFailed, Return, Redeliver
  <1>6. ASSUME NEW s \in Syncs, Receive(s) PROVE WorkInv'
    <2>1. Elsewhere
      BY <1>2, <1>6 DEF Elsewhere, Receive, Take, Goto, RowsInv
    <2> QED
      BY <2>1, WorkElsewhere
  <1>7. ASSUME NEW w \in Workers,
               \/ Claim(w) \/ Start(w) \/ Raises(w)
               \/ Ack(w) /\ UNCHANGED importVars
        PROVE  WorkInv'
    <2>1. Elsewhere
      <3>1. UNCHANGED <<work, seen, loaded, recs, active>>
        BY <1>7 DEF Claim, Start, Raises
      <3>2. /\ pc[w] \in {"claim", "start", "fail", "ack"}
            /\ pc' = [pc EXCEPT ![w] = pc'[w]]
            /\ pc'[w] \in {"idle", "start", "hub", "fail", "ack"}
        BY <1>7 DEF Claim, Start, Raises, Ack, GoIdle, Goto, RowsInv
      <3>3. \A v \in Workers : v # w => task'[v] = task[v]
        BY <1>7 DEF Claim, Start, Raises, Ack, GoIdle, RowsInv
      <3> QED
        BY <1>2, <3>1, <3>2, <3>3 DEF Elsewhere, RowsInv
    <2> QED
      BY <2>1, WorkElsewhere
  <1>8. ASSUME NEW w \in Workers,
               ImportRaises(w) \/ Fail(w) \/ Crash(w) \/ Lose(w)
        PROVE  WorkInv'
    <2>1. Leaves(w)
      BY <1>8
      DEF Leaves, ImportRaises, Fail, Crash, Lose, ChildLost, GoIdle, Goto, RowsInv
    <2> QED
      BY <2>1, WorkLeaves
  <1>9. ASSUME NEW w \in Workers, Merge(w) PROVE WorkInv'
    <2>1. \A v \in Workers : v # w => pc[v] # "merge"
      BY <1>9, OneImporter DEF Merge
    <2>2. Leaves(w)
      BY <1>9, <2>1 DEF Leaves, Merge, Goto, RowsInv
    <2> QED
      BY <2>2, WorkLeaves
  <1>10. ASSUME NEW w \in Workers,
                \/ EndCall(w) \/ CallFails(w) \/ ReadPage(w)
                \/ ReadResources(w) \/ LoadRows(w)
         PROVE  WorkInv'
    BY <1>10, WorkCall, WorkPage, WorkRead
  <1>11. ASSUME UNCHANGED vars PROVE WorkInv'
    BY <1>1, <1>2, <1>11 DEF vars
  <1> HIDE DEF ImportInv
  <1> QED
    BY <1>3, <1>4, <1>5, <1>6, <1>7, <1>8, <1>9, <1>10, <1>11 DEF Next, WorkStep

-----------------------------------------------------------------------------
(* What a merge makes of a row.                                            *)
Sound(rec) ==
    /\ rec \in Tables!Recommendation
    /\ rec.status = "ABSENT" => rec.sources = {}

(* The new row has the sources of the old one, and maybe others.           *)
Extends(new, rec) ==
    /\ Sound(new)
    /\ rec.sources \subseteq new.sources
    /\ rec.status # "ABSENT" => new.status # "ABSENT"

Reported(f) == f.source \in Tables!External /\ f.amount \in SUBSET Tables!Parts

LEMMA AbsentSound == Sound(Tables!Absent)
  BY DEF Sound, Tables!Absent, Tables!Recommendation

LEMMA NewSound ==
  ASSUME NEW source \in Tables!External
  PROVE  /\ Sound(Tables!NewRecommendation(source))
         /\ Tables!NewRecommendation(source).status = "OPEN"
  BY DEF Sound, Tables!NewRecommendation, Tables!Absent, Tables!Recommendation,
         Tables!Statuses, Tables!External

LEMMA WithSourceExtends ==
  ASSUME NEW rec, Sound(rec), rec.status # "ABSENT", NEW source \in Tables!External
  PROVE  Extends(Tables!WithSource(rec, source), rec)
  BY DEF Sound, Extends, Tables!WithSource, Tables!Recommendation, Tables!External

LEMMA WithPriceSound ==
  ASSUME NEW rec, Sound(rec), NEW amount \in SUBSET Tables!Parts,
         NEW pricing \in {"AVAILABLE", "STALE", "UNAVAILABLE"},
         NEW origin \in Tables!External \cup {"none", "list"}
  PROVE  LET new == Tables!WithPrice(rec, pricing, origin, amount)
         IN  Sound(new) /\ new.sources = rec.sources /\ new.status = rec.status
  <1> DEFINE new == Tables!WithPrice(rec, pricing, origin, amount)
  <1>1. /\ new \in Tables!Recommendation
        /\ new.sources = rec.sources /\ new.status = rec.status
    BY DEF Sound, Tables!WithPrice, Tables!Recommendation
  <1> HIDE DEF new
  <1>2. Sound(new)
    BY <1>1 DEF Sound
  <1> QED
    BY <1>1, <1>2 DEF new

LEMMA ResolveSound ==
  ASSUME NEW rec, Sound(rec)
  PROVE  /\ Sound(Tables!Resolve(rec))
         /\ Tables!Resolve(rec).sources = rec.sources
         /\ Tables!Resolve(rec).status # "ABSENT"
  BY DEF Sound, Tables!Resolve, Tables!Recommendation, Tables!Statuses

(* A finding adds a source and takes none.                                 *)
LEMMA FoundExtends ==
  ASSUME NEW rec, Sound(rec), NEW f, Reported(f)
  PROVE  Extends(Tables!Found(rec, f), rec)
  <1> DEFINE old == IF Tables!Exists(rec) THEN rec
                    ELSE Tables!NewRecommendation(f.source)
             known == Tables!WithSource(old, f.source)
             pricing == IF Tables!ShowsSaving(f.amount) THEN "AVAILABLE" ELSE "UNAVAILABLE"
             priced == Tables!WithPrice(known, pricing, f.source, f.amount)
  <1>1. Extends(old, rec) /\ Sound(old) /\ old.status # "ABSENT"
    BY NewSound DEF Reported, Tables!Exists, Extends, Sound
  <1>2. Tables!Found(rec, f) \in {known, priced}
    BY DEF Tables!Found, Tables!AttachSource
  <1> HIDE DEF old
  <1>3. Extends(known, old) /\ Sound(known)
    BY <1>1, WithSourceExtends DEF Reported, Extends
  <1>4. pricing \in {"AVAILABLE", "STALE", "UNAVAILABLE"}
    OBVIOUS
  <1> HIDE DEF known, pricing
  <1>5. Sound(priced) /\ priced.sources = known.sources /\ priced.status = known.status
    BY <1>3, <1>4, WithPriceSound DEF Reported
  <1> HIDE DEF priced
  <1> QED
    BY <1>1, <1>2, <1>3, <1>5 DEF Extends

LEMMA FoundByExtends ==
  ASSUME NEW rec, Sound(rec), NEW source, NEW findings, \A f \in findings : Reported(f)
  PROVE  Extends(Tables!FoundBy(rec, source, findings), rec)
  <1>1. CASE \E f \in findings : f.source = source
    <2> DEFINE f == CHOOSE g \in findings : g.source = source
    <2>1. f \in findings
      BY <1>1
    <2>2. Tables!FoundBy(rec, source, findings) = Tables!Found(rec, f)
      BY <1>1 DEF Tables!FoundBy
    <2> HIDE DEF f
    <2> QED
      BY <2>1, <2>2, FoundExtends
  <1>2. CASE ~\E f \in findings : f.source = source
    BY <1>2 DEF Tables!FoundBy, Extends
  <1> QED
    BY <1>1, <1>2

(* A merge takes only sources that answered and did not report the key,    *)
(* and no row.                                                             *)
LEMMA MergedDrops ==
  ASSUME NEW rec, Sound(rec), NEW completed,
         NEW findings, \A f \in findings : Reported(f)
  PROVE  LET new == Tables!Merged(rec, completed, findings)
         IN  /\ Sound(new)
             /\ rec.status # "ABSENT" => new.status # "ABSENT"
             /\ \A s \in rec.sources \ new.sources :
                   s \in completed /\ \A f \in findings : f.source # s
  <1> DEFINE hub == Tables!FoundBy(rec, "HUB", findings)
             observed == Tables!Observed(rec, findings)
             dropped == Tables!Dropped(observed, completed, findings)
             left == [observed EXCEPT !.sources = @ \ dropped]
             without == Tables!WithoutSources(observed, dropped)
             new == Tables!Merged(rec, completed, findings)
  <1>1. Extends(hub, rec)
    BY FoundByExtends
  <1>2. observed = Tables!FoundBy(hub, "COMPUTE_OPTIMIZER", findings)
    BY DEF Tables!Observed
  <1> HIDE DEF hub, observed
  <1>3. Extends(observed, hub)
    BY <1>1, <1>2, FoundByExtends DEF Extends
  <1>4. Extends(observed, rec) /\ Sound(observed)
    BY <1>1, <1>3 DEF Extends
  <1>5. left \in Tables!Recommendation
    BY <1>4 DEF Sound, Tables!Recommendation
  <1>6. left.sources = observed.sources \ dropped /\ left.status = observed.status
    BY <1>4 DEF Sound, Tables!Recommendation
  <1>7. Sound(left)
    BY <1>4, <1>5, <1>6 DEF Sound
  <1>8. without \in {left, Tables!Resolve(left)}
    BY DEF Tables!WithoutSources
  <1> HIDE DEF left, without
  <1>9. /\ Sound(without) /\ without.sources = observed.sources \ dropped
        /\ observed.status # "ABSENT" => without.status # "ABSENT"
    BY <1>6, <1>7, <1>8, ResolveSound
  <1>10. new \in {observed, without, Tables!Unpriced(without)}
    BY DEF Tables!Merged, Tables!WithoutDropped, observed, without, dropped
  <1>11. /\ Sound(Tables!Unpriced(without))
         /\ Tables!Unpriced(without).sources = without.sources
         /\ Tables!Unpriced(without).status = without.status
    BY <1>9, WithPriceSound DEF Tables!Unpriced
  <1>12. \A s \in dropped : s \in completed /\ \A f \in findings : f.source # s
    BY DEF Tables!Dropped
  <1> HIDE DEF new, dropped
  <1>13. /\ Sound(new) /\ rec.sources \ new.sources \subseteq dropped
         /\ rec.status # "ABSENT" => new.status # "ABSENT"
    BY <1>4, <1>9, <1>10, <1>11 DEF Extends
  <1> QED
    BY <1>12, <1>13 DEF new

(* The flush of what was made of a row that nobody else has changed.       *)
LEMMA FlushOfCurrent ==
  ASSUME NEW row, Sound(row), NEW new, Sound(new)
  PROVE  /\ Sound(Tables!Flush(row, row, new))
         /\ Tables!Flush(row, row, new).sources = new.sources
         /\ Tables!Flush(row, row, new).status = new.status
  <1>1. CASE new = row \/ ~Tables!Exists(row)
    BY <1>1 DEF Tables!Flush
  <1>2. CASE new # row /\ Tables!Exists(row)
    <2>1. Tables!Flush(row, row, new) =
             [status |-> new.status, resolved |-> new.resolved,
              sources |-> new.sources, pricing |-> new.pricing,
              origin |-> new.origin,
              amount |-> (row.amount \ (row.amount \ new.amount))
                         \cup (new.amount \ row.amount)]
      BY <1>2 DEF Tables!Flush
    <2> QED
      BY <2>1 DEF Sound, Tables!Recommendation
  <1> QED
    BY <1>1, <1>2
-----------------------------------------------------------------------------
(* The transactions of Recommendations.                                    *)

(* Its variables, as far as they are not those of this module.             *)
Evidence == [k \in Keys |-> IF k \in active THEN "used" ELSE "gone"]
Phase == [w \in Workers |-> IF pc[w] = "load" THEN "importing"
                            ELSE IF pc[w] = "merge" THEN "imported" ELSE "idle"]
Place == [w \in Workers |-> IF Importing(w) THEN RegionAsked[task[w]] ELSE "none"]
Saw == [w \in Workers |-> [k \in Keys |->
           IF Importing(w) /\ k \in seen[w] THEN "used" ELSE "gone"]]
Existing == {k \in Keys : recs[k].status # "ABSENT"}

(* A step that is none of theirs.                                          *)
Apart ==
    /\ UNCHANGED <<active, recs, loaded>>
    /\ \A w \in Workers :
          \/ pc'[w] = pc[w] /\ task'[w] = task[w] /\ seen'[w] = seen[w]
          \/ pc[w] \notin {"load", "merge"} /\ pc'[w] \notin {"load", "merge"}

LEMMA ApartStutters ==
  ASSUME Apart
  PROVE  UNCHANGED Tables!vars
  <1>1. Evidence' = Evidence
    BY DEF Apart, Evidence
  <1>2. Phase' = Phase
    BY DEF Apart, Phase
  <1>3. Place' = Place
    BY DEF Apart, Place, Importing
  <1>4. Saw' = Saw
    <2>1. \A w \in Workers :
              [k \in Keys |-> IF Importing(w)' /\ k \in seen'[w] THEN "used" ELSE "gone"]
            = [k \in Keys |-> IF Importing(w) /\ k \in seen[w] THEN "used" ELSE "gone"]
      BY DEF Apart, Importing
    <2> QED
      BY <2>1 DEF Saw
  <1> QED
    BY <1>1, <1>2, <1>3, <1>4
    DEF Apart, Evidence, Phase, Place, Saw, Tables!vars, Tables!sessionVars

(* A step of worker w, between importing and not.                          *)
LEMMA Focus ==
  ASSUME NEW w \in Workers,
         \A v \in Workers : v # w =>
             pc'[v] = pc[v] /\ task'[v] = task[v] /\ seen'[v] = seen[v]
  PROVE  /\ Phase' = [Phase EXCEPT ![w] = Phase'[w]]
         /\ Place' = [Place EXCEPT ![w] = Place'[w]]
         /\ Saw' = [Saw EXCEPT ![w] = Saw'[w]]
  <1>1. Phase' = [Phase EXCEPT ![w] = Phase'[w]]
    BY DEF Phase
  <1>2. Place' = [Place EXCEPT ![w] = Place'[w]]
    BY DEF Place, Importing
  <1>3. Saw' = [Saw EXCEPT ![w] = Saw'[w]]
    <2>1. \A v \in Workers : v # w => Saw'[v] = Saw[v]
      BY DEF Saw, Importing
    <2>2. Saw' = [v \in Workers |-> Saw'[v]] /\ Saw = [v \in Workers |-> Saw[v]]
      BY DEF Saw
    <2> HIDE DEF Saw
    <2> QED
      BY <2>1, <2>2
  <1> QED
    BY <1>1, <1>2, <1>3

LEMMA InventoryIsTables ==
  ASSUME NEW k \in Keys, InventoryChanges(k), active \subseteq Keys
  PROVE  Tables!InventoryChanges(k)
  <1>1. Phase' = Phase /\ Place' = Place /\ Saw' = Saw /\ UNCHANGED <<recs, loaded>>
    BY DEF InventoryChanges, Phase, Place, Saw, Importing
  <1>2. \E e \in {"gone", "used", "idle"} \ {Evidence[k]} :
           e # "idle" /\ Evidence' = [Evidence EXCEPT ![k] = e]
    <2>1. CASE k \in active
      <3>1. Evidence[k] = "used" /\ Evidence' = [Evidence EXCEPT ![k] = "gone"]
        BY <2>1 DEF InventoryChanges, Evidence
      <3> QED
        BY <3>1
    <2>2. CASE k \notin active
      <3>1. Evidence[k] = "gone" /\ Evidence' = [Evidence EXCEPT ![k] = "used"]
        BY <2>2 DEF InventoryChanges, Evidence
      <3> QED
        BY <3>1
    <2> QED
      BY <2>1, <2>2
  <1> QED
    BY <1>1, <1>2
    DEF Tables!InventoryChanges, Tables!Evidence, Tables!sessionVars, Evidence,
        Phase, Place, Saw

LEMMA ReadIsStart ==
  ASSUME ImportInv, OneConnection, NEW w \in Workers, ReadResources(w)
  PROVE  Tables!StartImport(w)
  <1> USE DEF ImportInv
  <1>1. /\ pc[w] = "resources" /\ pc' = [pc EXCEPT ![w] = "load"]
        /\ seen' = [seen EXCEPT ![w] = active]
        /\ UNCHANGED <<task, active, recs, loaded>>
    BY DEF ReadResources, Goto
  <1>2. \A v \in Workers : v # w =>
            pc'[v] = pc[v] /\ task'[v] = task[v] /\ seen'[v] = seen[v]
    BY <1>1 DEF RowsInv, WorkInv
  <1>3. pc'[w] = "load" /\ seen'[w] = active /\ task[w] \in Syncs
    BY <1>1 DEF RowsInv, WorkInv
  <1>4. /\ Phase[w] = "idle" /\ Phase'[w] = "importing"
        /\ Place'[w] = RegionAsked[task[w]]
        /\ Saw'[w] = Evidence
    BY <1>1, <1>3 DEF Phase, Place, Saw, Evidence, Importing
  <1>5. \A v \in Workers : Phase[v] \notin {"importing", "imported"}
    <2>1. \A v \in Workers : pc[v] \notin {"load", "merge"}
      BY <1>1, OneImporter
    <2> QED
      BY <2>1 DEF Phase
  <1>6. /\ Phase' = [Phase EXCEPT ![w] = "importing"]
        /\ Place' = [Place EXCEPT ![w] = RegionAsked[task[w]]]
        /\ Saw' = [Saw EXCEPT ![w] = Evidence]
    BY <1>2, <1>4, Focus
  <1>7. Evidence' = Evidence
    BY <1>1 DEF Evidence
  <1>8. Tables!ReadEvidence(w, "importing")
    BY <1>1, <1>4, <1>6, <1>7 DEF Tables!ReadEvidence, Evidence, Phase, Saw
  <1>9. \E r \in {RegionOf[k] : k \in Keys} \cup {RegionAsked[s] : s \in Syncs} :
           Place' = [Place EXCEPT ![w] = r]
    BY <1>3, <1>6
  <1> QED
    BY <1>5, <1>8, <1>9 DEF Tables!StartImport, Phase, Place

LEMMA LoadIsLoad ==
  ASSUME ImportInv, NEW w \in Workers, LoadRows(w)
  PROVE  Tables!Load(w)
  <1> USE DEF ImportInv
  <1>1. /\ pc[w] = "load" /\ pc' = [pc EXCEPT ![w] = "merge"]
        /\ loaded' = [loaded EXCEPT ![w] = recs]
        /\ UNCHANGED <<task, active, recs, seen>>
    BY DEF LoadRows, Goto
  <1>2. \A v \in Workers : v # w => pc'[v] = pc[v]
    BY <1>1 DEF RowsInv
  <1>3. pc'[w] = "merge"
    BY <1>1 DEF RowsInv
  <1>4. \A v \in Workers : Importing(v)' = Importing(v)
    BY <1>1, <1>2, <1>3 DEF Importing
  <1>5. Place' = Place /\ Saw' = Saw
    BY <1>1, <1>4 DEF Place, Saw
  <1>6. Phase[w] = "importing" /\ Phase'[w] = "imported"
    BY <1>1, <1>3 DEF Phase
  <1>7. Phase' = [Phase EXCEPT ![w] = "imported"]
    BY <1>1, <1>2, <1>6, Focus
  <1>8. Evidence' = Evidence
    BY <1>1 DEF Evidence
  <1> QED
    BY <1>1, <1>5, <1>6, <1>7, <1>8
    DEF Tables!Load, Evidence, Phase, Place, Saw

(* Worker w is no session any more.                                        *)
LEMMA LeavesGoesIdle ==
  ASSUME ImportInv, NEW w \in Workers, Leaves(w)
  PROVE  Tables!GoIdle(w) /\ Evidence' = Evidence
  <1> USE DEF ImportInv
  <1>1. /\ pc' = [pc EXCEPT ![w] = pc'[w]] /\ pc'[w] \notin {"load", "merge"}
        /\ \A v \in Workers : v # w => task'[v] = task[v]
        /\ seen' = [seen EXCEPT ![w] = {}]
        /\ loaded' = [loaded EXCEPT ![w] = Tables!Nothing]
        /\ active' = active
    BY DEF Leaves, Forget
  <1>2. \A v \in Workers : v # w =>
            pc'[v] = pc[v] /\ task'[v] = task[v] /\ seen'[v] = seen[v]
    BY <1>1 DEF RowsInv, WorkInv
  <1>3. /\ Phase'[w] = "idle" /\ Place'[w] = "none"
        /\ Saw'[w] = Tables!NoEvidence
    BY <1>1 DEF Phase, Place, Saw, Importing, Tables!NoEvidence
  <1>4. /\ Phase' = [Phase EXCEPT ![w] = "idle"]
        /\ Place' = [Place EXCEPT ![w] = "none"]
        /\ Saw' = [Saw EXCEPT ![w] = Tables!NoEvidence]
    BY <1>2, <1>3, Focus
  <1>5. Evidence' = Evidence
    BY <1>1 DEF Evidence
  <1>6. LET review == [v \in Workers |-> [key |-> "none", to |-> "none"]]
        IN  review = [review EXCEPT ![w] = Tables!NoReview]
    BY DEF Tables!NoReview
  <1> QED
    BY <1>1, <1>4, <1>5, <1>6 DEF Tables!GoIdle, Phase, Place, Saw
-----------------------------------------------------------------------------
(* The merge.                                                              *)
RecsSound == \A k \in Keys : Sound(recs[k])

LEMMA ItemsWellFormed ==
  ASSUME NEW i \in Normalized(Items), NEW k
  PROVE  /\ Reported(Finding(i, k))
         /\ SourceOf(i.call) = "HUB" <=> i.call = "hub"
  BY ImportAssumption
  DEF Normalized, Item, Reported, Finding, SourceOf, Amount, Tables!External,
      Tables!Sources, Tables!Parts

(* Each finding is about an entry and an active resource that match.       *)
LEMMA FindingsAreMatches ==
  ASSUME ImportInv, NEW w \in Workers, NEW f \in Findings(w)
  PROVE  \E i \in work[w].items, k \in seen[w] :
            /\ f = Finding(i, k) /\ Matches(i, k, seen[w])
            /\ i \in Normalized(Items) /\ k \in Keys
            /\ NameOf[k] = i.name
  <1>1. PICK p \in {q \in work[w].items \X seen[w] : Matches(q[1], q[2], seen[w])} :
            f = Finding(p[1], p[2])
    BY DEF Findings
  <1>2. /\ p[1] \in work[w].items /\ p[2] \in seen[w]
        /\ Matches(p[1], p[2], seen[w])
    BY <1>1
  <1>3. p[1] \in Normalized(Items) /\ p[2] \in Keys
    BY <1>2 DEF ImportInv, WorkInv, Told, ToldTo
  <1>4. NameOf[p[2]] = p[1].name
    BY <1>2 DEF Matches
  <1> QED
    BY <1>1, <1>2, <1>3, <1>4

LEMMA FindingsReported ==
  ASSUME ImportInv, NEW w \in Workers
  PROVE  /\ Findings(w) \subseteq Offers
         /\ \A f \in Findings(w) : Reported(f)
  <1> SUFFICES ASSUME NEW f \in Findings(w) PROVE f \in Offers /\ Reported(f)
    OBVIOUS
  <1>1. PICK i \in work[w].items, k \in seen[w] :
            /\ f = Finding(i, k) /\ i \in Normalized(Items) /\ k \in Keys
            /\ NameOf[k] = i.name
    BY FindingsAreMatches
  <1>2. f \in Offers
    <2>1. <<i, k>> \in {q \in Normalized(Items) \X Keys : q[1].name = NameOf[q[2]]}
      BY <1>1
    <2>2. f = Finding(<<i, k>>[1], <<i, k>>[2])
      BY <1>1
    <2> QED
      BY <2>1, <2>2 DEF Offers
  <1> QED
    BY <1>1, <1>2, ItemsWellFormed

(* What a merge writes: what it made of the rows as they are.              *)
LEMMA MergeWrites ==
  ASSUME ImportInv, NEW w \in Workers, Merge(w)
  PROVE  \E findings \in Counted(Findings(w)) :
            /\ Tables!InsertsAreNew(w, [k \in Keys |-> MergedRow(w, k, findings)])
            /\ recs' = [k \in Keys |->
                   Tables!Flush(recs[k], loaded[w][k], MergedRow(w, k, findings))]
            /\ \A k \in Keys :
                  /\ recs'[k] = Tables!Flush(recs[k], recs[k], MergedRow(w, k, findings))
                  /\ MergedRow(w, k, findings) =
                        Tables!Merged(recs[k], Completed(work[w].failed),
                                      {f \in findings : f.key = k})
  <1>1. PICK findings \in Counted(Findings(w)) :
            /\ Tables!InsertsAreNew(w, [k \in Keys |-> MergedRow(w, k, findings)])
            /\ recs' = [k \in Keys |->
                   Tables!Flush(recs[k], loaded[w][k],
                                [l \in Keys |-> MergedRow(w, l, findings)][k])]
    BY DEF Merge
  <1>2. loaded[w] = recs
    BY DEF Merge, ImportInv, WorkInv, Current
  <1>3. recs' = [k \in Keys |->
                   Tables!Flush(recs[k], loaded[w][k], MergedRow(w, k, findings))]
    BY <1>1
  <1>4. \A k \in Keys :
            MergedRow(w, k, findings) =
               Tables!Merged(recs[k], Completed(work[w].failed),
                             {f \in findings : f.key = k})
    BY <1>2 DEF MergedRow
  <1> QED
    BY <1>1, <1>2, <1>3, <1>4

LEMMA MergeSound ==
  ASSUME ImportInv, RecsSound, NEW w \in Workers, Merge(w)
  PROVE  /\ RecsSound'
         /\ \A k \in Keys : recs[k].status # "ABSENT" => recs'[k].status # "ABSENT"
  <1>1. PICK findings \in Counted(Findings(w)) :
            \A k \in Keys :
               /\ recs'[k] = Tables!Flush(recs[k], recs[k], MergedRow(w, k, findings))
               /\ MergedRow(w, k, findings) =
                     Tables!Merged(recs[k], Completed(work[w].failed),
                                   {f \in findings : f.key = k})
    BY MergeWrites
  <1>2. \A f \in findings : Reported(f)
    BY FindingsReported DEF Counted
  <1> SUFFICES ASSUME NEW k \in Keys
               PROVE  /\ Sound(recs'[k])
                      /\ recs[k].status # "ABSENT" => recs'[k].status # "ABSENT"
    BY DEF RecsSound
  <1>3. Sound(recs[k])
    BY DEF RecsSound
  <1>4. /\ Sound(MergedRow(w, k, findings))
        /\ recs[k].status # "ABSENT" => MergedRow(w, k, findings).status # "ABSENT"
    <2> DEFINE about == {f \in findings : f.key = k}
    <2>1. MergedRow(w, k, findings)
             = Tables!Merged(recs[k], Completed(work[w].failed), about)
      BY <1>1
    <2>2. \A f \in about : Reported(f)
      BY <1>2
    <2> HIDE DEF about
    <2> QED
      BY <1>3, <2>1, <2>2, MergedDrops
  <1> DEFINE new == MergedRow(w, k, findings)
  <1>5. recs'[k] = Tables!Flush(recs[k], recs[k], new) /\ Sound(new)
    BY <1>1, <1>4
  <1>6. recs[k].status # "ABSENT" => new.status # "ABSENT"
    BY <1>4
  <1> HIDE DEF new
  <1>7. Sound(recs'[k]) /\ recs'[k].status = new.status
    BY <1>3, <1>5, FlushOfCurrent
  <1> QED
    BY <1>6, <1>7
(* Nothing but a merge writes recommendations.                             *)
LEMMA OnlyMergesWrite ==
  ASSUME [Next]_vars
  PROVE  recs' = recs \/ \E w \in Workers : Merge(w)
  BY DEF Next, vars, importVars, InventoryChanges, Call, Receive, Return, WorkStep,
         Claim, Start, EndCall, CallFails, After, ReadResources, LoadRows,
         ImportRaises, Fail, Raises, ReadPage, Crash, Lose

LEMMA SoundNext ==
  ASSUME ImportInv, RecsSound, [Next]_vars
  PROVE  RecsSound'
  <1>1. CASE recs' = recs
    BY <1>1 DEF RecsSound
  <1>2. CASE \E w \in Workers : Merge(w)
    BY <1>2, MergeSound
  <1> QED
    BY <1>1, <1>2, OnlyMergesWrite

LEMMA InvHolds ==
  ASSUME OneConnection, {"duplicate", "lost_reply"} \cap Faults = {}
  PROVE  Spec => [](ImportInv /\ RecsSound)
  <1>1. Init => ImportInv /\ RecsSound
    BY RowsInit, WorkInit, AbsentSound
    DEF ImportInv, Init, RecsSound, Tables!Nothing
  <1>2. ImportInv /\ RecsSound /\ [Next]_vars => ImportInv' /\ RecsSound'
    BY RowsNext, WorkNext, SoundNext DEF ImportInv
  <1> QED
    BY <1>1, <1>2, PTL DEF Spec

(* An import is submitted for a free key, started once and ended once, by  *)
(* whatever deliveries and attempts it takes.                              *)
THEOREM ImportsAreJobs ==
  ASSUME OneConnection, {"duplicate", "lost_reply"} \cap Faults = {}
  PROVE  Spec => SyncsAreJobs
  <1>1. Init => Jobs!Init
    BY DEF Init, DispatchInit, Jobs!Init, JobPhase, NoRow
  <1>2. ImportInv /\ [Next]_vars => [Jobs!Next]_JobPhase
    BY RowsNext, RowStepIsJobStep DEF ImportInv, RowsInv
  <1> QED
    BY <1>1, <1>2, InvHolds, PTL DEF Spec, SyncsAreJobs, Jobs!SafeSpec

-----------------------------------------------------------------------------
(* An entry of the Region that names an active resource is a finding, so   *)
(* that a source does not lose what it lists.                              *)
LEMMA ListedIsCounted ==
  ASSUME ImportInv, NamesAreUnique, NEW w \in Workers,
         NEW findings \in Counted(Findings(w)),
         NEW k \in seen[w], NEW i \in work[w].items,
         i.name = NameOf[k], i.region = RegionOf[k]
  PROVE  \E f \in findings : f.key = k /\ f.source = SourceOf(i.call)
  <1>1. seen[w] \subseteq Keys
    BY DEF ImportInv, WorkInv
  <1>2. Matches(i, k, seen[w])
    <2> DEFINE regional == {c \in {d \in seen[w] : NameOf[d] = i.name} :
                               RegionOf[c] = i.region}
    <2>1. regional = {k}
      BY <1>1 DEF NamesAreUnique
    <2>2. Cardinality(regional) = 1
      BY <2>1, FS_Singleton
    <2> QED
      BY <2>1, <2>2 DEF Matches
  <1>3. Finding(i, k) \in Findings(w)
    <2>1. <<i, k>> \in {q \in work[w].items \X seen[w] : Matches(q[1], q[2], seen[w])}
      BY <1>2
    <2>2. Finding(i, k) = Finding(<<i, k>>[1], <<i, k>>[2])
      OBVIOUS
    <2> QED
      BY <2>1, <2>2 DEF Findings
  <1>4. PICK g \in findings : \A h \in findings :
            h.source = Finding(i, k).source /\ h.key = Finding(i, k).key <=> h = g
    BY <1>3 DEF Counted
  <1> QED
    BY <1>4 DEF Finding

(* Sources disappear from a recommendation only by a merge all of whose    *)
(* calls to them succeeded, and only of what they did not list or the      *)
(* inventory had lost.                                                     *)
THEOREM DropsAreProvenHolds ==
  ASSUME OneConnection, NamesAreUnique,
         {"duplicate", "lost_reply"} \cap Faults = {}
  PROVE  Spec => DropsAreProven
  <1> DEFINE Proven(k, s) ==
        \E w \in Workers :
           /\ pc[w] = "merge" /\ pc'[w] = "ack"
           /\ work[w].failed \cap CallsOf(s) = {}
           /\ \/ k \notin seen[w]
              \/ \A i \in work[w].items :
                    ~(SourceOf(i.call) = s /\ i.name = NameOf[k] /\ i.region = RegionOf[k])
  <1>1. ASSUME ImportInv, RecsSound, [Next]_vars
        PROVE  \A k \in Keys : \A s \in recs[k].sources \ recs'[k].sources : Proven(k, s)
    <2> SUFFICES ASSUME NEW k \in Keys, NEW s \in recs[k].sources \ recs'[k].sources
                 PROVE  Proven(k, s)
      OBVIOUS
    <2>1. PICK w \in Workers : Merge(w)
      BY <1>1, OnlyMergesWrite
    <2>2. PICK findings \in Counted(Findings(w)) :
              /\ recs'[k] = Tables!Flush(recs[k], recs[k], MergedRow(w, k, findings))
              /\ MergedRow(w, k, findings) =
                    Tables!Merged(recs[k], Completed(work[w].failed),
                                  {f \in findings : f.key = k})
      BY <1>1, <2>1, MergeWrites
    <2> DEFINE about == {f \in findings : f.key = k}
               new == Tables!Merged(recs[k], Completed(work[w].failed), about)
    <2>3. \A f \in about : Reported(f)
      BY <1>1, FindingsReported DEF Counted
    <2>4. Sound(recs[k])
      BY <1>1 DEF RecsSound
    <2>5. recs'[k] = Tables!Flush(recs[k], recs[k], new)
      BY <2>2
    <2> HIDE DEF about
    <2>6. /\ Sound(new)
          /\ \A z \in recs[k].sources \ new.sources :
                z \in Completed(work[w].failed) /\ \A f \in about : f.source # z
      BY <2>3, <2>4, MergedDrops
    <2> HIDE DEF new
    <2>7. recs'[k].sources = new.sources
      BY <2>4, <2>5, <2>6, FlushOfCurrent
    <2>8. s \in Completed(work[w].failed) /\ \A f \in about : f.source # s
      BY <2>6, <2>7
    <2>9. work[w].failed \cap CallsOf(s) = {}
      BY <2>8 DEF Completed
    <2>10. pc[w] = "merge" /\ pc'[w] = "ack"
      BY <1>1, <2>1 DEF Merge, Goto, ImportInv, RowsInv
    <2>11. ASSUME k \in seen[w], NEW i \in work[w].items,
                  SourceOf(i.call) = s, i.name = NameOf[k], i.region = RegionOf[k]
           PROVE  FALSE
      BY <1>1, <2>8, <2>11, ListedIsCounted DEF about
    <2> QED
      BY <2>9, <2>10, <2>11
  <1>2. ImportInv /\ RecsSound /\ [Next]_vars =>
            [\A k \in Keys : \A s \in recs[k].sources \ recs'[k].sources : Proven(k, s)]_vars
    BY <1>1
  <1> QED
    BY <1>2, InvHolds, PTL DEF Spec, DropsAreProven
-----------------------------------------------------------------------------
(* A merge is an import of what the sources may answer.                    *)
LEMMA MergeAnswers ==
  ASSUME ImportInv, ComputeIdsAreGlobal, NEW w \in Workers, pc[w] = "merge",
         NEW findings \in Counted(Findings(w))
  PROVE  [completed |-> Completed(work[w].failed), findings |-> findings]
             \in Tables!Answers(Place[w], Saw[w])
  <1> DEFINE a == [completed |-> Completed(work[w].failed), findings |-> findings]
  <1>1. a \in [completed: SUBSET Tables!External, findings: SUBSET Offers]
    BY FindingsReported DEF Completed, Counted, Tables!External, Tables!Sources
  <1>2. ASSUME NEW f \in findings
        PROVE  /\ Saw[w][f.key] # "gone"
               /\ f.source = "HUB" => "HUB" \in Completed(work[w].failed)
               /\ f.source = "COMPUTE_OPTIMIZER" => RegionOf[f.key] = Place[w]
    <2>1. PICK i \in work[w].items, k \in seen[w] :
              /\ f = Finding(i, k) /\ i \in Normalized(Items) /\ k \in Keys
              /\ NameOf[k] = i.name
      BY FindingsAreMatches DEF Counted
    <2>2. f.source = SourceOf(i.call) /\ f.key = k
      BY <2>1 DEF Finding
    <2>3. /\ i.call = "hub" => "hub" \notin work[w].failed
          /\ i.call # "hub" => i.region = RegionAsked[task[w]]
      BY DEF ImportInv, WorkInv, Told, ToldTo
    <2>4. Saw[w][k] = "used" /\ Place[w] = RegionAsked[task[w]]
      BY <2>1 DEF Saw, Place, Importing
    <2>5. f.source = "HUB" => "HUB" \in Completed(work[w].failed)
      BY <2>1, <2>2, <2>3, ItemsWellFormed DEF Completed, CallsOf
    <2>6. f.source = "COMPUTE_OPTIMIZER" => RegionOf[k] = RegionAsked[task[w]]
      <3>1. f.source = "COMPUTE_OPTIMIZER" => i.call # "hub"
        BY <2>2 DEF SourceOf
      <3>2. i \in Items
        BY <2>1 DEF Normalized
      <3> QED
        BY <2>1, <2>3, <3>1, <3>2 DEF ComputeIdsAreGlobal
    <2> QED
      BY <2>2, <2>4, <2>5, <2>6
  <1>3. \A f, g \in findings : f.source = g.source /\ f.key = g.key => f = g
    BY DEF Counted
  <1>4. a.completed = Completed(work[w].failed) /\ a.findings = findings
    OBVIOUS
  <1> HIDE DEF a
  <1>5. a \in Tables!Answers(Place[w], Saw[w])
    BY <1>1, <1>2, <1>3, <1>4 DEF Tables!Answers
  <1> QED
    BY <1>5 DEF a

LEMMA MergeIsFinish ==
  ASSUME ImportInv, RecsSound, OneConnection, ComputeIdsAreGlobal,
         NEW w \in Workers, Merge(w)
  PROVE  Tables!FinishImport(w)
  <1>1. PICK findings \in Counted(Findings(w)) :
            /\ Tables!InsertsAreNew(w, [k \in Keys |-> MergedRow(w, k, findings)])
            /\ recs' = [k \in Keys |->
                   Tables!Flush(recs[k], loaded[w][k], MergedRow(w, k, findings))]
    BY MergeWrites
  <1> DEFINE a == [completed |-> Completed(work[w].failed), findings |-> findings]
             new == [k \in Keys |-> Tables!Merged(loaded[w][k], a.completed,
                                                 {f \in a.findings : f.key = k})]
  <1>2. pc[w] = "merge"
    BY DEF Merge
  <1>3. a \in Tables!Answers(Place[w], Saw[w])
    BY <1>2, MergeAnswers
  <1>4. new = [k \in Keys |-> MergedRow(w, k, findings)]
    BY DEF MergedRow
  <1>5. \A v \in Workers : v # w => pc[v] # "merge"
    BY <1>2, OneImporter DEF ImportInv
  <1>6. Leaves(w)
    BY <1>5 DEF Leaves, Merge, Goto, ImportInv, RowsInv
  <1>7. Tables!GoIdle(w) /\ Evidence' = Evidence
    BY <1>6, LeavesGoesIdle
  <1>8. /\ Tables!InsertsAreNew(w, new)
        /\ recs' = [k \in Keys |-> Tables!Flush(recs[k], loaded[w][k], new[k])]
    BY <1>1, <1>4
  <1>9. Phase[w] = "imported"
    BY <1>2 DEF Phase
  <1>10. Existing' = {k \in Keys : IF recs'[k].status # recs[k].status
                                  THEN Phase[w] = "imported" ELSE k \in Existing}
    <2>1. \A k \in Keys : recs[k].status # "ABSENT" => recs'[k].status # "ABSENT"
      BY MergeSound
    <2> QED
      BY <1>9, <2>1 DEF Existing
  <1> HIDE DEF a
  <1>11. \E b \in Tables!Answers(Place[w], Saw[w]) :
            LET rows == [k \in Keys |->
                    Tables!Merged(loaded[w][k], b.completed, {f \in b.findings : f.key = k})]
            IN  /\ Tables!InsertsAreNew(w, rows)
                /\ recs' = [k \in Keys |-> Tables!Flush(recs[k], loaded[w][k], rows[k])]
    BY <1>3, <1>8
  <1> HIDE DEF new
  <1> QED
    BY <1>7, <1>9, <1>10, <1>11
    DEF Tables!FinishImport, Tables!Commit, Tables!SetByImport, Phase, Place, Saw,
        Evidence, Existing

LEMMA LeavesIsAbort ==
  ASSUME ImportInv, NEW w \in Workers, Leaves(w), recs' = recs,
         pc[w] \in {"load", "merge"}
  PROVE  Tables!Abort(w)
  <1>1. Phase[w] # "idle"
    BY DEF Phase
  <1> QED
    BY <1>1, LeavesGoesIdle DEF Tables!Abort, Evidence, Phase

(* Workers that leave before they import.                                  *)
LEMMA LeavesIsApart ==
  ASSUME ImportInv, NEW w \in Workers, Leaves(w), recs' = recs,
         pc[w] \notin {"load", "merge"}
  PROVE  Apart
  <1> USE DEF ImportInv
  <1>1. loaded' = loaded
    <2>1. loaded[w] = Tables!Nothing
      BY DEF WorkInv, Current
    <2>2. loaded' = [loaded EXCEPT ![w] = Tables!Nothing]
      BY DEF Leaves, Forget
    <2>3. loaded = [v \in Workers |-> loaded[v]]
      BY DEF WorkInv
    <2> QED
      BY <2>1, <2>2, <2>3
  <1>2. \A v \in Workers : v # w =>
            pc'[v] = pc[v] /\ task'[v] = task[v] /\ seen'[v] = seen[v]
    BY DEF Leaves, Forget, RowsInv, WorkInv
  <1>3. pc'[w] \notin {"load", "merge"} /\ active' = active
    BY DEF Leaves, Forget
  <1> QED
    BY <1>1, <1>2, <1>3 DEF Apart
LEMMA StepIsTables ==
  ASSUME ImportInv, RecsSound, OneConnection, ComputeIdsAreGlobal, [Next]_vars
  PROVE  UNCHANGED Tables!vars \/ Tables!Next
  <1> USE DEF ImportInv
  <1>1. ASSUME Apart PROVE UNCHANGED Tables!vars
    BY <1>1, ApartStutters
  <1>2. ASSUME UNCHANGED <<pc, task, active, recs, seen, loaded>>
        PROVE  UNCHANGED Tables!vars
    BY <1>1, <1>2 DEF Apart
  <1>3. ASSUME NEW c \in Connections, VerifyConnection(c) /\ UNCHANGED importVars
        PROVE  UNCHANGED Tables!vars
    BY <1>2, <1>3 DEF VerifyConnection
  <1>4. ASSUME NEW k \in Keys, InventoryChanges(k) PROVE Tables!Next
    BY <1>4, InventoryIsTables DEF WorkInv, Tables!Next
  <1>5. ASSUME NEW s \in Syncs,
               \/ (CheckRequest(s) \/ ApiCrash(s)) /\ UNCHANGED importVars
               \/ Call(s) \/ Return(s)
        PROVE  UNCHANGED Tables!vars
    BY <1>2, <1>5
    DEF CheckRequest, ApiCrash, Call, RequestStep, InsertRow, SendTask,
        SendRaises, MarkDispatchFailed, Return, Redeliver
  <1>6. ASSUME NEW s \in Syncs, Receive(s) PROVE UNCHANGED Tables!vars
    <2>1. Apart
      BY <1>6 DEF Apart, Receive, Take, Goto, RowsInv
    <2> QED
      BY <1>1, <2>1
  <1>7. ASSUME NEW w \in Workers,
               \/ Claim(w) \/ Start(w) \/ Raises(w)
               \/ EndCall(w) \/ CallFails(w)
               \/ Ack(w) /\ UNCHANGED importVars
        PROVE  UNCHANGED Tables!vars
    <2>1. UNCHANGED <<seen, loaded, recs, active>>
      BY <1>7 DEF Claim, Start, Raises, EndCall, CallFails, After
    <2>2. /\ pc[w] \notin {"load", "merge"}
          /\ pc' = [pc EXCEPT ![w] = pc'[w]]
          /\ pc'[w] \notin {"load", "merge"}
      <3>1. CASE EndCall(w) \/ CallFails(w)
        <4>1. pc[w] \in Calls
          BY <3>1 DEF EndCall, CallFails
        <4>2. PICK items, failed : After(w, items, failed)
          BY <3>1 DEF EndCall, CallFails
        <4> DEFINE step == IF pc[w] # "ebs" THEN NextCall[pc[w]]
                           ELSE IF /\ Completed(failed) = {}
                                   /\ Kept(items, failed) = {} THEN "unavailable"
                           ELSE "resources"
        <4>3. step \notin {"load", "merge"}
          BY <4>1 DEF NextCall
        <4>4. pc' = [pc EXCEPT ![w] = step]
          BY <4>2 DEF After, Goto
        <4> HIDE DEF step
        <4> QED
          BY <4>1, <4>3, <4>4 DEF RowsInv
      <3>2. CASE ~(EndCall(w) \/ CallFails(w))
        BY <1>7, <3>2 DEF Claim, Start, Raises, Ack, GoIdle, Goto, RowsInv
      <3> QED
        BY <3>1, <3>2
    <2>3. \A v \in Workers : v # w => task'[v] = task[v]
      BY <1>7 DEF Claim, Start, Raises, EndCall, CallFails, After, Ack, GoIdle, RowsInv
    <2>4. Apart
      BY <2>1, <2>2, <2>3 DEF Apart, RowsInv
    <2> QED
      BY <1>1, <2>4
  <1>8. ASSUME NEW w \in Workers,
               ImportRaises(w) \/ Fail(w) \/ Crash(w) \/ Lose(w)
        PROVE  UNCHANGED Tables!vars \/ Tables!Next
    <2>1. Leaves(w) /\ recs' = recs
      BY <1>8
      DEF Leaves, ImportRaises, Fail, Crash, Lose, ChildLost, GoIdle, Goto, RowsInv
    <2>2. CASE pc[w] \in {"load", "merge"}
      BY <2>1, <2>2, LeavesIsAbort DEF Tables!Next
    <2>3. CASE pc[w] \notin {"load", "merge"}
      BY <1>1, <2>1, <2>3, LeavesIsApart
    <2> QED
      BY <2>2, <2>3
  <1>9. ASSUME NEW w \in Workers, ReadResources(w) \/ LoadRows(w) \/ Merge(w)
        PROVE  Tables!Next
    <2>1. Tables!StartImport(w) \/ Tables!Load(w) \/ Tables!FinishImport(w)
      BY <1>9, ReadIsStart, LoadIsLoad, MergeIsFinish
    <2> QED
      BY <2>1 DEF Tables!Next
  <1>10. ASSUME NEW w \in Workers, ReadPage(w) PROVE UNCHANGED Tables!vars
    BY <1>2, <1>10 DEF ReadPage
  <1>11. ASSUME UNCHANGED vars PROVE UNCHANGED Tables!vars
    BY <1>2, <1>11 DEF vars
  <1> HIDE DEF ImportInv
  <1> QED
    BY <1>3, <1>4, <1>5, <1>6, <1>7, <1>8, <1>9, <1>10, <1>11 DEF Next, WorkStep

(* Every import is one import transaction of Recommendations or none, and  *)
(* no two of them overlap, although the task locks nothing.                *)
THEOREM ImportsAreTransactionsHolds ==
  ASSUME OneConnection, ComputeIdsAreGlobal,
         {"duplicate", "lost_reply"} \cap Faults = {}
  PROVE  Spec => ImportsAreTransactions
  <1>1. Init => Tables!Init
    <2> SUFFICES ASSUME Init PROVE Tables!Init
      OBVIOUS
    <2>1. {k \in Keys : recs[k].status # "ABSENT"} = {}
      BY DEF Init, Tables!Nothing, Tables!Absent
    <2> QED
      BY <2>1 DEF Init, DispatchInit, Tables!Init, Tables!NoEvidence, Tables!NoReview,
                  Importing
  <1>2. ImportInv /\ RecsSound /\ [Next]_vars => UNCHANGED Tables!vars \/ Tables!Next
    BY StepIsTables
  <1> QED
    BY <1>1, <1>2, InvHolds, PTL DEF Spec, ImportsAreTransactions
=============================================================================
