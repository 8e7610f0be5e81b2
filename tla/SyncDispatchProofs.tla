------------------------- MODULE SyncDispatchProofs -------------------------
(***************************************************************************)
(* What the steps of SyncDispatch keep, whatever the synchronization does  *)
(* between its claim and its end, provided that the broker does not have a *)
(* message whose send_task raised.  The modules about costs and metrics    *)
(* cite these lemmas for their own steps.                                  *)
(***************************************************************************)
EXTENDS SyncDispatch, TLAPS

PCs == {"idle", "claim", "read", "collect", "failRead", "failWrite", "ack"}

Types == DispatchTypeOK(PCs)

(* The row of a request that has not sent its id is as the request left it. *)
Unsent ==
    \A s \in Syncs :
        /\ request[s] \in {"idle", "insert"} => sync[s] = NoRow
        /\ request[s] \in {"send", "mark"} => sync[s] = Queued

(* The broker and the workers have only what was sent.                     *)
Sent ==
    /\ \A s \in ready \cup unacked : request[s] = "done"
    /\ \A w \in Workers : pc[w] # "idle" => request[task[w]] = "done"

(* From its claim to its end a synchronization is RUNNING, in the table    *)
(* and in the session of its worker, and has no other worker.              *)
Busy(w) == pc[w] \in {"read", "collect", "failRead", "failWrite"}

Owned ==
    /\ \A w \in Workers : Busy(w) => sync[task[w]].status = "RUNNING"
    /\ \A v, w \in Workers :
            v # w /\ Busy(v) /\ Busy(w) => task[v] # task[w]

Loaded ==
    \A w \in Workers : pc[w] \in {"read", "collect", "failWrite"}
                           => mem[w].status = "RUNNING"

DispatchInv == Types /\ Unsent /\ Sent /\ Owned /\ Loaded /\ OneActiveSync

(* What may become of the rows in one step: they are those of a job.       *)
Submits(s) == /\ sync[s].status = "ABSENT"
              /\ IndexAdmits(s)
              /\ sync' = [sync EXCEPT ![s] = Queued]
Starts(s) == /\ sync[s].status = "QUEUED"
             /\ sync' = [sync EXCEPT ![s].status = "RUNNING"]
Ends(s) == /\ sync[s].status \in Active
           /\ \E row \in Row : /\ row.status \in Terminal
                               /\ sync' = [sync EXCEPT ![s] = row]

RowStep ==
    \/ UNCHANGED sync
    \/ \E s \in Syncs : Submits(s) \/ Starts(s) \/ Ends(s)

(* The steps that the tasks have in between, as far as they concern this   *)
(* module: the claim, questions, exceptions and the end.                   *)
others == <<connection, request, brokerVars, task, faultVars>>

ClaimStep(w) ==
    LET s == task[w] IN
    /\ pc[w] = "claim"
    /\ \/ Goto(w, "ack") /\ UNCHANGED <<sync, mem>>
       \/ /\ sync[s].status = "QUEUED"
          /\ sync' = [sync EXCEPT ![s] = Failed("CONNECTION_NOT_VERIFIED")]
          /\ Goto(w, "ack") /\ UNCHANGED mem
       \/ /\ sync[s].status = "QUEUED"
          /\ sync' = [sync EXCEPT ![s].status = "RUNNING"]
          /\ mem' = [mem EXCEPT ![w] = sync'[s]]
          /\ Goto(w, "read") \/ Goto(w, "collect")
    /\ UNCHANGED <<others, code>>

AskStep(w) ==
    /\ pc[w] \in {"read", "collect"}
    /\ Goto(w, "collect")
    /\ UNCHANGED <<sync, mem, others, code>>

RaiseStep(w) ==
    /\ pc[w] \in {"read", "collect"}
    /\ Goto(w, "failRead")
    /\ \E e \in Errors : code' = [code EXCEPT ![w] = e]
    /\ UNCHANGED <<sync, mem, others>>

EndStep(w) ==
    /\ pc[w] = "collect"
    /\ \E row \in Row :
            /\ row.status \in Terminal
            /\ sync' = [sync EXCEPT ![task[w]] = Flush(@, mem[w], row)]
    /\ Goto(w, "ack")
    /\ UNCHANGED <<mem, others, code>>
-----------------------------------------------------------------------------
USE DEF PCs, Types, Busy, DispatchTypeOK, RequestPCs, Row, Active, Terminal,
        dispatchVars, rowVars, brokerVars, workerVars, faultVars

LEMMA InitInv == DispatchInit => DispatchInv
  BY DispatchAssumption
  DEF DispatchInit, DispatchInv, Unsent, Sent, Owned, Loaded, OneActiveSync,
      IsActive, NoRow, NoError

LEMMA RowStepTyped ==
  ASSUME sync \in [Syncs -> Row], RowStep
  PROVE  sync' \in [Syncs -> Row]
  <1>1. Queued \in Row
    BY DispatchAssumption DEF Queued, NoError
  <1> QED
    BY <1>1 DEF RowStep, Submits, Starts, Ends

(* The rows of jobs: one of a key is active.                               *)
LEMMA RowStepKeepsOne ==
  ASSUME sync \in [Syncs -> Row], OneActiveSync, RowStep
  PROVE  OneActiveSync'
  BY DEF OneActiveSync, RowStep, Submits, Starts, Ends, IndexAdmits, IsActive,
         Queued, NoError

(* So each of them is a step of the abstract job.                           *)
LEMMA RowStepIsJobStep ==
  ASSUME sync \in [Syncs -> Row], RowStep
  PROVE  [Jobs!Next]_JobPhase
  <1>1. CASE UNCHANGED sync
    BY <1>1 DEF JobPhase
  <1>2. ASSUME NEW s \in Syncs, Submits(s) PROVE Jobs!Submit(s)
    <2>1. JobPhase' = [JobPhase EXCEPT ![s] = "queued"]
      BY <1>2 DEF Submits, JobPhase, Queued, NoError
    <2>2. \A z \in Syncs : JobPhase[z] \in {"queued", "running"}
                               <=> sync[z].status \in Active
      BY DEF JobPhase
    <2>3. JobPhase[s] = "absent"
      BY <1>2 DEF Submits, JobPhase
    <2> QED
      BY <1>2, <2>1, <2>2, <2>3
      DEF Submits, IndexAdmits, IsActive, Jobs!Submit, Jobs!KeyIsFree,
          Jobs!Active
  <1>3. ASSUME NEW s \in Syncs, Starts(s) PROVE Jobs!Start(s)
    <2>1. JobPhase' = [JobPhase EXCEPT ![s] = "running"]
      BY <1>3 DEF Starts, JobPhase
    <2>2. JobPhase[s] = "queued"
      BY <1>3 DEF Starts, JobPhase
    <2> QED
      BY <2>1, <2>2 DEF Jobs!Start
  <1>4. ASSUME NEW s \in Syncs, Ends(s) PROVE Jobs!End(s)
    <2>1. JobPhase' = [JobPhase EXCEPT ![s] = "ended"]
      BY <1>4 DEF Ends, JobPhase
    <2>2. JobPhase[s] \in {"queued", "running"}
      BY <1>4 DEF Ends, JobPhase
    <2> QED
      BY <2>1, <2>2 DEF Jobs!End, Jobs!Active
  <1> QED
    BY <1>1, <1>2, <1>3, <1>4 DEF RowStep, Jobs!Next

LEMMA StutterKeeps ==
  ASSUME DispatchInv, UNCHANGED dispatchVars
  PROVE  DispatchInv' /\ RowStep
  BY DEF DispatchInv, Unsent, Sent, Owned, Loaded, OneActiveSync, IsActive,
         RowStep

LEMMA VerifyKeeps ==
  ASSUME DispatchInv, NEW c \in Connections, VerifyConnection(c)
  PROVE  DispatchInv' /\ RowStep
  <1> USE DispatchAssumption DEF DispatchInv, VerifyConnection
  <1>0. RowStep
    BY DEF RowStep
  <1>1. Types'
    OBVIOUS
  <1>2. Unsent'
    BY DEF Unsent
  <1>3. Sent'
    BY DEF Sent
  <1>4. Owned'
    BY DEF Owned
  <1>5. Loaded'
    BY DEF Loaded
  <1> QED
    BY <1>0, <1>1, <1>2, <1>3, <1>4, <1>5, RowStepKeepsOne

LEMMA CheckKeeps ==
  ASSUME DispatchInv, NEW s \in Syncs, CheckRequest(s)
  PROVE  DispatchInv' /\ RowStep
  <1> USE DispatchAssumption DEF DispatchInv, CheckRequest
  <1>0. RowStep
    BY DEF RowStep
  <1>1. Types'
    OBVIOUS
  <1>2. Unsent'
    BY DEF Unsent
  <1>3. Sent'
    BY DEF Sent
  <1>4. Owned'
    BY DEF Owned
  <1>5. Loaded'
    BY DEF Loaded
  <1> QED
    BY <1>0, <1>1, <1>2, <1>3, <1>4, <1>5, RowStepKeepsOne

(* A row that is inserted is new, and its id is nowhere yet.               *)
LEMMA InsertKeeps ==
  ASSUME DispatchInv, NEW s \in Syncs, InsertRow(s)
  PROVE  DispatchInv' /\ RowStep
  <1> USE DispatchAssumption DEF DispatchInv, InsertRow, Queued
  <1>0. RowStep
    BY DEF RowStep, Submits, Unsent, NoRow
  <1>1. Types'
    <2>1. Queued \in Row
      BY DEF NoError
    <2> HIDE DEF Queued
    <2>2. sync' \in [Syncs -> Row]
      BY <2>1
    <2>3. request' \in [Syncs -> RequestPCs]
      OBVIOUS
    <2> QED
      BY <2>2, <2>3
  <1>2. Unsent'
    BY DEF Unsent
  <1>3. Sent'
    BY DEF Sent
  <1>4. Owned'
    <2>1. \A w \in Workers : Busy(w) => task[w] # s
      BY DEF Sent
    <2> QED
      BY <2>1 DEF Owned
  <1>5. Loaded'
    BY DEF Loaded
  <1> QED
    BY <1>0, <1>1, <1>2, <1>3, <1>4, <1>5, RowStepKeepsOne

LEMMA SendKeeps ==
  ASSUME DispatchInv, NEW s \in Syncs, "lost_reply" \notin Faults,
         SendTask(s) \/ SendRaises(s)
  PROVE  DispatchInv' /\ RowStep
  <1> USE DispatchAssumption DEF DispatchInv, SendTask, SendRaises,
      Fault
  <1>0. RowStep
    BY DEF RowStep
  <1>1. Types'
    OBVIOUS
  <1>2. Unsent'
    BY DEF Unsent
  <1>3. Sent'
    BY DEF Sent
  <1>4. Owned'
    BY DEF Owned
  <1>5. Loaded'
    BY DEF Loaded
  <1> QED
    BY <1>0, <1>1, <1>2, <1>3, <1>4, <1>5, RowStepKeepsOne

(* Only the request knows the id, so that nothing else has changed the row.*)
LEMMA MarkKeeps ==
  ASSUME DispatchInv, NEW s \in Syncs, MarkDispatchFailed(s)
  PROVE  DispatchInv' /\ RowStep
  <1> USE DispatchAssumption DEF DispatchInv, MarkDispatchFailed
  <1>0. RowStep
    <2> DEFINE row == Failed("DISPATCH_FAILED")
    <2>1. row \in Row /\ row.status \in Terminal
      BY DEF Failed
    <2>2. sync[s] = Queued /\ sync' = [sync EXCEPT ![s] = row]
      BY DEF Unsent, Flush, Queued, Failed, NoError
    <2>3. sync[s].status \in Active
      BY <2>2 DEF Queued
    <2> QED
      BY <2>1, <2>2, <2>3 DEF RowStep, Ends
  <1>1. Types'
    BY DEF Flush, Failed, Queued, NoError
  <1>2. Unsent'
    BY DEF Unsent
  <1>3. Sent'
    BY DEF Sent
  <1>4. Owned'
    BY DEF Owned, Sent
  <1>5. Loaded'
    BY DEF Loaded
  <1> QED
    BY <1>0, <1>1, <1>2, <1>3, <1>4, <1>5, RowStepKeepsOne

LEMMA ApiCrashKeeps ==
  ASSUME DispatchInv, NEW s \in Syncs, ApiCrash(s)
  PROVE  DispatchInv' /\ RowStep
  <1> USE DispatchAssumption DEF DispatchInv, ApiCrash, Fault
  <1>0. RowStep
    BY DEF RowStep
  <1>1. Types'
    OBVIOUS
  <1>2. Unsent'
    BY DEF Unsent
  <1>3. Sent'
    BY DEF Sent
  <1>4. Owned'
    BY DEF Owned
  <1>5. Loaded'
    BY DEF Loaded
  <1> QED
    BY <1>0, <1>1, <1>2, <1>3, <1>4, <1>5, RowStepKeepsOne

LEMMA TakeKeeps ==
  ASSUME DispatchInv, NEW w \in Workers, NEW s \in Syncs, Take(w, s)
  PROVE  DispatchInv' /\ RowStep
  <1> USE DispatchAssumption DEF DispatchInv, Take, Goto
  <1>0. RowStep
    BY DEF RowStep
  <1>1. Types'
    OBVIOUS
  <1>2. Unsent'
    BY DEF Unsent
  <1>3. Sent'
    BY DEF Sent
  <1>4. Owned'
    BY DEF Owned
  <1>5. Loaded'
    BY DEF Loaded
  <1> QED
    BY <1>0, <1>1, <1>2, <1>3, <1>4, <1>5, RowStepKeepsOne

LEMMA AckKeeps ==
  ASSUME DispatchInv, NEW w \in Workers, Ack(w)
  PROVE  DispatchInv' /\ RowStep
  <1> USE DispatchAssumption DEF DispatchInv, Ack, GoIdle, Goto, NoRow,
      NoError
  <1>0. RowStep
    BY DEF RowStep
  <1>1. Types'
    OBVIOUS
  <1>2. Unsent'
    BY DEF Unsent
  <1>3. Sent'
    BY DEF Sent
  <1>4. Owned'
    BY DEF Owned
  <1>5. Loaded'
    BY DEF Loaded
  <1> QED
    BY <1>0, <1>1, <1>2, <1>3, <1>4, <1>5, RowStepKeepsOne

LEMMA CrashKeeps ==
  ASSUME DispatchInv, NEW w \in Workers, WorkerCrash(w) \/ ChildLost(w)
  PROVE  DispatchInv' /\ RowStep
  <1> USE DispatchAssumption DEF DispatchInv, WorkerCrash, ChildLost,
      GoIdle, Goto, Fault, NoRow, NoError
  <1>0. RowStep
    BY DEF RowStep
  <1>1. Types'
    <2>1. NoRow \in Row /\ NoError \in Errors
      OBVIOUS
    <2> HIDE DEF NoRow, NoError
    <2>2. /\ pc' = [pc EXCEPT ![w] = "idle"]
          /\ task' = [task EXCEPT ![w] = None]
          /\ mem' = [mem EXCEPT ![w] = NoRow]
          /\ code' = [code EXCEPT ![w] = NoError]
      OBVIOUS
    <2>3. /\ faults' \in 0..MaxFaults
          /\ lost' \subseteq Syncs
          /\ unacked' \subseteq Syncs
      OBVIOUS
    <2>4. UNCHANGED <<connection, sync, request, ready>>
      OBVIOUS
    <2> HIDE DEF WorkerCrash, ChildLost
    <2> QED
      BY <2>1, <2>2, <2>3, <2>4
  <1>2. Unsent'
    BY DEF Unsent
  <1>3. Sent'
    BY DEF Sent
  <1>4. Owned'
    <2>1. sync' = sync /\ \A v \in Workers :
              Busy(v)' => Busy(v) /\ task'[v] = task[v]
      OBVIOUS
    <2> HIDE DEF WorkerCrash, ChildLost
    <2> QED
      BY <2>1 DEF Owned
  <1>5. Loaded'
    BY DEF Loaded
  <1> QED
    BY <1>0, <1>1, <1>2, <1>3, <1>4, <1>5, RowStepKeepsOne

LEMMA RedeliverKeeps ==
  ASSUME DispatchInv, NEW s \in Syncs, Redeliver(s)
  PROVE  DispatchInv' /\ RowStep
  <1> USE DispatchAssumption DEF DispatchInv, Redeliver, Fault
  <1>0. RowStep
    BY DEF RowStep
  <1>1. Types'
    OBVIOUS
  <1>2. Unsent'
    BY DEF Unsent
  <1>3. Sent'
    BY DEF Sent
  <1>4. Owned'
    BY DEF Owned
  <1>5. Loaded'
    BY DEF Loaded
  <1> QED
    BY <1>0, <1>1, <1>2, <1>3, <1>4, <1>5, RowStepKeepsOne

LEMMA RaisesKeeps ==
  ASSUME DispatchInv, NEW w \in Workers, TaskRaises(w)
  PROVE  DispatchInv' /\ RowStep
  <1> USE DispatchAssumption DEF DispatchInv, TaskRaises, Goto, Fault
  <1>0. RowStep
    BY DEF RowStep
  <1>1. Types'
    OBVIOUS
  <1>2. Unsent'
    BY DEF Unsent
  <1>3. Sent'
    BY DEF Sent
  <1>4. Owned'
    BY DEF Owned
  <1>5. Loaded'
    BY DEF Loaded
  <1> QED
    BY <1>0, <1>1, <1>2, <1>3, <1>4, <1>5, RowStepKeepsOne

LEMMA FailReadKeeps ==
  ASSUME DispatchInv, NEW w \in Workers, FailRead(w)
  PROVE  DispatchInv' /\ RowStep
  <1> USE DispatchAssumption DEF DispatchInv, FailRead, Goto
  <1>0. RowStep
    BY DEF RowStep
  <1>1. Types'
    OBVIOUS
  <1>2. Unsent'
    BY DEF Unsent
  <1>3. Sent'
    BY DEF Sent
  <1>4. Owned'
    BY DEF Owned
  <1>5. Loaded'
    BY DEF Loaded, Owned
  <1> QED
    BY <1>0, <1>1, <1>2, <1>3, <1>4, <1>5, RowStepKeepsOne

(* Its own worker is the only one to end a synchronization that runs.      *)
LEMMA FailWriteKeeps ==
  ASSUME DispatchInv, NEW w \in Workers, FailWrite(w)
  PROVE  DispatchInv' /\ RowStep
  <1> USE DispatchAssumption DEF DispatchInv, FailWrite, Goto
  <1>0. RowStep
    <2> DEFINE new == Flush(sync[task[w]], mem[w], Failed(code[w]))
    <2>1. new \in Row /\ new.status \in Terminal
      BY DEF Flush, Failed, Loaded
    <2>2. task[w] \in Syncs /\ sync[task[w]].status = "RUNNING"
      BY DEF Owned
    <2>3. sync' = [sync EXCEPT ![task[w]] = new]
      OBVIOUS
    <2> HIDE DEF new
    <2> QED
      BY <2>1, <2>2, <2>3 DEF RowStep, Ends
  <1>1. Types'
    BY DEF Flush, Failed
  <1>2. Unsent'
    BY DEF Unsent, Sent
  <1>3. Sent'
    BY DEF Sent
  <1>4. Owned'
    BY DEF Owned
  <1>5. Loaded'
    BY DEF Loaded
  <1> QED
    BY <1>0, <1>1, <1>2, <1>3, <1>4, <1>5, RowStepKeepsOne

(* The claim is of a row that nobody has claimed.                          *)
LEMMA ClaimKeeps ==
  ASSUME DispatchInv, NEW w \in Workers, ClaimStep(w)
  PROVE  DispatchInv' /\ RowStep
  <1> USE DispatchAssumption DEF DispatchInv, ClaimStep, Goto, others
  <1>0. RowStep
    BY DEF RowStep, Starts, Ends, Failed
  <1>1. Types'
    <2>2. sync' \in [Syncs -> Row]
      BY <1>0, RowStepTyped
    <2>3. mem' \in [Workers -> Row]
      BY <2>2
    <2>4. pc' \in [Workers -> PCs] /\ pc[w] # "idle" /\ pc'[w] # "idle"
      OBVIOUS
    <2>5. \A v \in Workers : v # w => pc'[v] = pc[v]
      OBVIOUS
    <2>6. UNCHANGED others /\ code' = code
      OBVIOUS
    <2> HIDE DEF ClaimStep
    <2> QED
      BY <2>2, <2>3, <2>4, <2>5, <2>6
  <1>2. Unsent'
    BY DEF Unsent, Sent
  <1>3. Sent'
    BY DEF Sent
  <1>4. Owned'
    <2>1. CASE pc'[w] = "ack"
      <3>1. \A v \in Workers : Busy(v)' => Busy(v) /\ v # w
        BY <2>1
      <3>2. sync[task[w]].status # "RUNNING" => \A v \in Workers :
                Busy(v) => task[v] # task[w]
        BY DEF Owned
      <3>3. \A s \in Syncs : sync[s].status = "RUNNING" => sync'[s] = sync[s]
        BY <2>1
      <3>4. task' = task /\ \A v \in Workers : Busy(v) => task[v] \in Syncs
        OBVIOUS
      <3> HIDE DEF ClaimStep
      <3> QED
        BY <3>1, <3>2, <3>3, <3>4 DEF Owned
    <2>2. CASE pc'[w] # "ack"
      <3>1. /\ sync[task[w]].status = "QUEUED"
            /\ sync' = [sync EXCEPT ![task[w]].status = "RUNNING"]
        BY <2>2
      <3>2. \A v \in Workers : Busy(v) => task[v] # task[w]
        BY <3>1 DEF Owned
      <3>3. \A v \in Workers : v # w => pc'[v] = pc[v]
        OBVIOUS
      <3>4. task' = task /\ task[w] \in Syncs
        OBVIOUS
      <3> HIDE DEF ClaimStep
      <3> QED
        BY <3>1, <3>2, <3>3, <3>4 DEF Owned
    <2> QED
      BY <2>1, <2>2
  <1>5. Loaded'
    BY DEF Loaded, Failed
  <1> QED
    BY <1>0, <1>1, <1>2, <1>3, <1>4, <1>5, RowStepKeepsOne

LEMMA AskKeeps ==
  ASSUME DispatchInv, NEW w \in Workers, AskStep(w)
  PROVE  DispatchInv' /\ RowStep
  <1> USE DispatchAssumption DEF DispatchInv, AskStep, Goto, others
  <1>0. RowStep
    BY DEF RowStep
  <1>1. Types'
    OBVIOUS
  <1>2. Unsent'
    BY DEF Unsent
  <1>3. Sent'
    BY DEF Sent
  <1>4. Owned'
    BY DEF Owned
  <1>5. Loaded'
    BY DEF Loaded
  <1> QED
    BY <1>0, <1>1, <1>2, <1>3, <1>4, <1>5, RowStepKeepsOne

LEMMA RaiseKeeps ==
  ASSUME DispatchInv, NEW w \in Workers, RaiseStep(w)
  PROVE  DispatchInv' /\ RowStep
  <1> USE DispatchAssumption DEF DispatchInv, RaiseStep, Goto, others
  <1>0. RowStep
    BY DEF RowStep
  <1>1. Types'
    OBVIOUS
  <1>2. Unsent'
    BY DEF Unsent
  <1>3. Sent'
    BY DEF Sent
  <1>4. Owned'
    BY DEF Owned
  <1>5. Loaded'
    BY DEF Loaded
  <1> QED
    BY <1>0, <1>1, <1>2, <1>3, <1>4, <1>5, RowStepKeepsOne

LEMMA EndKeeps ==
  ASSUME DispatchInv, NEW w \in Workers, EndStep(w)
  PROVE  DispatchInv' /\ RowStep
  <1> USE DispatchAssumption DEF DispatchInv, EndStep, Goto, others
  <1>0. RowStep
    <2> PICK row \in Row :
               /\ row.status \in Terminal
               /\ sync' = [sync EXCEPT ![task[w]] = Flush(@, mem[w], row)]
      OBVIOUS
    <2> DEFINE new == Flush(sync[task[w]], mem[w], row)
    <2>1. new \in Row /\ new.status \in Terminal
      BY DEF Flush, Loaded
    <2>2. task[w] \in Syncs /\ sync[task[w]].status = "RUNNING"
      BY DEF Owned
    <2>3. sync' = [sync EXCEPT ![task[w]] = new]
      OBVIOUS
    <2> HIDE DEF new
    <2>4. Ends(task[w])
      BY <2>1, <2>2, <2>3 DEF Ends
    <2> QED
      BY <2>2, <2>4 DEF RowStep
  <1>1. Types'
    BY DEF Flush
  <1>2. Unsent'
    BY DEF Unsent, Sent
  <1>3. Sent'
    BY DEF Sent
  <1>4. Owned'
    BY DEF Owned
  <1>5. Loaded'
    BY DEF Loaded
  <1> QED
    BY <1>0, <1>1, <1>2, <1>3, <1>4, <1>5, RowStepKeepsOne

-----------------------------------------------------------------------------
(* What implements the abstract job has what the abstract job promises,    *)
(* for any jobs, keys and phases: costs, metrics and inventory scans do.   *)
Job(J, K, p) == INSTANCE AsyncJob WITH Ids <- J, KeyOf <- K, phase <- p

(* A key never has two active jobs: what start_scan and start_sync, and    *)
(* the partial unique indexes behind them, are there for.                  *)
THEOREM ExclusiveKeys ==
  ASSUME NEW CONSTANT J, NEW CONSTANT K, NEW STATE p
  PROVE  Job(J, K, p)!SafeSpec => []Job(J, K, p)!OneActivePerKey
  <1> DEFINE JobInv == Job(J, K, p)!TypeOK /\ Job(J, K, p)!OneActivePerKey
  <1>1. Job(J, K, p)!SafeSpec
            <=> Job(J, K, p)!Init /\ [][Job(J, K, p)!Next]_p
    BY PTL DEF Job!SafeSpec
  <1>2. Job(J, K, p)!Init => JobInv
    BY DEF Job!Init, Job!TypeOK, Job!OneActivePerKey, Job!Active
  <1>3. JobInv /\ [Job(J, K, p)!Next]_p => JobInv'
    <2> SUFFICES ASSUME JobInv, [Job(J, K, p)!Next]_p PROVE JobInv'
      OBVIOUS
    <2>0. Job(J, K, p)!TypeOK'
      BY DEF Job!TypeOK, Job!Active, Job!Next, Job!Submit, Job!Start, Job!End
    <2>1. ASSUME NEW j \in J, Job(J, K, p)!Submit(j)
          PROVE  Job(J, K, p)!OneActivePerKey'
      BY <2>1 DEF Job!Submit, Job!KeyIsFree, Job!OneActivePerKey, Job!TypeOK,
                  Job!Active
    <2>2. ASSUME NEW j \in J, Job(J, K, p)!Start(j) \/ Job(J, K, p)!End(j)
          PROVE  Job(J, K, p)!OneActivePerKey'
      BY <2>2 DEF Job!Start, Job!End, Job!OneActivePerKey, Job!TypeOK,
                  Job!Active
    <2>3. CASE UNCHANGED p
      BY <2>3 DEF Job!OneActivePerKey
    <2> QED
      BY <2>0, <2>1, <2>2, <2>3 DEF Job!Next
  <1> QED
    BY <1>1, <1>2, <1>3, PTL

(* A job that has ended stays ended, and a requested one is not forgotten. *)
THEOREM JobsEndOnce ==
  ASSUME NEW CONSTANT J, NEW CONSTANT K, NEW STATE p
  PROVE  Job(J, K, p)!SafeSpec => Job(J, K, p)!EndedIsFinal
  <1> DEFINE Final ==
        \A j \in J : /\ p[j] = "ended" => p'[j] = "ended"
                     /\ p[j] # "absent" => p'[j] # "absent"
  <1>1. Job(J, K, p)!SafeSpec
            <=> Job(J, K, p)!Init /\ [][Job(J, K, p)!Next]_p
    BY PTL DEF Job!SafeSpec
  <1>2. Job(J, K, p)!Init => Job(J, K, p)!TypeOK
    BY DEF Job!Init, Job!TypeOK, Job!Active
  <1>3. Job(J, K, p)!TypeOK /\ [Job(J, K, p)!Next]_p => Job(J, K, p)!TypeOK'
    BY DEF Job!TypeOK, Job!Active, Job!Next, Job!Submit, Job!Start, Job!End
  <1>4. Job(J, K, p)!TypeOK /\ [Job(J, K, p)!Next]_p => [Final]_p
    BY DEF Job!TypeOK, Job!Active, Job!Next, Job!Submit, Job!Start, Job!End
  <1>5. [][Final]_p <=> Job(J, K, p)!EndedIsFinal
    BY DEF Job!EndedIsFinal
  <1> QED
    BY <1>1, <1>2, <1>3, <1>4, <1>5, PTL
=============================================================================
