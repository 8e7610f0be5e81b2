-------------------------- MODULE CostSyncsProofs --------------------------
(***************************************************************************)
(* Cost synchronizations, for any number of them, of workers, facets and   *)
(* charges, any history of the bills and all faults but a send_task that   *)
(* raises after the broker took the message.                               *)
(***************************************************************************)
EXTENDS CostSyncs, SyncDispatchProofs, SequenceTheorems

CostTypes ==
    /\ amounts \in [Connections -> [Charges -> Amount]]
    /\ answers \in [Workers -> Seq(0..MaxClock)]
    /\ clock \in 1..MaxClock
    /\ \A w \in Workers : pc[w] # "collect" => answers[w] = <<>>

(* What a worker was told is not older than what is stored, and nothing is *)
(* from the future.                                                        *)
Fresh ==
    /\ \A c \in Connections, k \in Charges : amounts[c][k].of <= clock
    /\ \A w \in Workers : pc[w] = "collect" =>
          \A i \in 1..Len(answers[w]) :
             /\ answers[w][i] <= clock
             /\ answers[w][i] # 0 =>
                   \A k \in Charges :
                      amounts[ConnectionOf[task[w]]][k].of <= answers[w][i]

CostInv == DispatchInv /\ CostTypes /\ Fresh

USE DEF CostPCs, CostErrors, PCs, dispatchVars, rowVars, brokerVars,
        workerVars, faultVars
-----------------------------------------------------------------------------
(* Every step is one of those that SyncDispatchProofs is about.            *)
LEMMA DispatchKept ==
  ASSUME DispatchInv, "lost_reply" \notin Faults, [Next]_vars
  PROVE  DispatchInv' /\ RowStep
  <1>1. ASSUME UNCHANGED dispatchVars PROVE DispatchInv' /\ RowStep
    BY <1>1, StutterKeeps
  <1>2. ASSUME NEW c \in Connections, VerifyConnection(c)
        PROVE  DispatchInv' /\ RowStep
    BY <1>2, VerifyKeeps
  <1>3. ASSUME NEW s \in Syncs, CheckRequest(s) \/ ApiCrash(s) \/ Call(s)
        PROVE  DispatchInv' /\ RowStep
    BY <1>3, CheckKeeps, ApiCrashKeeps, InsertKeeps, SendKeeps, MarkKeeps
    DEF Call, RequestStep
  <1>4. ASSUME NEW s \in Syncs, Receive(s) \/ Return(s)
        PROVE  DispatchInv' /\ RowStep
    BY <1>4, TakeKeeps, RedeliverKeeps DEF Receive, Return
  <1>5. ASSUME NEW w \in Workers, Claim(w) PROVE DispatchInv' /\ RowStep
    <2>1. ClaimStep(w)
      BY <1>5 DEF Claim, ClaimStep, Claimable, Goto, others
    <2> QED
      BY <2>1, ClaimKeeps
  <1>6. ASSUME NEW w \in Workers, AskFacet(w) PROVE DispatchInv' /\ RowStep
    BY <1>1, <1>6 DEF AskFacet
  <1>7. ASSUME NEW w \in Workers, CollectionRaises(w) \/ GiveUp(w)
        PROVE  DispatchInv' /\ RowStep
    <2>1. RaiseStep(w)
      BY <1>7, CostErrorsAssumption
      DEF CollectionRaises, GiveUp, Failing, RaiseStep, Goto, others
    <2> QED
      BY <2>1, RaiseKeeps
  <1>8. ASSUME NEW w \in Workers, Persist(w) PROVE DispatchInv' /\ RowStep
    <2>1. Outcome(w) \in Row /\ Outcome(w).status \in Terminal
      BY CostErrorsAssumption DEF Outcome, NoError, Row, Active, Terminal
    <2>2. EndStep(w)
      BY <1>8, <2>1 DEF Persist, EndStep, others
    <2> QED
      BY <2>2, EndKeeps
  <1>9. ASSUME NEW w \in Workers,
               FailRead(w) \/ FailWrite(w) \/ Ack(w) \/ TaskRaises(w)
        PROVE  DispatchInv' /\ RowStep
    BY <1>9, FailReadKeeps, FailWriteKeeps, AckKeeps, RaisesKeeps
  <1>10. ASSUME NEW w \in Workers, Lose(w) PROVE DispatchInv' /\ RowStep
    BY <1>10, CrashKeeps DEF Lose
  <1> QED
    BY <1>1, <1>2, <1>3, <1>4, <1>5, <1>6, <1>7, <1>8, <1>9, <1>10
    DEF Next, Work, Tick, vars
-----------------------------------------------------------------------------
(* What is upserted.                                                       *)
LEMMA UpsertedAmounts ==
  ASSUME CostInv, NEW w \in Workers, Persist(w), NEW k \in Charges
  PROVE  /\ ConnectionOf[task[w]] \in Connections
         /\ task[w] \in Syncs
         /\ Upserted(w) \in [Charges -> Amount]
         /\ Upserted(w)[k].of <= clock
         /\ Upserted(w)[k].of >= amounts[ConnectionOf[task[w]]][k].of
         /\ \/ Upserted(w)[k] = amounts[ConnectionOf[task[w]]][k]
            \/ Upserted(w)[k].by = task[w]
  <1> DEFINE old == amounts[ConnectionOf[task[w]]]
             Names(l, i) == i \in 1..Len(Facets) /\ l \in Records(w, i)
             at(l) == CHOOSE i \in 1..Len(Facets) : l \in Records(w, i)
  <1>1. task[w] \in Syncs /\ pc[w] = "collect"
    BY DEF Persist, CostInv, DispatchInv, Types, DispatchTypeOK
  <1>2. ConnectionOf[task[w]] \in Connections /\ old \in [Charges -> Amount]
    BY <1>1, DispatchAssumption DEF CostInv, CostTypes
  <1>3. \A l \in Charges, i \in 1..Len(Facets) : l \in Records(w, i) =>
            /\ answers[w][i] \in 1..clock
            /\ old[l].of <= answers[w][i]
    <2> SUFFICES ASSUME NEW l \in Charges, NEW i \in 1..Len(Facets),
                        l \in Records(w, i)
                 PROVE  answers[w][i] \in 1..clock /\ old[l].of <= answers[w][i]
      OBVIOUS
    <2>1. answers[w][i] # 0
      BY DEF Records
    <2>2. i \in 1..Len(answers[w])
      BY DEF Persist, MoreFacets, CostInv, CostTypes
    <2>3. answers[w][i] \in 0..MaxClock
      <3>1. answers[w] \in Seq(0..MaxClock)
        BY DEF CostInv, CostTypes
      <3> QED
        BY <2>2, <3>1, ElementOfSeq
    <2> QED
      BY <1>1, <2>1, <2>2, <2>3, BillAssumption DEF CostInv, CostTypes, Fresh
  <1>4. \A l \in Charges :
           Upserted(w)[l] = IF \E i \in 1..Len(Facets) : l \in Records(w, i)
                            THEN [of |-> answers[w][at(l)], by |-> task[w]]
                            ELSE old[l]
    BY DEF Upserted
  <1>5. \A l \in Charges :
           (\E i \in 1..Len(Facets) : l \in Records(w, i)) =>
               at(l) \in 1..Len(Facets) /\ l \in Records(w, at(l))
    OBVIOUS
  <1> HIDE DEF at
  <1>6. \A l \in Charges :
            /\ Upserted(w)[l] \in Amount
            /\ Upserted(w)[l].of <= clock
            /\ Upserted(w)[l].of >= old[l].of
            /\ Upserted(w)[l] = old[l] \/ Upserted(w)[l].by = task[w]
    <2> SUFFICES ASSUME NEW l \in Charges
                 PROVE  /\ Upserted(w)[l] \in Amount
                        /\ Upserted(w)[l].of <= clock
                        /\ Upserted(w)[l].of >= old[l].of
                        /\ Upserted(w)[l] = old[l] \/ Upserted(w)[l].by = task[w]
      OBVIOUS
    <2>1. old[l] \in Amount /\ old[l].of <= clock /\ old[l].of \in Nat
      BY <1>2 DEF Amount, CostInv, Fresh
    <2>2. CASE \E i \in 1..Len(Facets) : l \in Records(w, i)
      <3> DEFINE a == answers[w][at(l)]
      <3>1. a \in 1..clock /\ old[l].of <= a
        BY <1>3, <1>5, <2>2
      <3>2. Upserted(w)[l] = [of |-> a, by |-> task[w]]
        BY <1>4, <2>2
      <3>3. clock \in 1..MaxClock /\ MaxClock \in Nat
        BY BillAssumption DEF CostInv, CostTypes
      <3> HIDE DEF a
      <3> QED
        BY <1>1, <2>1, <3>1, <3>2, <3>3 DEF Amount
    <2>3. CASE ~\E i \in 1..Len(Facets) : l \in Records(w, i)
      <3>1. Upserted(w)[l] = old[l]
        BY <1>4, <2>3
      <3> QED
        BY <2>1, <3>1
    <2> QED
      BY <2>2, <2>3
  <1>7. Upserted(w) \in [Charges -> Amount]
    BY <1>6 DEF Upserted
  <1> QED
    BY <1>1, <1>2, <1>6, <1>7

(* Nobody else collects for the connection while a worker does.            *)
LEMMA OnlyCollector ==
  ASSUME CostInv, NEW v \in Workers, NEW w \in Workers, v # w,
         pc[v] = "collect", pc[w] = "collect"
  PROVE  ConnectionOf[task[v]] # ConnectionOf[task[w]]
  BY BillAssumption
  DEF CostInv, DispatchInv, Types, DispatchTypeOK, Owned, Busy, OneActiveSync,
      IsActive, Active

LEMMA FacetAsked ==
  ASSUME CostInv, NEW w \in Workers, AskFacet(w)
  PROVE  CostTypes' /\ Fresh'
  <1>1. PICK answer \in {0, clock} :
               answers' = [answers EXCEPT ![w] = Append(@, answer)]
    BY DEF AskFacet
  <1>2. /\ answers[w] \in Seq(0..MaxClock) /\ answer \in 0..MaxClock
        /\ pc[w] = "collect"
        /\ UNCHANGED <<pc, task, amounts, clock>>
    BY BillAssumption DEF AskFacet, CostInv, CostTypes
  <1>3. /\ answers'[w] = Append(answers[w], answer)
        /\ \A v \in Workers \ {w} : answers'[v] = answers[v]
    BY <1>1 DEF CostInv, CostTypes
  <1>4. /\ answers'[w] \in Seq(0..MaxClock)
        /\ Len(answers'[w]) = Len(answers[w]) + 1
        /\ \A i \in 1..Len(answers[w]) : answers'[w][i] = answers[w][i]
        /\ answers'[w][Len(answers[w]) + 1] = answer
    BY <1>2, <1>3, AppendProperties
  <1>5. CostTypes'
    BY <1>1, <1>2, <1>3, <1>4 DEF CostInv, CostTypes
  <1>6. ASSUME NEW v \in Workers, pc'[v] = "collect",
               NEW i \in 1..Len(answers'[v])
        PROVE  /\ answers'[v][i] <= clock
               /\ answers'[v][i] # 0 =>
                     \A k \in Charges :
                        amounts[ConnectionOf[task[v]]][k].of <= answers'[v][i]
    <2>1. CASE v = w /\ i = Len(answers[w]) + 1
      <3>1. answers'[v][i] = answer
        BY <1>4, <2>1
      <3>2. ConnectionOf[task[w]] \in Connections
        BY <1>2, DispatchAssumption
        DEF CostInv, DispatchInv, Types, DispatchTypeOK
      <3>3. answer \in {0, clock} /\ clock \in Nat
        BY BillAssumption DEF CostInv, CostTypes
      <3> QED
        BY <2>1, <3>1, <3>2, <3>3 DEF CostInv, Fresh
    <2>2. CASE v = w /\ i # Len(answers[w]) + 1
      <3>1. Len(answers[w]) \in Nat
        BY <1>2
      <3>2. i \in 1..Len(answers[w])
        BY <1>4, <1>6, <2>2, <3>1
      <3> QED
        BY <1>2, <1>4, <2>2, <3>2 DEF CostInv, Fresh
    <2>3. CASE v # w
      BY <1>2, <1>3, <1>6, <2>3 DEF CostInv, Fresh
    <2> QED
      BY <2>1, <2>2, <2>3
  <1>7. Fresh'
    BY <1>2, <1>6 DEF CostInv, Fresh
  <1> QED
    BY <1>5, <1>7

LEMMA PersistKept ==
  ASSUME CostInv, NEW w \in Workers, Persist(w)
  PROVE  CostTypes' /\ Fresh'
  <1> DEFINE c == ConnectionOf[task[w]]
             up == Upserted(w)
  <1>1. /\ pc[w] = "collect" /\ pc' = [pc EXCEPT ![w] = "ack"]
        /\ amounts' = [amounts EXCEPT ![c] = up]
        /\ answers' = [answers EXCEPT ![w] = <<>>]
        /\ UNCHANGED <<task, clock>>
    BY DEF Persist, Goto
  <1>2. c \in Connections
    BY <1>1, DispatchAssumption DEF CostInv, DispatchInv, Types, DispatchTypeOK
  <1>3. \A k \in Charges : up[k].of <= clock
    BY UpsertedAmounts
  <1>4. Charges # {} => up \in [Charges -> Amount]
    BY UpsertedAmounts
  <1>5. up \in [Charges -> Amount]
    BY <1>4 DEF Upserted
  <1> HIDE DEF up
  <1>6. \A d \in Connections : amounts'[d] = IF d = c THEN up ELSE amounts[d]
    BY <1>1 DEF CostInv, CostTypes
  <1>7. \A v \in Workers : pc'[v] = "collect" =>
            v # w /\ pc[v] = "collect" /\ answers'[v] = answers[v]
    BY <1>1 DEF CostInv, CostTypes, DispatchInv, Types, DispatchTypeOK
  <1>8. CostTypes'
    <2>1. amounts' \in [Connections -> [Charges -> Amount]]
      BY <1>1, <1>5 DEF CostInv, CostTypes
    <2>2. answers' \in [Workers -> Seq(0..MaxClock)]
      BY <1>1, EmptySeq DEF CostInv, CostTypes
    <2>3. \A v \in Workers : pc'[v] # "collect" => answers'[v] = <<>>
      BY <1>1 DEF CostInv, CostTypes, DispatchInv, Types, DispatchTypeOK
    <2> QED
      BY <1>1, <2>1, <2>2, <2>3 DEF CostInv, CostTypes
  <1>9. \A v \in Workers : pc'[v] = "collect" =>
            /\ ConnectionOf[task[v]] \in Connections
            /\ ConnectionOf[task[v]] # c
    BY <1>1, <1>7, OnlyCollector, DispatchAssumption
    DEF CostInv, DispatchInv, Types, DispatchTypeOK
  <1>10. Fresh'
    BY <1>1, <1>3, <1>6, <1>7, <1>9 DEF CostInv, Fresh
  <1> QED
    BY <1>8, <1>10

(* Steps after which the same workers collect the same.                    *)
LEMMA FreshFrame ==
  ASSUME CostInv, UNCHANGED costVars,
         \A v \in Workers :
            /\ pc'[v] = "collect" =>
                  answers[v] = <<>> \/ (pc[v] = "collect" /\ task'[v] = task[v])
            /\ pc[v] = "collect" => pc'[v] = "collect"
  PROVE  CostTypes' /\ Fresh'
  BY DEF CostInv, CostTypes, Fresh, costVars

(* Steps with which a worker stops to collect.                             *)
LEMMA FreshEnds ==
  ASSUME CostInv, NEW w \in Workers, UNCHANGED <<amounts, clock>>,
         answers' = [answers EXCEPT ![w] = <<>>], pc'[w] # "collect",
         \A v \in Workers \ {w} : pc'[v] = pc[v] /\ task'[v] = task[v]
  PROVE  CostTypes' /\ Fresh'
  <1>1. answers' \in [Workers -> Seq(0..MaxClock)]
    BY EmptySeq DEF CostInv, CostTypes
  <1>2. /\ answers'[w] = <<>>
        /\ \A v \in Workers \ {w} : answers'[v] = answers[v]
    BY DEF CostInv, CostTypes
  <1> QED
    BY <1>1, <1>2 DEF CostInv, CostTypes, Fresh

LEMMA InvKept ==
  ASSUME CostInv, "lost_reply" \notin Faults, [Next]_vars
  PROVE  CostInv'
  <1> USE DEF CostInv, DispatchInv, Types, DispatchTypeOK
  <1>1. DispatchInv'
    BY DispatchKept
  <1>2. ASSUME UNCHANGED <<costVars, pc, task>> PROVE CostTypes' /\ Fresh'
    BY <1>2, FreshFrame DEF costVars
  <1>3. ASSUME Tick PROVE CostTypes' /\ Fresh'
    <2>1. /\ clock' = clock + 1 /\ clock < MaxClock
          /\ UNCHANGED <<amounts, answers, pc, task>>
      BY <1>3 DEF Tick
    <2>2. CostTypes'
      BY <2>1, BillAssumption DEF CostTypes
    <2>3. ASSUME NEW c \in Connections, NEW k \in Charges
          PROVE  amounts[c][k].of <= clock + 1
      BY BillAssumption DEF CostTypes, Fresh, Amount
    <2>4. ASSUME NEW w \in Workers, pc[w] = "collect",
                 NEW i \in 1..Len(answers[w])
          PROVE  answers[w][i] <= clock + 1
      <3>1. answers[w][i] \in 0..MaxClock
        BY ElementOfSeq DEF CostTypes
      <3> QED
        BY <2>4, <3>1, BillAssumption DEF CostTypes, Fresh
    <2> QED
      BY <2>1, <2>2, <2>3, <2>4 DEF Fresh
  <1>4. ASSUME NEW c \in Connections, VerifyConnection(c), UNCHANGED costVars
        PROVE  CostTypes' /\ Fresh'
    BY <1>2, <1>4 DEF VerifyConnection
  <1>5. ASSUME NEW s \in Syncs, UNCHANGED costVars,
               CheckRequest(s) \/ ApiCrash(s) \/ RequestStep(s) \/ Redeliver(s)
        PROVE  CostTypes' /\ Fresh'
    BY <1>2, <1>5 DEF CheckRequest, ApiCrash, RequestStep, Redeliver,
       InsertRow, SendTask, SendRaises, MarkDispatchFailed
  <1>6. ASSUME NEW w \in Workers, UNCHANGED costVars, pc[w] # "collect",
               \A v \in Workers \ {w} : pc'[v] = pc[v] /\ task'[v] = task[v]
        PROVE  CostTypes' /\ Fresh'
    <2>1. answers[w] = <<>>
      BY <1>6 DEF CostTypes
    <2>2. \A v \in Workers :
             /\ pc'[v] = "collect" =>
                   answers[v] = <<>> \/ (pc[v] = "collect" /\ task'[v] = task[v])
             /\ pc[v] = "collect" => pc'[v] = "collect"
      BY <1>6, <2>1
    <2> QED
      BY <1>6, <2>2, FreshFrame
  <1>7. ASSUME NEW w \in Workers, NEW s \in Syncs, Take(w, s), UNCHANGED costVars
        PROVE  CostTypes' /\ Fresh'
    BY <1>6, <1>7 DEF Take, Goto
  <1>8. ASSUME NEW w \in Workers, Claim(w) PROVE CostTypes' /\ Fresh'
    BY <1>6, <1>8 DEF Claim, Goto
  <1>9. ASSUME NEW w \in Workers, UNCHANGED costVars,
               FailRead(w) \/ FailWrite(w) \/ Ack(w) \/ TaskRaises(w)
        PROVE  CostTypes' /\ Fresh'
    BY <1>6, <1>9 DEF FailRead, FailWrite, Ack, TaskRaises, GoIdle, Goto
  <1>10. ASSUME NEW w \in Workers, Lose(w) PROVE CostTypes' /\ Fresh'
    BY <1>10, FreshEnds DEF Lose, WorkerCrash, ChildLost, GoIdle, Goto, Forget
  <1>11. ASSUME NEW w \in Workers, CollectionRaises(w) \/ GiveUp(w)
         PROVE  CostTypes' /\ Fresh'
    BY <1>11, FreshEnds DEF CollectionRaises, GiveUp, Failing, Goto
  <1>12. CostTypes' /\ Fresh'
    BY <1>2, <1>3, <1>4, <1>5, <1>7, <1>8, <1>9, <1>10, <1>11, FacetAsked,
       PersistKept
    DEF Next, Work, Call, Receive, Return, vars
  <1> QED
    BY <1>1, <1>12

LEMMA InvHolds ==
  ASSUME "lost_reply" \notin Faults
  PROVE  Spec => []CostInv
  <1>1. Init => CostInv
    <2> SUFFICES ASSUME Init PROVE CostInv
      OBVIOUS
    <2>1. DispatchInv
      BY InitInv DEF Init
    <2>2. CostTypes
      BY BillAssumption, EmptySeq DEF Init, CostTypes, Amount, NoAmount
    <2>3. Fresh
      BY BillAssumption DEF Init, DispatchInit, Fresh, NoAmount
    <2> QED
      BY <2>1, <2>2, <2>3 DEF CostInv
  <1>2. CostInv /\ [Next]_vars => CostInv'
    BY InvKept
  <1> QED
    BY <1>1, <1>2, PTL DEF Spec
-----------------------------------------------------------------------------
(* Only Persist touches what is stored, and writes only what its worker    *)
(* asked for.                                                              *)
LEMMA Persisted ==
  ASSUME CostInv, [Next]_vars, NEW c \in Connections, NEW k \in Charges
  PROVE  \/ amounts'[c][k] = amounts[c][k]
         \/ \E w \in Workers : /\ Persist(w)
                               /\ c = ConnectionOf[task[w]]
                               /\ amounts'[c] = Upserted(w)
                               /\ amounts'[c][k].by = task[w]
                               /\ amounts'[c][k].of >= amounts[c][k].of
  <1>1. CASE UNCHANGED amounts
    BY <1>1
  <1>2. ASSUME NEW w \in Workers, Persist(w), c = ConnectionOf[task[w]]
        PROVE  /\ amounts'[c] = Upserted(w)
               /\ Upserted(w)[k].of >= amounts[c][k].of
               /\ \/ Upserted(w)[k] = amounts[c][k]
                  \/ Upserted(w)[k].by = task[w]
    BY <1>2, UpsertedAmounts DEF Persist, CostInv, CostTypes
  <1>3. ASSUME NEW w \in Workers, Persist(w), c # ConnectionOf[task[w]]
        PROVE  amounts'[c] = amounts[c]
    BY <1>3 DEF Persist, CostInv, CostTypes
  <1>4. UNCHANGED amounts \/ \E w \in Workers : Persist(w)
    BY DEF Next, Work, Tick, Call, Receive, Return, Claim, AskFacet,
       CollectionRaises, GiveUp, Lose, Forget, costVars, vars
  <1> QED
    BY <1>1, <1>2, <1>3, <1>4

(* No amount goes back to an older bill: of two syncs of a connection, one *)
(* collects, and what it was told is as new as what the other one stored.  *)
THEOREM AmountsNeverOlderHolds ==
  ASSUME "lost_reply" \notin Faults
  PROVE  Spec => AmountsNeverOlder
  <1>1. CostInv /\ [Next]_vars =>
          [\A c \in Connections, k \in Charges :
              amounts'[c][k].of >= amounts[c][k].of]_vars
    <2> SUFFICES ASSUME CostInv, [Next]_vars,
                        NEW c \in Connections, NEW k \in Charges
                 PROVE  amounts'[c][k].of >= amounts[c][k].of
      OBVIOUS
    <2>1. amounts[c][k].of \in Nat
      BY BillAssumption DEF CostInv, CostTypes, Amount
    <2> QED
      BY <2>1, Persisted
  <1> QED
    BY <1>1, InvHolds, PTL DEF Spec, AmountsNeverOlder

(* Who wrote an amount is a synchronization.                               *)
Known ==
    \A c \in Connections, k \in Charges :
        amounts[c][k] # NoAmount => amounts[c][k].by \in Syncs

(* What a step wrote has a synchronization that ended well with the same   *)
(* commit, and what ended stays as it is.                                  *)
LEMMA KnownKept ==
  ASSUME CostInv, Known, [Next]_vars
  PROVE  Known'
  <1> SUFFICES ASSUME NEW c \in Connections, NEW k \in Charges,
                      amounts'[c][k] # NoAmount
               PROVE  amounts'[c][k].by \in Syncs
    BY DEF Known
  <1>1. \A w \in Workers : Persist(w) => task[w] \in Syncs
    BY DEF Persist, CostInv, DispatchInv, Types, DispatchTypeOK
  <1> QED
    BY <1>1, Persisted DEF Known

LEMMA SourceKept ==
  ASSUME CostInv, Known, AmountsHaveSource, "lost_reply" \notin Faults,
         [Next]_vars
  PROVE  AmountsHaveSource'
  <1>1. \A s \in Syncs : sync[s].status \in {"COMPLETED", "PARTIAL"}
                               => sync'[s] = sync[s]
    BY DispatchKept
    DEF CostInv, DispatchInv, Types, DispatchTypeOK, RowStep, Submits,
        Starts, Ends, Active
  <1> SUFFICES ASSUME NEW c \in Connections, NEW k \in Charges,
                      amounts'[c][k] # NoAmount
               PROVE  /\ ConnectionOf[amounts'[c][k].by] = c
                      /\ sync'[amounts'[c][k].by].status
                           \in {"COMPLETED", "PARTIAL"}
    BY DEF AmountsHaveSource
  <1>2. CASE amounts'[c][k] = amounts[c][k]
    BY <1>1, <1>2 DEF AmountsHaveSource, Known
  <1>3. ASSUME NEW w \in Workers, Persist(w), c = ConnectionOf[task[w]],
               amounts'[c][k].by = task[w]
        PROVE  /\ ConnectionOf[amounts'[c][k].by] = c
               /\ sync'[amounts'[c][k].by].status \in {"COMPLETED", "PARTIAL"}
    <2>1. sync'[task[w]].status = Outcome(w).status
      BY <1>3 DEF Persist, CostInv, DispatchInv, Types, DispatchTypeOK,
         Loaded, Flush, Outcome, NoError
    <2> QED
      BY <1>3, <2>1 DEF Outcome
  <1> QED
    BY <1>2, <1>3, Persisted

(* Every amount has a synchronization of its connection that says so.      *)
THEOREM AmountsHaveSourceHolds ==
  ASSUME "lost_reply" \notin Faults
  PROVE  Spec => []AmountsHaveSource
  <1>1. Init => Known /\ AmountsHaveSource
    BY DEF Init, Known, AmountsHaveSource
  <1>2. CostInv /\ Known /\ AmountsHaveSource /\ [Next]_vars
          => Known' /\ AmountsHaveSource'
    BY KnownKept, SourceKept
  <1> QED
    BY <1>1, <1>2, InvHolds, PTL DEF Spec

-----------------------------------------------------------------------------
(* What is stored stays stored, and Persist stores a cost.                 *)
LEMMA StaysStored ==
  ASSUME CostInv, [Next]_vars, NEW c \in Connections, NEW k \in Charges,
         amounts[c][k] # NoAmount
  PROVE  amounts'[c][k] # NoAmount
  <1>1. \A w \in Workers : Persist(w) => task[w] \in Syncs
    BY DEF Persist, CostInv, DispatchInv, Types, DispatchTypeOK
  <1> QED
    BY <1>1, Persisted, DispatchAssumption DEF NoAmount

LEMMA StoresCost ==
  ASSUME CostInv, NEW w \in Workers, Persist(w)
  PROVE  \E l \in Charges, i \in 1..Len(CostFacets) :
            /\ l.facet = CostFacets[i]
            /\ Upserted(w)[l] # NoAmount
  <1>1. PICK i \in 1..Len(CostFacets) : Records(w, i) # {}
    BY DEF Persist, NoRecords
  <1>2. PICK l \in Records(w, i) : TRUE
    BY <1>1
  <1>3. /\ Facets[i] = CostFacets[i]
        /\ i \in 1..Len(Facets)
    BY BillAssumption, ConcatProperties, LenProperties DEF Facets
  <1>4. /\ task[w] \in Syncs /\ task[w] # None
        /\ ConnectionOf[task[w]] \in Connections
    BY DispatchAssumption
    DEF Persist, CostInv, DispatchInv, Types, DispatchTypeOK
  <1>5. answers[w][i] \in 1..MaxClock
    <2>1. i \in 1..Len(answers[w]) /\ answers[w] \in Seq(0..MaxClock)
      BY <1>3 DEF Persist, MoreFacets, CostInv, CostTypes
    <2>2. answers[w][i] \in 0..MaxClock
      BY <2>1, ElementOfSeq
    <2>3. answers[w][i] # 0
      BY <1>2 DEF Records
    <2> QED
      BY <2>2, <2>3, BillAssumption
  <1>6. l \in Charges /\ l.facet = CostFacets[i]
    BY <1>2, <1>3, <1>4, <1>5, BillAssumption DEF Records
  <1>7. Upserted(w)[l].by = task[w]
    BY <1>2, <1>3, <1>6 DEF Upserted
  <1> QED
    BY <1>4, <1>6, <1>7 DEF NoAmount

(* However the facets fail, a connection that has forecasts has costs.     *)
THEOREM ForecastsNeedCostsHolds ==
  ASSUME "lost_reply" \notin Faults
  PROVE  Spec => []ForecastsNeedCosts
  <1>1. Init => ForecastsNeedCosts
    BY DEF Init, ForecastsNeedCosts
  <1>2. ASSUME CostInv, ForecastsNeedCosts, [Next]_vars,
               NEW c \in Connections, NEW k \in Charges,
               amounts'[c][k] # NoAmount,
               NEW j \in 1..Len(ForecastFacets), k.facet = ForecastFacets[j]
        PROVE  \E l \in Charges, i \in 1..Len(CostFacets) :
                  l.facet = CostFacets[i] /\ amounts'[c][l] # NoAmount
    <2>1. CASE amounts'[c][k] = amounts[c][k]
      <3>1. PICK l \in Charges, i \in 1..Len(CostFacets) :
                    l.facet = CostFacets[i] /\ amounts[c][l] # NoAmount
        BY <1>2, <2>1 DEF ForecastsNeedCosts
      <3> QED
        BY <1>2, <3>1, StaysStored
    <2>2. ASSUME NEW w \in Workers, Persist(w), amounts'[c] = Upserted(w)
          PROVE  \E l \in Charges, i \in 1..Len(CostFacets) :
                    l.facet = CostFacets[i] /\ amounts'[c][l] # NoAmount
      BY <1>2, <2>2, StoresCost
    <2> QED
      BY <1>2, <2>1, <2>2, Persisted
  <1>3. CostInv /\ ForecastsNeedCosts /\ [Next]_vars => ForecastsNeedCosts'
    BY <1>2 DEF ForecastsNeedCosts
  <1> QED
    BY <1>1, <1>3, InvHolds, PTL DEF Spec

(* Cost synchronizations are abstract jobs.                                *)
THEOREM CostSyncsAreJobs ==
  ASSUME "lost_reply" \notin Faults
  PROVE  Spec => SyncsAreJobs
  <1>1. Init => Jobs!Init
    BY DEF Init, DispatchInit, Jobs!Init, JobPhase, NoRow
  <1>2. CostInv /\ [Next]_vars => [Jobs!Next]_JobPhase
    BY DispatchKept, RowStepIsJobStep
    DEF CostInv, DispatchInv, Types, DispatchTypeOK
  <1> QED
    BY <1>1, <1>2, InvHolds, PTL DEF Spec, SyncsAreJobs, Jobs!SafeSpec
=============================================================================
