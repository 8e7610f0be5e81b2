------------------------------ MODULE CostSyncs ------------------------------
(***************************************************************************)
(* Cost synchronizations.  The request and the broker are SyncDispatch's;  *)
(* here is synchronize_costs (cost_management/tasks.py): it claims the     *)
(* QUEUED row under FOR UPDATE, asks Cost Explorer for one facet after the *)
(* other, and upserts the amounts and ends the synchronization in one      *)
(* transaction.                                                            *)
(***************************************************************************)
EXTENDS SyncDispatch, Sequences

CONSTANTS
    CostFacets,      \* granularity and grouping pairs, in the order asked
    ForecastFacets,  \* the forecasts asked for after them
    Charges,         \* what has an amount: [facet, id] records
    Bill,            \* Bill[v][c]: the charges on c's bill at time v
    MaxClock         \* bound: how often the bills change

Facets == CostFacets \o ForecastFacets

ASSUME BillAssumption ==
    /\ KeyOf = ConnectionOf
    /\ CostFacets \in Seq({CostFacets[i] : i \in DOMAIN CostFacets})
    /\ ForecastFacets \in Seq({ForecastFacets[i] : i \in DOMAIN ForecastFacets})
    /\ MaxClock \in Nat \ {0}
    /\ Bill \in [1..MaxClock -> [Connections -> SUBSET Charges]]
    /\ \A k \in Charges : \E i \in 1..Len(Facets) : k.facet = Facets[i]

VARIABLES
    amounts,  \* cost_aggregates and cost_forecasts: whose bill, of when
    answers,  \* what each worker was told so far: when; 0: an error
    clock     \* time, as far as the bills change

costVars == <<amounts, answers, clock>>
vars == <<dispatchVars, costVars>>
-----------------------------------------------------------------------------
CostErrors == {"NONE", "DISPATCH_FAILED", "CONNECTION_NOT_VERIFIED",
               "AWS_ROLE_UNAVAILABLE", "COST_EXPLORER_UNAVAILABLE",
               "COST_PERSISTENCE_FAILED", "COST_DATA_PARTIAL"}

ASSUME CostErrorsAssumption == CostErrors \subseteq Errors

CostPCs == {"idle", "claim", "collect", "failRead", "failWrite", "ack"}

(* An amount is known by the time of the bill that it was read from.       *)
Amount == [of: 0..MaxClock, by: Syncs \cup {None}]
NoAmount == [of |-> 0, by |-> None]

TypeOK ==
    /\ DispatchTypeOK(CostPCs)
    /\ amounts \in [Connections -> [Charges -> Amount]]
    /\ DOMAIN answers = Workers
    /\ \A w \in Workers : /\ answers[w] \in Seq(0..MaxClock)
                          /\ Len(answers[w]) <= Len(Facets)
    /\ clock \in 1..MaxClock

Init ==
    /\ DispatchInit
    /\ amounts = [c \in Connections |-> [k \in Charges |-> NoAmount]]
    /\ answers = [w \in Workers |-> <<>>]
    /\ clock = 1

Tick ==
    /\ clock < MaxClock
    /\ clock' = clock + 1
    /\ UNCHANGED <<dispatchVars, amounts, answers>>

-----------------------------------------------------------------------------
(* Mutant: a synchronization that is RUNNING can be claimed as well.       *)
ClaimsActive(s) == IsActive(s)

Claimable(s) == sync[s].status = "QUEUED"

(* The row is locked from the read to the commit.  What is not claimable   *)
(* is left alone, and its message acknowledged.                            *)
Claim(w) ==
    LET s == task[w]
    IN  /\ pc[w] = "claim"
        /\ \/ /\ ~Claimable(s)
              /\ Goto(w, "ack")
              /\ UNCHANGED <<sync, mem>>
           \/ /\ Claimable(s)
              /\ connection[ConnectionOf[s]] # "VERIFIED"
              /\ sync' = [sync EXCEPT ![s] = Failed("CONNECTION_NOT_VERIFIED")]
              /\ Goto(w, "ack")
              /\ mem' = mem
           \/ /\ Claimable(s)
              /\ connection[ConnectionOf[s]] = "VERIFIED"
              /\ sync' = [sync EXCEPT ![s].status = "RUNNING"]
              /\ mem' = [mem EXCEPT ![w] = sync'[s]]
              /\ Goto(w, "collect")
        /\ UNCHANGED <<connection, request, brokerVars, task, code, faultVars,
                       costVars>>

MoreFacets(w) == Len(answers[w]) < Len(Facets)

(* get_costs or get_forecast: the bill as it is now, or CostProviderError, *)
(* after which the next facet is asked for.                                *)
AskFacet(w) ==
    /\ pc[w] = "collect"
    /\ MoreFacets(w)
    /\ \E answer \in {0, clock} : answers' = [answers EXCEPT ![w] = Append(@, answer)]
    /\ UNCHANGED <<dispatchVars, amounts, clock>>

Failing(w, e) ==
    /\ code' = [code EXCEPT ![w] = e]
    /\ answers' = [answers EXCEPT ![w] = <<>>]
    /\ Goto(w, "failRead")

(* Mutant: what was asked for so far is committed, not rolled back.        *)
RaisesAfterWriting(w) ==
    /\ pc[w] = "collect"
    /\ Failing(w, "COST_PERSISTENCE_FAILED")
    /\ amounts' = [amounts EXCEPT ![ConnectionOf[task[w]]] =
                     [k \in Charges |-> IF answers[w] # <<>>
                          THEN [of |-> clock, by |-> task[w]] ELSE @[k]]]
    /\ UNCHANGED <<rowVars, request, brokerVars, task, mem, faultVars, clock>>

(* The role cannot be assumed, or anything else in the try block raises;   *)
(* the transaction is rolled back.                                         *)
CollectionRaises(w) ==
    /\ pc[w] = "collect"
    /\ \/ answers[w] = <<>> /\ Failing(w, "AWS_ROLE_UNAVAILABLE")
       \/ Failing(w, "COST_PERSISTENCE_FAILED")
    /\ UNCHANGED <<rowVars, request, brokerVars, task, mem, faultVars, amounts,
                   clock>>

(* The charges that the answer for facet i names.                          *)
Records(w, i) ==
    IF answers[w][i] = 0 THEN {}
    ELSE {k \in Bill[answers[w][i]][ConnectionOf[task[w]]] : k.facet = Facets[i]}

(* Mutant: a forecast is enough.                                           *)
NoRecordsAtAll(w) ==
    /\ ~MoreFacets(w)
    /\ \A i \in 1..Len(Facets) : Records(w, i) = {}

(* Forecasts alone do not make a synchronization.                          *)
NoRecords(w) ==
    /\ ~MoreFacets(w)
    /\ \A i \in 1..Len(CostFacets) : Records(w, i) = {}

(* Mutant: the task returns before it records the failure.                 *)
GiveUpQuietly(w) ==
    /\ pc[w] = "collect"
    /\ NoRecords(w)
    /\ answers' = [answers EXCEPT ![w] = <<>>]
    /\ Goto(w, "ack")
    /\ UNCHANGED <<rowVars, request, brokerVars, task, mem, code, faultVars,
                   amounts, clock>>

GiveUp(w) ==
    /\ pc[w] = "collect"
    /\ NoRecords(w)
    /\ Failing(w, "COST_EXPLORER_UNAVAILABLE")
    /\ UNCHANGED <<rowVars, request, brokerVars, task, mem, faultVars, amounts,
                   clock>>

(* The upserts: what the answers name is overwritten, nothing is deleted.  *)
Upserted(w) ==
    [k \in Charges |->
        IF \E i \in 1..Len(Facets) : k \in Records(w, i)
        THEN [of |-> answers[w][CHOOSE i \in 1..Len(Facets) : k \in Records(w, i)],
              by |-> task[w]]
        ELSE amounts[ConnectionOf[task[w]]][k]]

Outcome(w) ==
    IF \E i \in DOMAIN answers[w] : answers[w][i] = 0
    THEN [status |-> "PARTIAL", error |-> "COST_DATA_PARTIAL"]
    ELSE [status |-> "COMPLETED", error |-> NoError]

Persist(w) ==
    /\ pc[w] = "collect"
    /\ ~MoreFacets(w)
    /\ ~NoRecords(w)
    /\ amounts' = [amounts EXCEPT ![ConnectionOf[task[w]]] = Upserted(w)]
    /\ sync' = [sync EXCEPT ![task[w]] = Flush(@, mem[w], Outcome(w))]
    /\ answers' = [answers EXCEPT ![w] = <<>>]
    /\ Goto(w, "ack")
    /\ UNCHANGED <<connection, request, brokerVars, task, mem, code, faultVars,
                   clock>>

-----------------------------------------------------------------------------
(* The steps of SyncDispatch, and what they mean for this module.          *)

Forget(w) ==
    /\ answers' = [answers EXCEPT ![w] = <<>>]
    /\ UNCHANGED <<amounts, clock>>

Call(s) == RequestStep(s) /\ UNCHANGED costVars

Receive(s) == \E w \in Workers : Take(w, s) /\ UNCHANGED costVars

Return(s) == Redeliver(s) /\ UNCHANGED costVars

Work(w) ==
    \/ Claim(w) \/ AskFacet(w) \/ CollectionRaises(w) \/ GiveUp(w)
    \/ Persist(w)
    \/ (FailRead(w) \/ FailWrite(w) \/ Ack(w) \/ TaskRaises(w))
         /\ UNCHANGED costVars

Lose(w) == (WorkerCrash(w) \/ ChildLost(w)) /\ Forget(w)

Next ==
    \/ \E c \in Connections : VerifyConnection(c) /\ UNCHANGED costVars
    \/ Tick
    \/ \E s \in Syncs : (CheckRequest(s) \/ ApiCrash(s)) /\ UNCHANGED costVars
    \/ \E s \in Syncs : Call(s) \/ Receive(s) \/ Return(s)
    \/ \E w \in Workers : Work(w) \/ Lose(w)

Spec == Init /\ [][Next]_vars

(* A call that was begun returns, queued ids are taken, and what nobody    *)
(* acknowledged is handed back.                                            *)
Fairness ==
    /\ \A s \in Syncs : WF_vars(Call(s)) /\ WF_vars(Receive(s)) /\ WF_vars(Return(s))
    /\ \A w \in Workers : WF_vars(Work(w))

FairSpec == Spec /\ Fairness
-----------------------------------------------------------------------------
(* Properties, besides those of SyncDispatch.  The faults each one         *)
(* tolerates are those of its run.                                         *)

(* An amount is never replaced by one of an older bill: a delivery whose   *)
(* row is no longer QUEUED does nothing, so that no two collections of a   *)
(* connection overlap.  (If the API failed a row that a worker has, they   *)
(* can: "lost_reply" is not among the faults of the run.)                  *)
AmountsNeverOlder ==
    [][\A c \in Connections, k \in Charges :
          amounts'[c][k].of >= amounts[c][k].of]_vars

(* Every amount was written by a synchronization of its connection that    *)
(* says so: what failed left nothing behind.                               *)
AmountsHaveSource ==
    \A c \in Connections, k \in Charges :
        amounts[c][k] # NoAmount =>
            /\ ConnectionOf[amounts[c][k].by] = c
            /\ sync[amounts[c][k].by].status \in {"COMPLETED", "PARTIAL"}

(* A connection that has forecasts has costs to compare them with, of the  *)
(* same or of a later synchronization, however the facets failed.          *)
ForecastsNeedCosts ==
    \A c \in Connections, k \in Charges :
        /\ amounts[c][k] # NoAmount
        /\ \E i \in 1..Len(ForecastFacets) : k.facet = ForecastFacets[i]
        => \E l \in Charges, i \in 1..Len(CostFacets) :
               l.facet = CostFacets[i] /\ amounts[c][l] # NoAmount
=============================================================================
