------------------------- MODULE RecommendationSyncs -------------------------
(***************************************************************************)
(* Imports of what AWS recommends for a connection.  The request and the   *)
(* broker are SyncDispatch's; here is sync_aws_recommendations             *)
(* (recommendations/tasks.py): it takes a row that is QUEUED, or RUNNING   *)
(* because a worker died, asks Cost Optimization Hub and the two calls of  *)
(* Compute Optimizer page by page, and merges what they list into the rows *)
(* of Recommendations and ends the import in one transaction.              *)
(***************************************************************************)
EXTENDS SyncDispatch

CONSTANTS
    Keys,        \* (inventory resource, canonical action) pairs
    NameOf,      \* type, last part of the identifier and action of a key
    RegionOf,    \* the Region of a key's resource
    RegionAsked, \* the Region an import was requested for
    Items        \* what AWS may list: see Item

VARIABLES
    active,   \* keys whose resource is active in the inventory
    recs,     \* the rows of recommendations
    work,     \* what each worker has been told
    seen,     \* the active resources as a merge has read them
    loaded    \* the rows as a merge has read them

importVars == <<active, recs, work, seen, loaded>>
vars == <<dispatchVars, importVars>>
-----------------------------------------------------------------------------
HubCalls == {"hub"}
ComputeCalls == {"ec2", "ebs"}
Calls == HubCalls \cup ComputeCalls

CallsOf(source) == IF source = "HUB" THEN HubCalls ELSE ComputeCalls
SourceOf(call) == IF call = "hub" THEN "HUB" ELSE "COMPUTE_OPTIMIZER"

NextCall == [hub |-> "ec2", ec2 |-> "ebs"]

(* An entry of a list: about an action and a type that are supported, or   *)
(* None; the Region may be missing for the Hub.  The saving is missing, or *)
(* not above zero, or is one; of the cost (or the percentage that gives    *)
(* it) and the currency each may be missing.                               *)
Item == [call: Calls, name: {NameOf[k] : k \in Keys} \cup {None},
         region: {RegionOf[k] : k \in Keys} \cup {"global"},
         saving: {"none", "zero", "positive"}, given: SUBSET {"cost", "currency"}]

ASSUME ImportAssumption ==
    /\ Keys = DOMAIN NameOf /\ Keys = DOMAIN RegionOf
    /\ Syncs = DOMAIN RegionAsked
    /\ Items \subseteq Item
    /\ \A i \in Items : i.call # "hub" => i.region # "global"

ImportErrors == {"NONE", "DISPATCH_FAILED", "CONNECTION_NOT_VERIFIED",
                 "AWS_RECOMMENDATION_SOURCES_UNAVAILABLE", "AWS_ROLE_UNAVAILABLE",
                 "RECOMMENDATION_SYNC_FAILED", "PARTIAL_AWS_ACCESS"}

ASSUME ImportErrorsAssumption == ImportErrors \subseteq Errors

ImportPCs == {"idle", "claim", "start", "hub", "ec2", "ebs", "unavailable",
              "resources", "load", "merge", "fail", "ack"}

Importing(w) == pc[w] \in {"load", "merge"}

(* Normalisation drops what is not supported, and of Compute Optimizer     *)
(* what has no saving.                                                     *)
Normalized(items) ==
    {i \in items : /\ i.name # None
                   /\ i.call # "hub" => i.saving = "positive"}

Amount(i) == IF i.saving = "none" THEN i.given ELSE i.given \cup {"savings"}

Finding(i, k) == [source |-> SourceOf(i.call), key |-> k, amount |-> Amount(i)]

Offers == {Finding(p[1], p[2]) :
              p \in {q \in Normalized(Items) \X Keys : q[1].name = NameOf[q[2]]}}

(* The transactions of Recommendations: a worker is a session.             *)
Tables == INSTANCE Recommendations WITH
    RuleKeys <- {}, Sessions <- Workers, Offers <- Offers,
    Regions  <- {RegionOf[k] : k \in Keys} \cup {RegionAsked[s] : s \in Syncs},
    evidence <- [k \in Keys |-> IF k \in active THEN "used" ELSE "gone"],
    told     <- [k \in Keys |-> "nothing"],
    byImport <- {k \in Keys : recs[k].status # "ABSENT"},
    pc       <- [w \in Workers |-> IF pc[w] = "load" THEN "importing"
                                   ELSE IF pc[w] = "merge" THEN "imported" ELSE "idle"],
    region   <- [w \in Workers |-> IF Importing(w) THEN RegionAsked[task[w]] ELSE "none"],
    review   <- [w \in Workers |-> [key |-> "none", to |-> "none"]],
    seen     <- [w \in Workers |-> [k \in Keys |->
                    IF Importing(w) /\ k \in seen[w] THEN "used" ELSE "gone"]]

(* The list of the call that is being read, the entries that were kept,    *)
(* and the calls that failed.                                              *)
NoWork == [page |-> {}, items |-> {}, failed |-> {}]

Init ==
    /\ DispatchInit
    /\ active = {}
    /\ recs = Tables!Nothing
    /\ work = [w \in Workers |-> NoWork]
    /\ seen = [w \in Workers |-> {}]
    /\ loaded = [w \in Workers |-> Tables!Nothing]

(* A scan has found a resource, or not found it any more.                  *)
InventoryChanges(k) ==
    /\ active' = IF k \in active THEN active \ {k} ELSE active \cup {k}
    /\ UNCHANGED <<dispatchVars, recs, work, seen, loaded>>

-----------------------------------------------------------------------------
(* The task, up to the merge.                                              *)

(* Mutant: what a worker died with is not taken up again.                  *)
OnlyQueued(s) == sync[s].status = "QUEUED"
(* Mutant: what has ended is imported again.                               *)
AnyStatus(s) == TRUE

Acceptable(s) == IsActive(s)

Record(w, e) == code' = [code EXCEPT ![w] = e]

(* The row and the connection are read, and not locked.                    *)
Claim(w) ==
    LET s == task[w]
    IN  /\ pc[w] = "claim"
        /\ mem' = [mem EXCEPT ![w] = sync[s]]
        /\ \/ /\ ~Acceptable(s)
              /\ Goto(w, "ack")
              /\ code' = code
           \/ /\ Acceptable(s)
              /\ connection[ConnectionOf[s]] # "VERIFIED"
              /\ Record(w, "CONNECTION_NOT_VERIFIED")
              /\ Goto(w, "fail")
           \/ /\ Acceptable(s)
              /\ connection[ConnectionOf[s]] = "VERIFIED"
              /\ Goto(w, "start")
              /\ code' = code
        /\ UNCHANGED <<rowVars, request, brokerVars, task, faultVars, importVars>>

Running == [status |-> "RUNNING", error |-> NoError]

Start(w) ==
    /\ pc[w] = "start"
    /\ sync' = [sync EXCEPT ![task[w]] = Flush(@, mem[w], [mem[w] EXCEPT !.status = "RUNNING"])]
    /\ mem' = [mem EXCEPT ![w].status = "RUNNING"]
    /\ Goto(w, "hub")
    /\ UNCHANGED <<connection, request, brokerVars, task, code, faultVars, importVars>>

(* What a call lists: the Hub all of the account, Compute Optimizer the    *)
(* Region.                                                                 *)
Listed(w) ==
    {i \in Items : /\ i.call = pc[w]
                   /\ i.call # "hub" => i.region = RegionAsked[task[w]]}

ReadPage(w) ==
    /\ pc[w] \in Calls
    /\ \E more \in SUBSET (Listed(w) \ work[w].page) \ {{}} :
          work' = [work EXCEPT ![w].page = @ \cup more]
    /\ UNCHANGED <<dispatchVars, active, recs, seen, loaded>>

(* Mutant: one of its calls is enough for a source to have answered.       *)
CompletedIfAny(failed) ==
    {s \in {"HUB", "COMPUTE_OPTIMIZER"} : ~(CallsOf(s) \subseteq failed)}

(* The sources whose silence counts: every call got its last page.         *)
Completed(failed) ==
    {s \in {"HUB", "COMPUTE_OPTIMIZER"} : CallsOf(s) \cap failed = {}}

(* If both calls of Compute Optimizer failed, what they listed is lost.    *)
Kept(items, failed) ==
    IF ComputeCalls \subseteq failed THEN {i \in items : i.call = "hub"} ELSE items

(* What follows a call that left these entries and these failures.         *)
After(w, items, failed) ==
    LET all == Kept(items, failed)
        step == IF pc[w] # "ebs" THEN NextCall[pc[w]]
                ELSE IF Completed(failed) = {} /\ all = {} THEN "unavailable"
                ELSE "resources"
    IN  /\ Goto(w, step)
        /\ work' = [work EXCEPT ![w] = [page |-> {}, items |-> all, failed |-> failed]]
        /\ IF step = "unavailable"
           THEN Record(w, "AWS_RECOMMENDATION_SOURCES_UNAVAILABLE")
           ELSE code' = code
        /\ UNCHANGED <<rowVars, request, brokerVars, task, mem, faultVars,
                       active, recs, seen, loaded>>

(* The last page.                                                          *)
EndCall(w) ==
    /\ pc[w] \in Calls
    /\ After(w, work[w].items \cup Normalized(work[w].page), work[w].failed)

(* A page cannot be read, or an entry not be normalised: then Compute      *)
(* Optimizer's entries before it are kept.                                 *)
CallFails(w) ==
    /\ pc[w] \in Calls
    /\ \E before \in SUBSET Normalized(work[w].page) :
          /\ pc[w] = "hub" => before = {}
          /\ After(w, work[w].items \cup before, work[w].failed \cup {pc[w]})

-----------------------------------------------------------------------------
(* The merge, and how an import ends.                                      *)

(* What is active under the name: in the entry's Region, if that is one,   *)
(* or else anywhere, if that is one.                                       *)
Matches(i, k, resources) ==
    LET named == {c \in resources : NameOf[c] = i.name}
        regional == {c \in named : RegionOf[c] = i.region}
    IN  IF Cardinality(regional) = 1 THEN k \in regional
        ELSE named = {k}

Findings(w) ==
    {Finding(p[1], p[2]) :
        p \in {q \in work[w].items \X seen[w] : Matches(q[1], q[2], seen[w])}}

(* Of several for one key from one source the last in the list counts.     *)
Counted(findings) ==
    {chosen \in SUBSET findings :
        \A f \in findings :
            \E g \in chosen : \A h \in chosen :
                h.source = f.source /\ h.key = f.key <=> h = g}

ReadResources(w) ==
    /\ pc[w] = "resources"
    /\ seen' = [seen EXCEPT ![w] = active]
    /\ Goto(w, "load")
    /\ UNCHANGED <<rowVars, request, brokerVars, task, mem, code, faultVars,
                   active, recs, work, loaded>>

LoadRows(w) ==
    /\ pc[w] = "load"
    /\ Goto(w, "merge")
    /\ loaded' = [loaded EXCEPT ![w] = recs]
    /\ UNCHANGED <<rowVars, request, brokerVars, task, mem, code, faultVars,
                   active, recs, work, seen>>

Forget(w) ==
    /\ work' = [work EXCEPT ![w] = NoWork]
    /\ seen' = [seen EXCEPT ![w] = {}]
    /\ loaded' = [loaded EXCEPT ![w] = Tables!Nothing]
    /\ active' = active

Outcome(w) ==
    IF work[w].failed = {} THEN [status |-> "COMPLETED", error |-> NoError]
    ELSE [status |-> "PARTIAL", error |-> "PARTIAL_AWS_ACCESS"]

MergedRow(w, k, findings) ==
    Tables!Merged(loaded[w][k], Completed(work[w].failed), {f \in findings : f.key = k})

Merge(w) ==
    /\ pc[w] = "merge"
    /\ Goto(w, "ack")
    /\ \E findings \in Counted(Findings(w)) :
          LET new == [k \in Keys |-> MergedRow(w, k, findings)]
          IN  /\ Tables!InsertsAreNew(w, new)
              /\ recs' = [k \in Keys |-> Tables!Flush(recs[k], loaded[w][k], new[k])]
    /\ sync' = [sync EXCEPT ![task[w]] = Flush(@, mem[w], Outcome(w))]
    /\ Forget(w)
    /\ UNCHANGED <<connection, request, brokerVars, task, mem, code, faultVars>>

(* The role cannot be assumed, or anything in the try block raises, an     *)
(* IntegrityError for one.  The rollback expires the row, so that what     *)
(* _fail sets is written whatever the row has become.                      *)
ImportRaises(w) ==
    /\ Goto(w, "fail")
    /\ \/ pc[w] = "hub" /\ work[w] = NoWork /\ Record(w, "AWS_ROLE_UNAVAILABLE")
       \/ /\ pc[w] \in Calls \cup {"unavailable", "resources", "load", "merge"}
          /\ Record(w, "RECOMMENDATION_SYNC_FAILED")
    /\ mem' = [mem EXCEPT ![w] = NoRow]
    /\ Forget(w)
    /\ UNCHANGED <<rowVars, request, brokerVars, task, faultVars, recs>>

(* _fail, in the session of the task.                                      *)
Fail(w) ==
    /\ pc[w] \in {"fail", "unavailable"}
    /\ sync' = [sync EXCEPT ![task[w]] = Flush(@, mem[w], Failed(code[w]))]
    /\ Forget(w)
    /\ Goto(w, "ack")
    /\ UNCHANGED <<connection, request, brokerVars, task, mem, code, faultVars, recs>>

(* The database fails where no handler is.                                 *)
Raises(w) ==
    /\ Fault("database")
    /\ pc[w] \in {"claim", "start", "fail"}
    /\ lost' = lost \cup {task[w]}
    /\ Goto(w, "ack")
    /\ UNCHANGED <<rowVars, request, brokerVars, task, mem, code, importVars>>

(* A worker dies, and its message comes back: nothing is lost.             *)
Crash(w) ==
    /\ Fault("crash")
    /\ pc[w] # "idle"
    /\ GoIdle(w)
    /\ Forget(w)
    /\ UNCHANGED <<rowVars, request, brokerVars, lost, recs>>

-----------------------------------------------------------------------------
Call(s) == RequestStep(s) /\ UNCHANGED importVars

Receive(s) == \E w \in Workers : Take(w, s) /\ UNCHANGED importVars

Return(s) == Redeliver(s) /\ UNCHANGED importVars

WorkStep(w) ==
    \/ Claim(w) \/ Start(w) \/ EndCall(w) \/ CallFails(w) \/ ReadResources(w)
    \/ LoadRows(w) \/ Merge(w) \/ ImportRaises(w) \/ Fail(w) \/ Raises(w)
    \/ Ack(w) /\ UNCHANGED importVars

Lose(w) == ChildLost(w) /\ Forget(w) /\ UNCHANGED recs

Next ==
    \/ \E c \in Connections : VerifyConnection(c) /\ UNCHANGED importVars
    \/ \E k \in Keys : InventoryChanges(k)
    \/ \E s \in Syncs : (CheckRequest(s) \/ ApiCrash(s)) /\ UNCHANGED importVars
    \/ \E s \in Syncs : Call(s) \/ Receive(s) \/ Return(s)
    \/ \E w \in Workers : WorkStep(w) \/ ReadPage(w) \/ Crash(w) \/ Lose(w)

Spec == Init /\ [][Next]_vars

(* As for the other synchronizations; lists end, however many pages.       *)
(* Each step of a worker changes its pc.                                   *)
Fairness ==
    /\ \A s \in Syncs : WF_vars(Call(s)) /\ WF_vars(Receive(s)) /\ WF_vars(Return(s))
    /\ \A w \in Workers : WF_pc(WorkStep(w))

FairSpec == Spec /\ Fairness
-----------------------------------------------------------------------------
(* Properties.                                                             *)

(* From some moment on, again and again, no import is queued or running,   *)
(* but those whose pool child, request or database failed outside the try  *)
(* block.  There is no exception for a worker that dies: its import is     *)
(* taken up again, from whatever step it had reached.                      *)
ImportsEnd == []<>(\A s \in Syncs : IsActive(s) => s \in lost)

(* Every import, whatever pages and failures it met, is one import of      *)
(* Recommendations or none, and no two of a connection overlap although    *)
(* the task locks nothing: what is proved there of transactions that do    *)
(* not overlap applies.  (This is Tables!Spec, stutters first.)            *)
ImportsAreTransactions == Tables!Init /\ [][UNCHANGED Tables!vars \/ Tables!Next]_vars

(* "Source observations ... disappear only after a successful refresh      *)
(* proves that the source no longer reports them": none of the calls of    *)
(* the source failed, and none listed the resource, unless the inventory   *)
(* had lost it.                                                            *)
DropsAreProven ==
    [][\A k \in Keys : \A s \in recs[k].sources \ recs'[k].sources :
          \E w \in Workers :
             /\ pc[w] = "merge" /\ pc'[w] = "ack"
             /\ work[w].failed \cap CallsOf(s) = {}
             /\ \/ k \notin seen[w]
                \/ \A i \in work[w].items :
                      ~(SourceOf(i.call) = s /\ i.name = NameOf[k] /\ i.region = RegionOf[k])]_vars
=============================================================================
