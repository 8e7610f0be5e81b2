---------------------------- MODULE Recommendations ----------------------------
(***************************************************************************)
(* The recommendations of one connection.  Three kinds of transaction      *)
(* write them: an evaluation of the rules over the inventory, an import of *)
(* what Cost Optimization Hub and Compute Optimizer report, and a          *)
(* reviewer's change of status.  Each reads, works on what it read (an     *)
(* evaluation calls the price list in between) and writes the attributes   *)
(* it changed; no row is locked and no version is compared.                *)
(***************************************************************************)
EXTENDS FiniteSets

CONSTANTS
    Keys,        \* (inventory resource, canonical action) pairs
    RuleKeys,    \* those that a rule of the rule set is about
    Regions,
    RegionOf,    \* the Region of a key's resource
    Offers,      \* what AWS may report: [source, key, amount] records
    Sessions     \* transactions that may be open at the same time

Sources == {"CLOUDWISE", "HUB", "COMPUTE_OPTIMIZER"}
External == Sources \ {"CLOUDWISE"}

(* What a price may consist of: current_monthly_cost,                      *)
(* estimated_monthly_savings and currency, each of which may be None.      *)
Parts == {"cost", "savings", "currency"}

ASSUME RecommendationAssumption ==
    /\ RuleKeys \subseteq Keys
    /\ RegionOf \in [Keys -> Regions]
    /\ Offers \subseteq [source: External, key: Keys, amount: SUBSET Parts]

VARIABLES
    evidence,  \* inventory: the resource is gone, in use, or matches its rule
    recs,      \* the rows of recommendations
    told,      \* history: the last status that the activities of a row tell
    byImport,  \* history: the rows whose status an import was the last to set
    pc,        \* what each session is doing
    region,    \* the Region an import is for
    review,    \* the key and status a reviewer asked for
    seen,      \* the evidence a session has read
    loaded     \* the rows a session has read

sessionVars == <<pc, region, review, seen, loaded>>
vars == <<evidence, recs, told, byImport, sessionVars>>
-----------------------------------------------------------------------------
Statuses == {"OPEN", "ACKNOWLEDGED", "DISMISSED", "RESOLVED"}

StatusTransitions == [
    OPEN         |-> {"ACKNOWLEDGED", "DISMISSED", "RESOLVED"},
    ACKNOWLEDGED |-> {"OPEN", "DISMISSED", "RESOLVED"},
    DISMISSED    |-> {"OPEN", "RESOLVED"},
    RESOLVED     |-> {"OPEN"}]

(* resolved says whether resolved_at is set; origin is pricing_source (and *)
(* pricing_retrieved_at, set with it); amount is what is not None.         *)
Recommendation ==
    [status: Statuses \cup {"ABSENT"}, resolved: {"unset", "set"},
     sources: SUBSET Sources, pricing: {"AVAILABLE", "STALE", "UNAVAILABLE"},
     origin: External \cup {"none", "list"}, amount: SUBSET Parts]

Absent == [status |-> "ABSENT", resolved |-> "unset", sources |-> {},
           pricing |-> "UNAVAILABLE", origin |-> "none", amount |-> {}]

Exists(rec) == rec.status # "ABSENT"

PCs == {"idle", "evaluating", "evaluated", "importing", "imported", "reviewing"}
Evidence == {"gone", "used", "idle"}
NoReview == [key |-> "none", to |-> "none"]

Nothing == [k \in Keys |-> Absent]
NoEvidence == [k \in Keys |-> "gone"]

TypeOK ==
    /\ evidence \in [Keys -> Evidence]
    /\ recs \in [Keys -> Recommendation]
    /\ \A k \in Keys \ RuleKeys : recs[k].sources \subseteq External
    /\ told \in [Keys -> Statuses \cup {"nothing"}]
    /\ byImport \subseteq Keys
    /\ pc \in [Sessions -> PCs]
    /\ region \in [Sessions -> Regions \cup {"none"}]
    /\ review \in [Sessions -> [key: Keys, to: Statuses] \cup {NoReview}]
    /\ seen \in [Sessions -> [Keys -> Evidence]]
    /\ loaded \in [Sessions -> [Keys -> Recommendation]]

Init ==
    /\ evidence = NoEvidence
    /\ recs = Nothing
    /\ told = [k \in Keys |-> "nothing"]
    /\ byImport = {}
    /\ pc = [x \in Sessions |-> "idle"]
    /\ region = [x \in Sessions |-> "none"]
    /\ review = [x \in Sessions |-> NoReview]
    /\ seen = [x \in Sessions |-> NoEvidence]
    /\ loaded = [x \in Sessions |-> Nothing]

(* A scan finds a resource, does not find it, or finds it changed.  Only   *)
(* what a rule is about can match the rule.                                *)
InventoryChanges(k) ==
    /\ \E e \in Evidence \ {evidence[k]} :
          /\ e = "idle" => k \in RuleKeys
          /\ evidence' = [evidence EXCEPT ![k] = e]
    /\ UNCHANGED <<recs, told, byImport, sessionVars>>

-----------------------------------------------------------------------------
(* Pricing and status.                                                     *)

(* A saving and its currency are available; a cost and a saving may be     *)
(* kept as stale.                                                          *)
ShowsSaving(amount) == {"savings", "currency"} \subseteq amount
Keepable(amount) == {"cost", "savings"} \subseteq amount

WithPrice(rec, pricing, origin, amount) ==
    [rec EXCEPT !.pricing = pricing, !.origin = origin, !.amount = amount]

Unpriced(rec) == WithPrice(rec, "UNAVAILABLE", "none", {})

Resolve(rec) == [rec EXCEPT !.status = "RESOLVED", !.resolved = "set"]
Reopen(rec)  == [rec EXCEPT !.status = "OPEN", !.resolved = "unset"]

NewRecommendation(source) ==
    [Absent EXCEPT !.status = "OPEN", !.sources = {source}]

(* Mutant: an estimate is kept once, not when it is stale already.         *)
PriceKeptOnce(rec, quote) ==
    IF quote = "current" THEN WithPrice(rec, "AVAILABLE", "list", Parts)
    ELSE IF quote = "old" THEN WithPrice(rec, "STALE", "list", Parts)
    ELSE IF Keepable(rec.amount) /\ rec.pricing = "AVAILABLE"
         THEN [rec EXCEPT !.pricing = "STALE"]
         ELSE Unpriced(rec)

(* The quote is current, older than the threshold, or refused; then an     *)
(* estimate of cost and saving is kept, whether or not it has a currency   *)
(* and was available, and anything less is dropped.                        *)
ApplyPricing(rec, quote) ==
    IF quote = "current" THEN WithPrice(rec, "AVAILABLE", "list", Parts)
    ELSE IF quote = "old" THEN WithPrice(rec, "STALE", "list", Parts)
    ELSE IF Keepable(rec.amount) /\ rec.origin # "none"
         THEN [rec EXCEPT !.pricing = "STALE"]
         ELSE Unpriced(rec)

-----------------------------------------------------------------------------
(* Evaluation of the rules.                                                *)

WithSource(rec, source) == [rec EXCEPT !.sources = @ \cup {source}]

(* Without sources a recommendation is resolved, if it is not already.     *)
WithoutSources(rec, dropped) ==
    LET left == [rec EXCEPT !.sources = @ \ dropped]
    IN  IF left.sources = {} /\ left.status # "RESOLVED" THEN Resolve(left) ELSE left

(* Mutant: what was acknowledged or dismissed is reopened too.             *)
EligibleReopeningAll(rec, quote) ==
    Reopen(ApplyPricing(WithSource(rec, "CLOUDWISE"), quote))

(* What is eligible is created, or updated and reopened if it was resolved.*)
EvaluatedEligible(rec, quote) ==
    IF ~Exists(rec) THEN ApplyPricing(NewRecommendation("CLOUDWISE"), quote)
    ELSE LET priced == ApplyPricing(WithSource(rec, "CLOUDWISE"), quote)
         IN  IF rec.status = "RESOLVED" THEN Reopen(priced) ELSE priced

(* What is not eligible loses the source CLOUDWISE, if it had it.          *)
Evaluated(rec, eligible, quote) ==
    IF eligible THEN EvaluatedEligible(rec, quote)
    ELSE IF "CLOUDWISE" \in rec.sources THEN WithoutSources(rec, {"CLOUDWISE"})
    ELSE rec

-----------------------------------------------------------------------------
(* Import of external recommendations.                                     *)

(* Mutant: a saving is enough.                                             *)
AttachWithoutCurrency(rec, f) ==
    LET known == WithSource(rec, f.source)
    IN  IF f.source = "HUB" \/ rec.origin # "HUB"
        THEN WithPrice(known, IF "savings" \in f.amount THEN "AVAILABLE" ELSE "UNAVAILABLE",
                       f.source, f.amount)
        ELSE known

(* The Hub's estimate goes before Compute Optimizer's, and either before   *)
(* the list price.  What the finding has is stored, available or not.      *)
AttachSource(rec, f) ==
    LET known == WithSource(rec, f.source)
    IN  IF f.source = "HUB" \/ rec.origin # "HUB"
        THEN WithPrice(known, IF ShowsSaving(f.amount) THEN "AVAILABLE" ELSE "UNAVAILABLE",
                       f.source, f.amount)
        ELSE known

Found(rec, f) ==
    AttachSource(IF Exists(rec) THEN rec ELSE NewRecommendation(f.source), f)

FoundBy(rec, source, findings) ==
    IF \E f \in findings : f.source = source
    THEN Found(rec, CHOOSE f \in findings : f.source = source)
    ELSE rec

(* The findings for a key: the Hub's first.                                *)
Observed(rec, findings) ==
    FoundBy(FoundBy(rec, "HUB", findings), "COMPUTE_OPTIMIZER", findings)

(* Sources that answered in full and do not report the key any more.       *)
Dropped(rec, completed, findings) ==
    {s \in completed \cap rec.sources : \A f \in findings : f.source # s}

(* Mutant: only what is open is resolved.                                  *)
WithoutResolvingReviewed(rec, dropped) ==
    LET left == [rec EXCEPT !.sources = @ \ dropped]
        settled == IF left.sources = {} /\ rec.status = "OPEN"
                   THEN Resolve(left) ELSE left
    IN  IF rec.origin \in dropped THEN Unpriced(settled) ELSE settled

(* They go, and the price with the source it came from.  What a reviewer   *)
(* reopened without sources is resolved too.                               *)
WithoutDropped(rec, dropped) ==
    IF rec.origin \in dropped THEN Unpriced(WithoutSources(rec, dropped))
    ELSE WithoutSources(rec, dropped)

Merged(rec, completed, findings) ==
    LET observed == Observed(rec, findings)
    IN  IF Exists(observed)
        THEN WithoutDropped(observed, Dropped(observed, completed, findings))
        ELSE observed

-----------------------------------------------------------------------------
(* Transactions.                                                           *)

(* A flush inserts what was absent, and writes the attributes that differ  *)
(* from what was loaded; the parts of an amount are attributes of their    *)
(* own, of which the model knows whether they are None.                    *)
Flush(row, old, new) ==
    LET Written(now, before, set) == IF set # before THEN set ELSE now
    IN  IF new = old THEN row
        ELSE IF ~Exists(old) THEN new
        ELSE [status   |-> Written(row.status, old.status, new.status),
              resolved |-> Written(row.resolved, old.resolved, new.resolved),
              sources  |-> Written(row.sources, old.sources, new.sources),
              pricing  |-> Written(row.pricing, old.pricing, new.pricing),
              origin   |-> Written(row.origin, old.origin, new.origin),
              amount   |-> (row.amount \ (old.amount \ new.amount)) \cup (new.amount \ old.amount)]

(* The unique index on resource and action: nothing this session inserts   *)
(* has been inserted since it read.                                        *)
InsertsAreNew(x, new) ==
    \A k \in Keys : Exists(new[k]) /\ ~Exists(loaded[x][k]) => ~Exists(recs[k])

GoIdle(x) ==
    /\ pc' = [pc EXCEPT ![x] = "idle"]
    /\ region' = [region EXCEPT ![x] = "none"]
    /\ review' = [review EXCEPT ![x] = NoReview]
    /\ seen' = [seen EXCEPT ![x] = NoEvidence]
    /\ loaded' = [loaded EXCEPT ![x] = Nothing]

(* The rows whose status was last set by an import, once session x has     *)
(* committed.                                                              *)
SetByImport(x) ==
    {k \in Keys : IF recs'[k].status # recs[k].status
                  THEN pc[x] = "imported" ELSE k \in byImport}

(* The commit of what session x has made of the rows it read.              *)
Commit(x, new) ==
    /\ InsertsAreNew(x, new)
    /\ recs' = [k \in Keys |-> Flush(recs[k], loaded[x][k], new[k])]
    /\ byImport' = SetByImport(x)
    /\ GoIdle(x)
    /\ UNCHANGED evidence

(* Something raises, an IntegrityError for one, or the process dies:       *)
(* nothing is left of the transaction.                                     *)
Abort(x) ==
    /\ pc[x] # "idle"
    /\ GoIdle(x)
    /\ UNCHANGED <<evidence, recs, told, byImport>>

ReadEvidence(x, doing) ==
    /\ pc[x] = "idle"
    /\ pc' = [pc EXCEPT ![x] = doing]
    /\ seen' = [seen EXCEPT ![x] = evidence]
    /\ UNCHANGED <<evidence, recs, told, byImport, review, loaded>>

StartEvaluation(x) ==
    /\ ReadEvidence(x, "evaluating")
    /\ UNCHANGED region

(* A connection has one import at a time.                                  *)
StartImport(x) ==
    /\ \A y \in Sessions : pc[y] \notin {"importing", "imported"}
    /\ ReadEvidence(x, "importing")
    /\ \E r \in Regions : region' = [region EXCEPT ![x] = r]

(* The resources were read first; now the recommendations are.             *)
Load(x) ==
    /\ \/ pc[x] = "evaluating" /\ pc' = [pc EXCEPT ![x] = "evaluated"]
       \/ pc[x] = "importing"  /\ pc' = [pc EXCEPT ![x] = "imported"]
    /\ loaded' = [loaded EXCEPT ![x] = recs]
    /\ UNCHANGED <<evidence, recs, told, byImport, region, review, seen>>

(* Mutant: the rules ignore the type of the resource.                      *)
EligibleWhateverType(x, k) == seen[x][k] # "gone"

(* What is eligible is what the rule of the resource's type says of the    *)
(* evidence that was read; a rule that misses evidence says no.            *)
Eligible(x, k) == k \in RuleKeys /\ seen[x][k] = "idle"

(* Mutant: a recommendation that is found again has no activity.           *)
EvaluationTellsNew(old, new) == Exists(new) /\ ~Exists(old)

(* An activity tells that an evaluation created, reopened or resolved.     *)
EvaluationTells(old, new) ==
    Exists(new) /\ (~Exists(old) \/ new.status # old.status)

FinishEvaluation(x) ==
    /\ pc[x] = "evaluated"
    /\ \E quotes \in [RuleKeys -> {"current", "old", "refused"}] :
          LET new == [k \in Keys |->
                  Evaluated(loaded[x][k], Eligible(x, k),
                            IF k \in RuleKeys THEN quotes[k] ELSE "refused")]
          IN  /\ Commit(x, new)
              /\ told' = [k \in Keys |->
                     IF EvaluationTells(loaded[x][k], new[k]) THEN new[k].status
                     ELSE told[k]]

(* What the two sources may answer to an import of Region r: all of the    *)
(* account for the Hub, the Region for Compute Optimizer; either may fail, *)
(* and of Compute Optimizer one of its two calls.  Findings of resources   *)
(* that are not in the inventory are left out.                             *)
Answers(r, inventory) ==
    {a \in [completed: SUBSET External, findings: SUBSET Offers] :
        /\ \A f \in a.findings :
              /\ inventory[f.key] # "gone"
              /\ f.source = "HUB" => "HUB" \in a.completed
              /\ f.source = "COMPUTE_OPTIMIZER" => RegionOf[f.key] = r
        /\ \A f, g \in a.findings : f.source = g.source /\ f.key = g.key => f = g}

FinishImport(x) ==
    /\ pc[x] = "imported"
    /\ \E a \in Answers(region[x], seen[x]) :
          Commit(x, [k \in Keys |->
              Merged(loaded[x][k], a.completed, {f \in a.findings : f.key = k})])
    /\ UNCHANGED told

(* update_status: what is not an allowed transition is refused.            *)
StartReview(x) ==
    /\ pc[x] = "idle"
    /\ \E k \in Keys :
          /\ Exists(recs[k])
          /\ \E to \in StatusTransitions[recs[k].status] :
                review' = [review EXCEPT ![x] = [key |-> k, to |-> to]]
    /\ loaded' = [loaded EXCEPT ![x] = recs]
    /\ pc' = [pc EXCEPT ![x] = "reviewing"]
    /\ UNCHANGED <<evidence, recs, told, byImport, region, seen>>

(* Mutant: resolved_at is forgotten when a recommendation is reopened.     *)
ReviewedKeepingResolved(rec, to) ==
    [rec EXCEPT !.status = to, !.resolved = IF to = "RESOLVED" THEN "set" ELSE @]

Reviewed(rec, to) ==
    [rec EXCEPT !.status = to,
                !.resolved = IF to = "RESOLVED" THEN "set" ELSE "unset"]

FinishReview(x) ==
    LET k  == review[x].key
        to == review[x].to
    IN  /\ pc[x] = "reviewing"
        /\ Commit(x, [loaded[x] EXCEPT ![k] = Reviewed(@, to)])
        /\ told' = [told EXCEPT ![k] = to]

Next ==
    \/ \E k \in Keys : InventoryChanges(k)
    \/ \E x \in Sessions :
          \/ StartEvaluation(x) \/ StartImport(x) \/ Load(x)
          \/ FinishEvaluation(x) \/ FinishImport(x)
          \/ StartReview(x) \/ FinishReview(x)
          \/ Abort(x)

Spec == Init /\ [][Next]_vars
-----------------------------------------------------------------------------
(* Properties of transactions that do not overlap, unless they say         *)
(* otherwise.                                                              *)

(* The step is session x's commit of a reviewer's change to k.             *)
ReviewStep(k) ==
    \E x \in Sessions : /\ pc[x] = "reviewing" /\ review[x].key = k
                        /\ pc'[x] = "idle"

(* What is shown as a price has a basis: available is what has a saving    *)
(* and its currency, an estimate can be unavailable but not both, a stale  *)
(* one has cost and saving, without a source of the price there is none,   *)
(* and an estimate of AWS is shown only while the source it came from      *)
(* still reports the opportunity.  Evaluations and imports overwrite each  *)
(* other's prices along six paths.  (A stale estimate may lack a currency: *)
(* service.py asks for cost and saving only.)                              *)
PriceHasBasis ==
    \A k \in Keys : Exists(recs[k]) =>
        LET rec == recs[k]
        IN  /\ rec.pricing = "AVAILABLE" => ShowsSaving(rec.amount)
            /\ rec.pricing = "UNAVAILABLE" => ~ShowsSaving(rec.amount)
            /\ rec.pricing = "STALE" => Keepable(rec.amount)
            /\ rec.origin = "none" => rec.pricing = "UNAVAILABLE" /\ rec.amount = {}
            /\ rec.origin = "list" => rec.amount = Parts
            /\ rec.origin \in External => rec.origin \in rec.sources

(* resolved_at is set exactly while a recommendation is resolved, whoever  *)
(* resolved and reopened it.                                               *)
ResolvedAtAgrees ==
    \A k \in Keys :
        recs[k].resolved = "set" <=> recs[k].status = "RESOLVED"

(* An evaluation that runs twice over the same evidence and quotes changes *)
(* nothing the second time, whatever imports and reviewers did before.     *)
EvaluationIdempotent ==
    \A k \in Keys, quote \in {"current", "old", "refused"} :
        \A eligible \in BOOLEAN :
            (eligible => k \in RuleKeys) =>
            LET once == Evaluated(recs[k], eligible, quote)
            IN  Evaluated(once, eligible, quote) = once

(* The activities tell the status of a recommendation, unless an import    *)
(* was the last to set it: then they miss its creation or its resolution.  *)
(* Also of transactions that overlap, whose statuses overwrite each other. *)
TrailMissesOnlyImports ==
    \A k \in Keys : Exists(recs[k]) =>
        /\ k \notin byImport => told[k] = recs[k].status
        /\ k \in byImport => \/ recs[k].status = "RESOLVED"
                             \/ recs[k].status = "OPEN" /\ told[k] = "nothing"

(* What a reviewer acknowledged or dismissed stays so until a reviewer     *)
(* changes it or no source is left.                                        *)
ReviewKept ==
    [][\A k \in Keys :
          /\ Exists(recs[k])
          /\ recs[k].status \in {"ACKNOWLEDGED", "DISMISSED"}
          /\ recs'[k].status # recs[k].status
          => ReviewStep(k) \/ recs'[k].sources = {}]_vars

(* A recommendation that loses its last source is resolved in the same     *)
(* transaction, and only a reviewer opens one that has none.               *)
UnsourcedIsResolved ==
    [][\A k \in Keys :
          /\ Exists(recs[k])
          /\ recs[k].sources # {} \/ recs[k].status = "RESOLVED"
          /\ recs'[k].sources = {}
          => recs'[k].status = "RESOLVED" \/ ReviewStep(k)]_vars

(* Compute Optimizer is asked about one Region: an import drops it as a    *)
(* source only of what that Region has.                                    *)
OtherRegionsKeepSources ==
    [][\A k \in Keys, x \in Sessions :
          /\ pc[x] = "imported" /\ region[x] # RegionOf[k]
          /\ Exists(recs[k]) /\ "COMPUTE_OPTIMIZER" \in recs[k].sources
          => "COMPUTE_OPTIMIZER" \in recs'[k].sources]_vars
=============================================================================
