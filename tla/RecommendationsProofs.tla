------------------------- MODULE RecommendationsProofs -------------------------
(***************************************************************************)
(* Proofs about Recommendations, for all keys, Regions, offers and         *)
(* sessions; where a theorem assumes []Apart, of the behaviours in which   *)
(* transactions do not overlap.  Then, from sums over finite sets, about   *)
(* Estimates, for all resources and finite catalogues.                     *)
(***************************************************************************)
EXTENDS Recommendations, Estimates, FiniteSetTheorems, TLAPS

Quotes == {"current", "old", "refused"}

(* What PriceHasBasis and ResolvedAtAgrees say of one recommendation.      *)
Basis(rec) ==
    Exists(rec) =>
        /\ rec.pricing = "AVAILABLE" => ShowsSaving(rec.amount)
        /\ rec.pricing = "UNAVAILABLE" => ~ShowsSaving(rec.amount)
        /\ rec.pricing = "STALE" => Keepable(rec.amount)
        /\ rec.origin = "none" => rec.pricing = "UNAVAILABLE" /\ rec.amount = {}
        /\ rec.origin = "list" => rec.amount = Parts
        /\ rec.origin \in External => rec.origin \in rec.sources

Dated(rec) == rec.resolved = "set" <=> rec.status = "RESOLVED"

(* What a transaction may make of one recommendation that it read.         *)
Changes(new, rec) ==
    /\ new \in Recommendation
    /\ Exists(new) \/ new = rec
    /\ Basis(rec) => Basis(new)
    /\ Dated(rec) => Dated(new)

(* It leaves a reviewer's status alone unless no source is left, and what  *)
(* loses the last one is resolved.                                         *)
Respects(new, rec) ==
    /\ rec.status \in {"ACKNOWLEDGED", "DISMISSED"} /\ new.status # rec.status
          => new.sources = {}
    /\ Exists(rec) /\ new.sources = {}
       /\ (rec.sources # {} \/ rec.status = "RESOLVED")
          => new.status = "RESOLVED"

-----------------------------------------------------------------------------
(* What the operators make of one recommendation.                          *)

LEMMA NewLemma ==
    ASSUME NEW source \in Sources
    PROVE  /\ NewRecommendation(source) \in Recommendation
           /\ Exists(NewRecommendation(source))
           /\ NewRecommendation(source).status = "OPEN"
           /\ NewRecommendation(source).sources = {source}
           /\ Basis(NewRecommendation(source))
           /\ Dated(NewRecommendation(source))
  BY DEF NewRecommendation, Absent, Exists, Recommendation, Statuses, Sources,
         External, Parts, ShowsSaving, Basis, Dated

Pricings == {"AVAILABLE", "STALE", "UNAVAILABLE"}
Origins == External \cup {"none", "list"}

(* new is rec with another price.                                          *)
Priced(new, rec, pricing, origin, amount) ==
    /\ new \in Recommendation
    /\ new.status = rec.status
    /\ new.resolved = rec.resolved
    /\ new.sources = rec.sources
    /\ new.pricing = pricing
    /\ new.origin = origin
    /\ new.amount = amount

(* WithPrice sets the price and nothing else.                              *)
LEMMA WithPriceLemma ==
    ASSUME NEW rec \in Recommendation, NEW pricing \in Pricings,
           NEW origin \in Origins, NEW amount \in SUBSET Parts
    PROVE  Priced(WithPrice(rec, pricing, origin, amount), rec, pricing, origin, amount)
  BY DEF WithPrice, Recommendation, Pricings, Origins, Priced

(* So does marking a price as stale.                                       *)
LEMMA StaleLemma ==
    ASSUME NEW rec \in Recommendation
    PROVE  Priced([rec EXCEPT !.pricing = "STALE"], rec, "STALE", rec.origin, rec.amount)
  BY DEF Recommendation, Priced

(* Recommendations with equal fields are equal.                            *)
LEMMA RecordsEqual ==
    ASSUME NEW r \in Recommendation, NEW s \in Recommendation,
           r.status = s.status, r.resolved = s.resolved, r.sources = s.sources,
           r.pricing = s.pricing, r.origin = s.origin, r.amount = s.amount
    PROVE  r = s
  BY DEF Recommendation

(* The names that the lemmas are cited for.                                *)
LEMMA Names ==
    /\ "AVAILABLE" \in Pricings /\ "STALE" \in Pricings /\ "UNAVAILABLE" \in Pricings
    /\ "none" \in Origins /\ "list" \in Origins
    /\ "none" \notin External /\ "list" \notin External
    /\ {} \in SUBSET Parts /\ Parts \in SUBSET Parts
    /\ ~ShowsSaving({}) /\ ShowsSaving(Parts) /\ Keepable(Parts)
    /\ External \subseteq Origins
  BY DEF Pricings, Origins, External, Sources, Parts, ShowsSaving, Keepable

(* The four prices that a quote can give.                                  *)
PricedBy(new, rec, quote) ==
    \/ quote = "current" /\ Priced(new, rec, "AVAILABLE", "list", Parts)
    \/ quote = "old" /\ Priced(new, rec, "STALE", "list", Parts)
    \/ /\ quote = "refused" /\ Keepable(rec.amount) /\ rec.origin # "none"
       /\ Priced(new, rec, "STALE", rec.origin, rec.amount)
    \/ /\ quote = "refused" /\ ~(Keepable(rec.amount) /\ rec.origin # "none")
       /\ Priced(new, rec, "UNAVAILABLE", "none", {})

(* ApplyPricing gives one of them.                                         *)
LEMMA PricingCases ==
    ASSUME NEW rec \in Recommendation, NEW quote \in Quotes
    PROVE  PricedBy(ApplyPricing(rec, quote), rec, quote)
  <1> DEFINE new == ApplyPricing(rec, quote)
  <1>1. CASE quote = "current"
    <2>1. new = WithPrice(rec, "AVAILABLE", "list", Parts)
      BY <1>1 DEF ApplyPricing
    <2> QED BY <1>1, <2>1, WithPriceLemma, Names DEF PricedBy
  <1>2. CASE quote = "old"
    <2>1. new = WithPrice(rec, "STALE", "list", Parts)
      BY <1>2 DEF ApplyPricing
    <2> QED BY <1>2, <2>1, WithPriceLemma, Names DEF PricedBy
  <1>3. CASE quote = "refused" /\ Keepable(rec.amount) /\ rec.origin # "none"
    <2>1. new = [rec EXCEPT !.pricing = "STALE"]
      BY <1>3 DEF ApplyPricing
    <2> QED BY <1>3, <2>1, StaleLemma DEF PricedBy
  <1>4. CASE quote = "refused" /\ ~(Keepable(rec.amount) /\ rec.origin # "none")
    <2>1. new = WithPrice(rec, "UNAVAILABLE", "none", {})
      BY <1>4 DEF ApplyPricing, Unpriced
    <2> QED BY <1>4, <2>1, WithPriceLemma, Names DEF PricedBy
  <1> QED BY <1>1, <1>2, <1>3, <1>4 DEF Quotes

(* Pricing leaves everything but the price alone, and gives it a basis.    *)
LEMMA PricingLemma ==
    ASSUME NEW rec \in Recommendation, NEW quote \in Quotes
    PROVE  LET new == ApplyPricing(rec, quote)
           IN  /\ new \in Recommendation
               /\ new.status = rec.status
               /\ new.resolved = rec.resolved
               /\ new.sources = rec.sources
               /\ Basis(rec) => Basis(new)
  <1> DEFINE new == ApplyPricing(rec, quote)
  <1>1. PricedBy(new, rec, quote)
    BY PricingCases
  <1> HIDE DEF new
  <1>2. /\ new \in Recommendation
        /\ new.status = rec.status
        /\ new.resolved = rec.resolved
        /\ new.sources = rec.sources
    BY <1>1 DEF PricedBy, Priced
  <1>3. Basis(rec) => Basis(new)
    BY <1>1, Names DEF PricedBy, Priced, Basis, Exists
  <1> QED BY <1>2, <1>3 DEF new

(* The other changes of one recommendation.                                *)

LEMMA ResolveLemma ==
    ASSUME NEW rec \in Recommendation
    PROVE  /\ Resolve(rec) \in Recommendation
           /\ Resolve(rec).status = "RESOLVED"
           /\ Resolve(rec).sources = rec.sources
           /\ Dated(Resolve(rec))
           /\ Exists(rec) /\ Basis(rec) => Basis(Resolve(rec))
  BY DEF Resolve, Recommendation, Statuses, Dated, Basis, Exists

(* So does reopening.                                                      *)
LEMMA ReopenLemma ==
    ASSUME NEW rec \in Recommendation
    PROVE  /\ Reopen(rec) \in Recommendation
           /\ Reopen(rec).status = "OPEN"
           /\ Reopen(rec).sources = rec.sources
           /\ Dated(Reopen(rec))
           /\ Exists(rec) /\ Basis(rec) => Basis(Reopen(rec))
  BY DEF Reopen, Recommendation, Statuses, Dated, Basis, Exists

(* Adding a source changes the sources only.                               *)
LEMMA WithSourceLemma ==
    ASSUME NEW rec \in Recommendation, NEW source \in Sources
    PROVE  LET new == WithSource(rec, source)
           IN  /\ new \in Recommendation
               /\ new.status = rec.status
               /\ new.resolved = rec.resolved
               /\ new.sources = rec.sources \cup {source}
               /\ new.pricing = rec.pricing
               /\ new.origin = rec.origin
               /\ new.amount = rec.amount
  BY DEF WithSource, Recommendation

(* What loses sources stays as it is, or is resolved because none is left. *)
LEMMA WithoutSourcesLemma ==
    ASSUME NEW rec \in Recommendation, NEW dropped, Exists(rec)
    PROVE  LET new == WithoutSources(rec, dropped)
           IN  /\ new \in Recommendation
               /\ Exists(new)
               /\ new.sources = rec.sources \ dropped
               /\ new.sources = {} => new.status = "RESOLVED"
               /\ new.sources # {} => new.status = rec.status
               /\ Dated(rec) => Dated(new)
               /\ new.pricing = rec.pricing
               /\ new.origin = rec.origin
               /\ new.amount = rec.amount
  <1> DEFINE left == [rec EXCEPT !.sources = @ \ dropped]
  <1>1. /\ left \in Recommendation
        /\ left.status = rec.status
        /\ left.resolved = rec.resolved
        /\ left.sources = rec.sources \ dropped
        /\ left.pricing = rec.pricing
        /\ left.origin = rec.origin
        /\ left.amount = rec.amount
    BY DEF Recommendation
  <1> HIDE DEF left
  <1>2. WithoutSources(rec, dropped) =
            IF left.sources = {} /\ left.status # "RESOLVED" THEN Resolve(left)
            ELSE left
    BY DEF WithoutSources, left
  <1>3. /\ Resolve(left).pricing = left.pricing
        /\ Resolve(left).origin = left.origin
        /\ Resolve(left).amount = left.amount
    BY <1>1 DEF Resolve, Recommendation
  <1> QED BY <1>1, <1>2, <1>3, ResolveLemma DEF Exists, Dated

-----------------------------------------------------------------------------
(* An evaluation.                                                          *)

LEMMA EligibleLemma ==
    ASSUME NEW rec \in Recommendation, NEW quote \in Quotes
    PROVE  LET new == EvaluatedEligible(rec, quote)
           IN  /\ new \in Recommendation
               /\ Exists(new)
               /\ new.sources \subseteq rec.sources \cup {"CLOUDWISE"}
               /\ "CLOUDWISE" \in new.sources
               /\ rec.status \notin {"ABSENT", "RESOLVED"} => new.status = rec.status
               /\ new.status # "RESOLVED"
               /\ Basis(rec) => Basis(new)
               /\ Dated(rec) => Dated(new)
  <1>1. CASE ~Exists(rec)
    <2> DEFINE new == NewRecommendation("CLOUDWISE")
    <2>1. /\ new \in Recommendation /\ Exists(new) /\ new.status = "OPEN"
          /\ new.sources = {"CLOUDWISE"} /\ Basis(new) /\ Dated(new)
      BY NewLemma DEF Sources
    <2>2. EvaluatedEligible(rec, quote) = ApplyPricing(new, quote)
      BY <1>1 DEF EvaluatedEligible
    <2> HIDE DEF new
    <2> QED BY <1>1, <2>1, <2>2, PricingLemma DEF Exists, Dated
  <1>2. CASE Exists(rec)
    <2> DEFINE known  == WithSource(rec, "CLOUDWISE")
               priced == ApplyPricing(known, quote)
    <2>1. /\ known \in Recommendation
          /\ known.status = rec.status
          /\ known.resolved = rec.resolved
          /\ known.sources = rec.sources \cup {"CLOUDWISE"}
          /\ Basis(rec) => Basis(known)
      BY WithSourceLemma DEF Sources, Basis, Exists
    <2>2. /\ priced \in Recommendation
          /\ priced.status = rec.status
          /\ priced.resolved = rec.resolved
          /\ priced.sources = rec.sources \cup {"CLOUDWISE"}
          /\ Basis(rec) => Basis(priced)
      BY <2>1, PricingLemma
    <2>3. EvaluatedEligible(rec, quote) =
              IF rec.status = "RESOLVED" THEN Reopen(priced) ELSE priced
      BY <1>2 DEF EvaluatedEligible
    <2> HIDE DEF known, priced
    <2> QED BY <1>2, <2>2, <2>3, ReopenLemma DEF Exists, Dated
  <1> QED BY <1>1, <1>2

(* An evaluation changes a recommendation as a transaction may.            *)
LEMMA EvaluatedLemma ==
    ASSUME NEW rec \in Recommendation, NEW quote \in Quotes, NEW eligible \in BOOLEAN,
           ~Exists(rec) => rec.sources = {}
    PROVE  LET new == Evaluated(rec, eligible, quote)
           IN  /\ Changes(new, rec)
               /\ new.sources \subseteq rec.sources \cup {"CLOUDWISE"}
               /\ ~eligible => new.sources \subseteq rec.sources
               /\ Respects(new, rec)
  <1> DEFINE new == Evaluated(rec, eligible, quote)
  <1>1. CASE eligible
    <2>1. /\ new \in Recommendation
          /\ Exists(new)
          /\ new.sources \subseteq rec.sources \cup {"CLOUDWISE"}
          /\ "CLOUDWISE" \in new.sources
          /\ rec.status \notin {"ABSENT", "RESOLVED"} => new.status = rec.status
          /\ Basis(rec) => Basis(new)
          /\ Dated(rec) => Dated(new)
      BY <1>1, EligibleLemma DEF Evaluated
    <2> HIDE DEF new
    <2> QED BY <1>1, <2>1 DEF Changes, Respects, new
  <1>2. CASE ~eligible /\ "CLOUDWISE" \in rec.sources
    <2>1. Exists(rec)
      BY <1>2
    <2>2. new = WithoutSources(rec, {"CLOUDWISE"})
      BY <1>2 DEF Evaluated
    <2>3. /\ new \in Recommendation
          /\ Exists(new)
          /\ new.sources = rec.sources \ {"CLOUDWISE"}
          /\ new.sources = {} => new.status = "RESOLVED"
          /\ new.sources # {} => new.status = rec.status
          /\ Dated(rec) => Dated(new)
          /\ new.pricing = rec.pricing
          /\ new.origin = rec.origin
          /\ new.amount = rec.amount
      BY <2>1, <2>2, WithoutSourcesLemma
    <2> HIDE DEF new
    <2>4. Basis(rec) => Basis(new)
      BY <2>1, <2>3 DEF Basis, External
    <2> QED BY <2>3, <2>4 DEF Changes, Respects, new
  <1>3. CASE ~eligible /\ "CLOUDWISE" \notin rec.sources
    BY <1>3 DEF Evaluated, Changes, Respects
  <1> QED BY <1>1, <1>2, <1>3

-----------------------------------------------------------------------------
(* An evaluation that is repeated.                                         *)

(* The price is what applying this quote once more would give.             *)
Settled(rec, quote) ==
    /\ quote = "current" => /\ rec.pricing = "AVAILABLE"
                            /\ rec.origin = "list" /\ rec.amount = Parts
    /\ quote = "old" => /\ rec.pricing = "STALE"
                        /\ rec.origin = "list" /\ rec.amount = Parts
    /\ quote = "refused" =>
          \/ rec.pricing = "STALE" /\ rec.origin # "none" /\ Keepable(rec.amount)
          \/ /\ rec.pricing = "UNAVAILABLE"
             /\ rec.origin = "none" /\ rec.amount = {}

(* Applying a quote settles the price, and a settled price stays.          *)
LEMMA PricingSettles ==
    ASSUME NEW rec \in Recommendation, NEW quote \in Quotes
    PROVE  /\ Settled(ApplyPricing(rec, quote), quote)
           /\ Settled(rec, quote) => ApplyPricing(rec, quote) = rec
  <1> DEFINE new == ApplyPricing(rec, quote)
  <1>1. PricedBy(new, rec, quote)
    BY PricingCases
  <1> HIDE DEF new
  <1>2. Settled(new, quote)
    BY <1>1 DEF PricedBy, Priced, Settled
  <1>3. Settled(rec, quote) => new = rec
    BY <1>1, RecordsEqual DEF PricedBy, Priced, Settled
  <1> QED BY <1>2, <1>3 DEF new

(* What an evaluation finds eligible is settled afterwards.                *)
LEMMA EligibleSettles ==
    ASSUME NEW rec \in Recommendation, NEW quote \in Quotes
    PROVE  Settled(EvaluatedEligible(rec, quote), quote)
  <1>1. CASE ~Exists(rec)
    <2>1. NewRecommendation("CLOUDWISE") \in Recommendation
      BY NewLemma DEF Sources
    <2> QED BY <1>1, <2>1, PricingSettles DEF EvaluatedEligible
  <1>2. CASE Exists(rec)
    <2> DEFINE priced == ApplyPricing(WithSource(rec, "CLOUDWISE"), quote)
    <2>1. WithSource(rec, "CLOUDWISE") \in Recommendation
      BY WithSourceLemma DEF Sources
    <2>2. priced \in Recommendation /\ Settled(priced, quote)
      BY <2>1, PricingLemma, PricingSettles
    <2>3. EvaluatedEligible(rec, quote) =
              IF rec.status = "RESOLVED" THEN Reopen(priced) ELSE priced
      BY <1>2 DEF EvaluatedEligible
    <2> HIDE DEF priced
    <2>4. /\ Reopen(priced).pricing = priced.pricing
          /\ Reopen(priced).origin = priced.origin
          /\ Reopen(priced).amount = priced.amount
      BY <2>2 DEF Reopen, Recommendation
    <2> QED BY <2>2, <2>3, <2>4 DEF Settled
  <1> QED BY <1>1, <1>2

(* An evaluation that is repeated changes nothing.                         *)
LEMMA EvaluatedTwice ==
    ASSUME NEW rec \in Recommendation, NEW quote \in Quotes, NEW eligible \in BOOLEAN,
           ~Exists(rec) => rec.sources = {}
    PROVE  Evaluated(Evaluated(rec, eligible, quote), eligible, quote)
               = Evaluated(rec, eligible, quote)
  <1> DEFINE once == Evaluated(rec, eligible, quote)
  <1>1. CASE eligible
    <2>1. /\ once \in Recommendation /\ Exists(once)
          /\ "CLOUDWISE" \in once.sources /\ once.status # "RESOLVED"
          /\ Settled(once, quote)
      BY <1>1, EligibleLemma, EligibleSettles DEF Evaluated
    <2> HIDE DEF once
    <2>2. once.sources \cup {"CLOUDWISE"} = once.sources
      BY <2>1
    <2>3. WithSource(once, "CLOUDWISE") = once
      <3> DEFINE new == WithSource(once, "CLOUDWISE")
      <3>1. /\ new \in Recommendation
            /\ new.status = once.status /\ new.resolved = once.resolved
            /\ new.sources = once.sources /\ new.pricing = once.pricing
            /\ new.origin = once.origin /\ new.amount = once.amount
        BY <2>1, <2>2, WithSourceLemma DEF Sources
      <3> HIDE DEF new
      <3>2. new = once
        BY <2>1, <3>1, RecordsEqual
      <3> QED BY <3>2 DEF new
    <2>4. EvaluatedEligible(once, quote) = once
      BY <2>1, <2>3, PricingSettles DEF EvaluatedEligible
    <2> QED BY <1>1, <2>4 DEF Evaluated, once
  <1>2. CASE ~eligible /\ "CLOUDWISE" \in rec.sources
    <2>1. Exists(rec)
      BY <1>2
    <2>2. "CLOUDWISE" \notin once.sources
      BY <1>2, <2>1, WithoutSourcesLemma DEF Evaluated
    <2> HIDE DEF once
    <2> QED BY <1>2, <2>2 DEF Evaluated, once
  <1>3. CASE ~eligible /\ "CLOUDWISE" \notin rec.sources
    BY <1>3 DEF Evaluated
  <1> QED BY <1>1, <1>2, <1>3
-----------------------------------------------------------------------------
(* An import.                                                              *)

(* new is rec with more external sources, created if need be; its status   *)
(* is the same and its price is sound.                                     *)
Observes(new, rec) ==
    /\ new \in Recommendation
    /\ new.sources \subseteq rec.sources \cup External
    /\ Exists(rec) => new.status = rec.status
    /\ Exists(new) /\ ~Exists(rec) => new.status = "OPEN"
    /\ Exists(new) \/ new = rec
    /\ Basis(rec) => Basis(new)
    /\ Dated(rec) => Dated(new)

(* Attaching a finding to what exists.                                     *)
LEMMA AttachLemma ==
    ASSUME NEW rec \in Recommendation, NEW f \in Offers, Exists(rec)
    PROVE  Observes(AttachSource(rec, f), rec)
  <1> DEFINE known   == WithSource(rec, f.source)
             pricing == IF ShowsSaving(f.amount) THEN "AVAILABLE" ELSE "UNAVAILABLE"
             priced  == WithPrice(known, pricing, f.source, f.amount)
  <1>1. f.source \in External /\ f.amount \in SUBSET Parts
    BY RecommendationAssumption
  <1>2. f.source \in Sources /\ f.source \in Origins
    BY <1>1, Names DEF External
  <1>3. /\ known \in Recommendation
        /\ known.status = rec.status /\ known.resolved = rec.resolved
        /\ known.sources = rec.sources \cup {f.source}
        /\ known.pricing = rec.pricing /\ known.origin = rec.origin
        /\ known.amount = rec.amount
    BY <1>2, WithSourceLemma
  <1> HIDE DEF known
  <1>4. pricing \in Pricings
    BY Names
  <1>5. Priced(priced, known, pricing, f.source, f.amount)
    BY <1>1, <1>2, <1>3, <1>4, WithPriceLemma
  <1>6. AttachSource(rec, f) = priced \/ AttachSource(rec, f) = known
    BY DEF AttachSource, known
  <1> HIDE DEF priced
  <1>7. Observes(priced, rec)
    <2>1. Basis(priced)
      BY <1>1, <1>3, <1>5, Names DEF Priced, Basis
    <2> QED BY <1>1, <1>3, <1>5, <2>1 DEF Priced, Observes, Exists, Dated
  <1>8. Observes(known, rec)
    BY <1>1, <1>3 DEF Observes, Exists, Dated, Basis
  <1> QED BY <1>6, <1>7, <1>8

(* A finding, of what exists or not.                                       *)
LEMMA FoundLemma ==
    ASSUME NEW rec \in Recommendation, NEW f \in Offers
    PROVE  Observes(Found(rec, f), rec)
  <1>1. CASE Exists(rec)
    BY <1>1, AttachLemma DEF Found
  <1>2. CASE ~Exists(rec)
    <2> DEFINE new == NewRecommendation(f.source)
    <2>1. f.source \in External /\ f.source \in Sources
      BY RecommendationAssumption DEF External
    <2>2. /\ new \in Recommendation /\ Exists(new)
          /\ new.status = "OPEN"
          /\ new.sources = {f.source} /\ Basis(new) /\ Dated(new)
      BY <2>1, NewLemma
    <2>3. Found(rec, f) = AttachSource(new, f)
      BY <1>2 DEF Found
    <2> HIDE DEF new
    <2>4. Observes(Found(rec, f), new)
      BY <2>2, <2>3, AttachLemma
    <2> QED BY <1>2, <2>1, <2>2, <2>4 DEF Observes, Exists
  <1> QED BY <1>1, <1>2

(* What a source reports of a key, if it reports it.                       *)
LEMMA FoundByLemma ==
    ASSUME NEW rec \in Recommendation, NEW source, NEW findings \in SUBSET Offers
    PROVE  Observes(FoundBy(rec, source, findings), rec)
  <1>1. CASE \E f \in findings : f.source = source
    <2> DEFINE g == CHOOSE f \in findings : f.source = source
    <2>1. g \in findings
      BY <1>1
    <2>2. FoundBy(rec, source, findings) = Found(rec, g)
      BY <1>1 DEF FoundBy
    <2> HIDE DEF g
    <2> QED BY <2>1, <2>2, FoundLemma
  <1>2. CASE ~\E f \in findings : f.source = source
    BY <1>2 DEF FoundBy, Observes
  <1> QED BY <1>1, <1>2

(* What both report.                                                       *)
LEMMA ObservedLemma ==
    ASSUME NEW rec \in Recommendation, NEW findings \in SUBSET Offers
    PROVE  Observes(Observed(rec, findings), rec)
  <1> DEFINE hub == FoundBy(rec, "HUB", findings)
             new == FoundBy(hub, "COMPUTE_OPTIMIZER", findings)
  <1>1. Observes(hub, rec)
    BY FoundByLemma
  <1> HIDE DEF hub
  <1>2. hub \in Recommendation
    BY <1>1 DEF Observes
  <1>3. Observes(new, hub)
    BY <1>2, FoundByLemma
  <1> HIDE DEF new
  <1>4. Observes(new, rec)
    BY <1>1, <1>3 DEF Observes, Exists
  <1> QED BY <1>4 DEF Observed, new, hub

(* Sources that no longer report it are dropped, and the price of one with *)
(* it.                                                                     *)
LEMMA WithoutDroppedLemma ==
    ASSUME NEW rec \in Recommendation, NEW dropped \in SUBSET External, Exists(rec)
    PROVE  LET new == WithoutDropped(rec, dropped)
           IN  /\ Changes(new, rec)
               /\ Exists(new)
               /\ new.sources \subseteq rec.sources
               /\ new.sources = {} => new.status = "RESOLVED"
               /\ new.sources # {} => new.status = rec.status
  <1> DEFINE left == WithoutSources(rec, dropped)
             bare == Unpriced(left)
  <1>1. /\ left \in Recommendation
        /\ Exists(left)
        /\ left.sources = rec.sources \ dropped
        /\ left.sources = {} => left.status = "RESOLVED"
        /\ left.sources # {} => left.status = rec.status
        /\ Dated(rec) => Dated(left)
        /\ left.pricing = rec.pricing
        /\ left.origin = rec.origin
        /\ left.amount = rec.amount
    BY WithoutSourcesLemma
  <1> HIDE DEF left
  <1>2. Priced(bare, left, "UNAVAILABLE", "none", {})
    BY <1>1, WithPriceLemma, Names DEF Unpriced
  <1> HIDE DEF bare
  <1>3. CASE rec.origin \in dropped
    <2>1. WithoutDropped(rec, dropped) = bare
      BY <1>3 DEF WithoutDropped, bare, left
    <2>2. Basis(bare)
      BY <1>2, Names DEF Priced, Basis
    <2>3. Changes(bare, rec) /\ Exists(bare)
      BY <1>1, <1>2, <2>2 DEF Changes, Priced, Exists, Dated
    <2> QED BY <1>1, <1>2, <2>1, <2>3 DEF Priced
  <1>4. CASE rec.origin \notin dropped
    <2>1. WithoutDropped(rec, dropped) = left
      BY <1>4 DEF WithoutDropped, left
    <2>2. Basis(rec) => Basis(left)
      BY <1>1, <1>4 DEF Basis
    <2> QED BY <1>1, <2>1, <2>2 DEF Changes
  <1> QED BY <1>3, <1>4

(* The status after an import: as it was, resolved, or open and new.       *)
Imports(new, rec) ==
    Exists(new) => \/ Exists(rec) /\ new.status = rec.status
                   \/ ~Exists(rec) /\ new.status = "OPEN"
                   \/ new.status = "RESOLVED"

(* An import changes a recommendation as a transaction may.                *)
LEMMA MergedLemma ==
    ASSUME NEW rec \in Recommendation, NEW completed \in SUBSET External,
           NEW findings \in SUBSET Offers
    PROVE  LET new == Merged(rec, completed, findings)
           IN  /\ Changes(new, rec)
               /\ new.sources \subseteq rec.sources \cup External
               /\ Respects(new, rec)
               /\ Imports(new, rec)
  <1> DEFINE observed == Observed(rec, findings)
             dropped  == Dropped(observed, completed, findings)
             new      == WithoutDropped(observed, dropped)
  <1>1. Observes(observed, rec)
    BY ObservedLemma
  <1>2. dropped \in SUBSET External
    BY DEF Dropped
  <1>3. Merged(rec, completed, findings) = IF Exists(observed) THEN new ELSE observed
    BY DEF Merged
  <1> HIDE DEF observed, dropped
  <1>4. CASE Exists(observed)
    <2>1. /\ Changes(new, observed)
          /\ Exists(new)
          /\ new.sources \subseteq observed.sources
          /\ new.sources = {} => new.status = "RESOLVED"
          /\ new.sources # {} => new.status = observed.status
      BY <1>1, <1>2, <1>4, WithoutDroppedLemma DEF Observes
    <2> HIDE DEF new
    <2>2. Changes(new, rec)
      BY <1>1, <2>1 DEF Observes, Changes
    <2>3. new.sources \subseteq rec.sources \cup External
      BY <1>1, <2>1 DEF Observes
    <2>4. Respects(new, rec)
      BY <1>1, <2>1 DEF Observes, Respects, Exists
    <2>5. Imports(new, rec)
      BY <1>1, <1>4, <2>1 DEF Observes, Imports
    <2> QED BY <1>3, <1>4, <2>2, <2>3, <2>4, <2>5
  <1>5. CASE ~Exists(observed)
    <2>1. observed = rec
      BY <1>1, <1>5 DEF Observes
    <2> QED BY <1>1, <1>3, <1>5, <2>1 DEF Observes, Changes, Respects, Imports, Exists
  <1> QED BY <1>4, <1>5
-----------------------------------------------------------------------------
(* A review.                                                               *)

(* A review changes what exists as a transaction may.                      *)
LEMMA ReviewedLemma ==
    ASSUME NEW rec \in Recommendation, NEW to \in Statuses, Exists(rec)
    PROVE  /\ Changes(Reviewed(rec, to), rec)
           /\ Reviewed(rec, to).sources = rec.sources
           /\ Reviewed(rec, to).status = to
  BY DEF Reviewed, Recommendation, Statuses, Changes, Exists, Basis, Dated

-----------------------------------------------------------------------------
(* Type correctness, for sessions that overlap as they please.             *)

(* What is kept of k: nothing has sources before it exists, and only what  *)
(* a rule is about has the source CLOUDWISE.                               *)
Kept(rec, k) ==
    /\ rec \in Recommendation
    /\ ~Exists(rec) => rec.sources = {}
    /\ k \notin RuleKeys => rec.sources \subseteq External

TypeInv ==
    /\ TypeOK
    /\ \A k \in Keys : Kept(recs[k], k)
    /\ \A x \in Sessions, k \in Keys :
          /\ Kept(loaded[x][k], k)
          /\ Exists(loaded[x][k]) => Exists(recs[k])
    /\ \A x \in Sessions : pc[x] = "reviewing" =>
          /\ review[x] \in [key: Keys, to: Statuses]
          /\ Exists(loaded[x][review[x].key])

(* What is absent is well-formed.                                          *)
LEMMA AbsentKept ==
    ASSUME NEW k
    PROVE  Absent \in Recommendation /\ Kept(Absent, k) /\ ~Exists(Absent)
  BY DEF Absent, Kept, Exists, Recommendation

(* A flush writes a well-formed row, and never removes one.                *)
LEMMA FlushLemma ==
    ASSUME NEW k, NEW row, NEW old, NEW new,
           Kept(row, k), Kept(old, k), Kept(new, k),
           Exists(old) => Exists(row),
           Exists(new) \/ new = old,
           Exists(new) /\ ~Exists(old) => ~Exists(row)
    PROVE  /\ Kept(Flush(row, old, new), k)
           /\ Exists(row) => Exists(Flush(row, old, new))
  <1> DEFINE set == Flush(row, old, new)
  <1>1. CASE new = old
    BY <1>1 DEF Flush
  <1>2. CASE new # old /\ ~Exists(old)
    BY <1>2 DEF Flush
  <1>3. CASE new # old /\ Exists(old)
    <2>1. set \in Recommendation
      BY <1>3 DEF Flush, Kept, Recommendation
    <2>2. set.status \in {row.status, new.status}
      BY <1>3 DEF Flush
    <2>3. set.sources \in {row.sources, new.sources}
      BY <1>3 DEF Flush
    <2>4. Exists(set)
      BY <1>3, <2>2 DEF Exists
    <2> HIDE DEF set
    <2>5. Kept(set, k)
      BY <2>1, <2>3, <2>4 DEF Kept
    <2> QED BY <2>4, <2>5 DEF set
  <1> QED BY <1>1, <1>2, <1>3
(* What Commit needs of the rows a session has made.                       *)
Makes(x, new) ==
    \A k \in Keys : /\ Kept(new[k], k)
                    /\ Exists(new[k]) \/ new[k] = loaded[x][k]

(* Whatever else is going on, the commit of such rows keeps the types.     *)
LEMMA CommitType ==
    ASSUME TypeInv, NEW x \in Sessions, NEW new, Makes(x, new), Commit(x, new),
           told' \in [Keys -> Statuses \cup {"nothing"}]
    PROVE  TypeInv'
  <1>1. \A k \in Keys : Kept(recs'[k], k) /\ (Exists(recs[k]) => Exists(recs'[k]))
    <2> SUFFICES ASSUME NEW k \in Keys
                 PROVE  Kept(recs'[k], k) /\ (Exists(recs[k]) => Exists(recs'[k]))
      OBVIOUS
    <2>1. recs'[k] = Flush(recs[k], loaded[x][k], new[k])
      BY DEF Commit
    <2>2. /\ Kept(recs[k], k) /\ Kept(loaded[x][k], k) /\ Kept(new[k], k)
          /\ Exists(loaded[x][k]) => Exists(recs[k])
          /\ Exists(new[k]) \/ new[k] = loaded[x][k]
          /\ Exists(new[k]) /\ ~Exists(loaded[x][k]) => ~Exists(recs[k])
      BY DEF TypeInv, Makes, Commit, InsertsAreNew
    <2> QED BY <2>1, <2>2, FlushLemma
  <1>2. recs' \in [Keys -> Recommendation]
    <2>1. recs' = [k \in Keys |-> Flush(recs[k], loaded[x][k], new[k])]
      BY DEF Commit
    <2>2. \A k \in Keys : recs'[k] \in Recommendation
      BY <1>1 DEF Kept
    <2> QED BY <2>1, <2>2
  <1>3. TypeOK'
    BY <1>1, <1>2, AbsentKept
       DEF TypeInv, TypeOK, Commit, SetByImport, GoIdle, PCs, Nothing, NoEvidence, Evidence, Kept
  <1>4. (\A y \in Sessions, k \in Keys :
            /\ Kept(loaded[y][k], k)
            /\ Exists(loaded[y][k]) => Exists(recs[k]))'
    <2> SUFFICES ASSUME NEW y \in Sessions, NEW k \in Keys
                 PROVE  /\ Kept(loaded'[y][k], k)
                        /\ Exists(loaded'[y][k]) => Exists(recs'[k])
      OBVIOUS
    <2>1. CASE y = x
      <3>1. loaded'[y][k] = Absent
        BY <2>1 DEF TypeInv, TypeOK, Commit, GoIdle, Nothing
      <3> QED BY <3>1, AbsentKept
    <2>2. CASE y # x
      <3>1. loaded'[y] = loaded[y]
        BY <2>2 DEF TypeInv, TypeOK, Commit, GoIdle
      <3> QED BY <1>1, <3>1 DEF TypeInv
    <2> QED BY <2>1, <2>2
  <1>5. (\A y \in Sessions : pc[y] = "reviewing" =>
            /\ review[y] \in [key: Keys, to: Statuses]
            /\ Exists(loaded[y][review[y].key]))'
    <2> SUFFICES ASSUME NEW y \in Sessions, pc'[y] = "reviewing"
                 PROVE  /\ review'[y] \in [key: Keys, to: Statuses]
                        /\ Exists(loaded'[y][review'[y].key])
      OBVIOUS
    <2>1. y # x
      BY DEF TypeInv, TypeOK, Commit, GoIdle
    <2>2. pc'[y] = pc[y] /\ review'[y] = review[y] /\ loaded'[y] = loaded[y]
      BY <2>1 DEF TypeInv, TypeOK, Commit, GoIdle
    <2> QED BY <2>2 DEF TypeInv
  <1> QED BY <1>1, <1>3, <1>4, <1>5 DEF TypeInv

(* What an evaluation makes.                                               *)
EvaluationOf(x, quotes) ==
    [k \in Keys |-> Evaluated(loaded[x][k], Eligible(x, k),
                              IF k \in RuleKeys THEN quotes[k] ELSE "refused")]

(* An evaluation makes well-formed rows from those it read.                *)
LEMMA EvaluationMakes ==
    ASSUME TypeInv, NEW x \in Sessions, NEW quotes \in [RuleKeys -> Quotes]
    PROVE  /\ Makes(x, EvaluationOf(x, quotes))
           /\ \A k \in Keys : /\ Changes(EvaluationOf(x, quotes)[k], loaded[x][k])
                              /\ Respects(EvaluationOf(x, quotes)[k], loaded[x][k])
  <1> SUFFICES ASSUME NEW k \in Keys
               PROVE  /\ Kept(EvaluationOf(x, quotes)[k], k)
                      /\ Changes(EvaluationOf(x, quotes)[k], loaded[x][k])
                      /\ Respects(EvaluationOf(x, quotes)[k], loaded[x][k])
    BY DEF Makes, Changes
  <1> DEFINE quote == IF k \in RuleKeys THEN quotes[k] ELSE "refused"
             old   == loaded[x][k]
             eligible == Eligible(x, k)
             new   == Evaluated(old, eligible, quote)
  <1>1. EvaluationOf(x, quotes)[k] = new
    BY DEF EvaluationOf
  <1>2. quote \in Quotes
    BY DEF Quotes
  <1>3. Kept(old, k)
    BY DEF TypeInv
  <1>4. eligible \in BOOLEAN /\ (eligible => k \in RuleKeys)
    BY DEF Eligible
  <1> HIDE DEF quote, old, eligible
  <1>5. /\ Changes(new, old)
        /\ new.sources \subseteq old.sources \cup {"CLOUDWISE"}
        /\ ~eligible => new.sources \subseteq old.sources
        /\ Respects(new, old)
    BY <1>2, <1>3, <1>4, EvaluatedLemma DEF Kept
  <1> HIDE DEF new
  <1>6. Kept(new, k)
    BY <1>3, <1>4, <1>5 DEF Kept, Changes
  <1> QED BY <1>1, <1>5, <1>6 DEF old

(* What an import makes.                                                   *)
ImportOf(x, a) ==
    [k \in Keys |-> Merged(loaded[x][k], a.completed, {f \in a.findings : f.key = k})]

(* An import makes well-formed rows from those it read.                    *)
LEMMA ImportMakes ==
    ASSUME TypeInv, NEW x \in Sessions,
           NEW a \in [completed: SUBSET External, findings: SUBSET Offers]
    PROVE  /\ Makes(x, ImportOf(x, a))
           /\ \A k \in Keys : /\ Changes(ImportOf(x, a)[k], loaded[x][k])
                              /\ Respects(ImportOf(x, a)[k], loaded[x][k])
                              /\ Imports(ImportOf(x, a)[k], loaded[x][k])
  <1> SUFFICES ASSUME NEW k \in Keys
               PROVE  /\ Kept(ImportOf(x, a)[k], k)
                      /\ Changes(ImportOf(x, a)[k], loaded[x][k])
                      /\ Respects(ImportOf(x, a)[k], loaded[x][k])
                      /\ Imports(ImportOf(x, a)[k], loaded[x][k])
    BY DEF Makes, Changes
  <1> DEFINE old == loaded[x][k]
             findings == {f \in a.findings : f.key = k}
             new == Merged(old, a.completed, findings)
  <1>1. ImportOf(x, a)[k] = new
    BY DEF ImportOf
  <1>2. a.completed \in SUBSET External /\ findings \in SUBSET Offers
    OBVIOUS
  <1>3. Kept(old, k)
    BY DEF TypeInv
  <1> HIDE DEF old, findings
  <1>4. /\ Changes(new, old)
        /\ new.sources \subseteq old.sources \cup External
        /\ Respects(new, old)
        /\ Imports(new, old)
    BY <1>2, <1>3, MergedLemma DEF Kept
  <1> HIDE DEF new
  <1>5. Kept(new, k)
    BY <1>3, <1>4 DEF Kept, Changes
  <1> QED BY <1>1, <1>4, <1>5 DEF old

(* What a review makes.                                                    *)
ReviewOf(x) == [loaded[x] EXCEPT ![review[x].key] = Reviewed(@, review[x].to)]

(* A review makes well-formed rows from those it read, and a new one only  *)
(* of its own key.                                                         *)
LEMMA ReviewMakes ==
    ASSUME TypeInv, NEW x \in Sessions, pc[x] = "reviewing"
    PROVE  /\ Makes(x, ReviewOf(x))
           /\ \A k \in Keys : /\ Changes(ReviewOf(x)[k], loaded[x][k])
                              /\ k # review[x].key => ReviewOf(x)[k] = loaded[x][k]
                              /\ k = review[x].key => ReviewOf(x)[k].status = review[x].to
  <1>1. /\ review[x].key \in Keys /\ review[x].to \in Statuses
        /\ loaded[x] \in [Keys -> Recommendation]
        /\ Exists(loaded[x][review[x].key])
    BY DEF TypeInv, TypeOK
  <1> SUFFICES ASSUME NEW k \in Keys
               PROVE  /\ Kept(ReviewOf(x)[k], k)
                      /\ Changes(ReviewOf(x)[k], loaded[x][k])
                      /\ k # review[x].key => ReviewOf(x)[k] = loaded[x][k]
                      /\ k = review[x].key => ReviewOf(x)[k].status = review[x].to
    BY DEF Makes, Changes
  <1>2. Kept(loaded[x][k], k)
    BY DEF TypeInv
  <1>3. CASE k # review[x].key
    <2>1. ReviewOf(x)[k] = loaded[x][k]
      BY <1>1, <1>3 DEF ReviewOf
    <2>2. Changes(loaded[x][k], loaded[x][k])
      BY <1>1 DEF Changes
    <2> QED BY <1>2, <1>3, <2>1, <2>2
  <1>4. CASE k = review[x].key
    <2> DEFINE old == loaded[x][k]
               new == Reviewed(old, review[x].to)
    <2>1. ReviewOf(x)[k] = new
      BY <1>1, <1>4 DEF ReviewOf
    <2>2. old \in Recommendation /\ Exists(old)
      BY <1>1, <1>4
    <2> HIDE DEF old
    <2>3. Changes(new, old) /\ new.sources = old.sources /\ new.status = review[x].to
      BY <1>1, <2>2, ReviewedLemma
    <2>4. Exists(new) \/ new = old
      BY <2>3 DEF Changes
    <2> HIDE DEF new
    <2>5. Kept(old, k)
      BY <1>2 DEF old
    <2>6. Kept(new, k)
      BY <2>2, <2>3, <2>4, <2>5 DEF Kept, Changes
    <2> QED BY <1>4, <2>1, <2>3, <2>6 DEF old
  <1> QED BY <1>3, <1>4
(* Nothing is there at first.                                              *)
LEMMA TypeInit == Init => TypeInv
  <1> SUFFICES ASSUME Init PROVE TypeInv
    OBVIOUS
  <1>1. /\ \A k \in Keys : recs[k] = Absent
        /\ \A x \in Sessions, k \in Keys : loaded[x][k] = Absent
        /\ \A x \in Sessions : pc[x] = "idle"
    BY DEF Init, Nothing
  <1>2. TypeOK
    BY AbsentKept DEF Init, TypeOK, Nothing, NoEvidence, Evidence, PCs, Kept
  <1> QED BY <1>1, <1>2, AbsentKept DEF TypeInv

(* The three commits, with what they write.                                *)
LEMMA FinishEvaluationCommits ==
    ASSUME TypeInv, NEW x \in Sessions, FinishEvaluation(x)
    PROVE  \E quotes \in [RuleKeys -> Quotes] : Commit(x, EvaluationOf(x, quotes))
  BY DEF FinishEvaluation, EvaluationOf, Quotes

LEMMA FinishImportCommits ==
    ASSUME TypeInv, NEW x \in Sessions, FinishImport(x)
    PROVE  \E a \in [completed: SUBSET External, findings: SUBSET Offers] :
              Commit(x, ImportOf(x, a))
  BY DEF FinishImport, ImportOf, Answers

LEMMA FinishReviewCommits ==
    ASSUME TypeInv, NEW x \in Sessions, FinishReview(x)
    PROVE  pc[x] = "reviewing" /\ Commit(x, ReviewOf(x))
  BY DEF FinishReview, ReviewOf

(* Evaluations tell of a status that exists.                               *)
LEMMA ToldType ==
    ASSUME TypeInv, NEW x \in Sessions,
           FinishEvaluation(x) \/ FinishImport(x) \/ FinishReview(x)
    PROVE  told' \in [Keys -> Statuses \cup {"nothing"}]
  <1>1. CASE FinishEvaluation(x)
    <2>1. PICK quotes \in [RuleKeys -> Quotes] :
             told' = [k \in Keys |->
                IF EvaluationTells(loaded[x][k], EvaluationOf(x, quotes)[k])
                THEN EvaluationOf(x, quotes)[k].status ELSE told[k]]
      BY <1>1 DEF FinishEvaluation, EvaluationOf, Quotes
    <2>2. \A k \in Keys : EvaluationOf(x, quotes)[k] \in Recommendation
      BY EvaluationMakes DEF Changes
    <2>3. \A k \in Keys : Exists(EvaluationOf(x, quotes)[k])
                            => EvaluationOf(x, quotes)[k].status \in Statuses
      BY <2>2 DEF Exists, Recommendation
    <2> QED BY <2>1, <2>3 DEF EvaluationTells, TypeInv, TypeOK
  <1>2. CASE FinishImport(x)
    BY <1>2 DEF FinishImport, TypeInv, TypeOK
  <1>3. CASE FinishReview(x)
    BY <1>3 DEF FinishReview, TypeInv, TypeOK
  <1> QED BY <1>1, <1>2, <1>3

(* Reading the evidence touches no row.                                    *)
LEMMA TypeStart ==
    ASSUME TypeInv, NEW x \in Sessions, StartEvaluation(x) \/ StartImport(x)
    PROVE  TypeInv'
  <1>1. TypeOK'
    <2>1. region' \in [Sessions -> Regions \cup {"none"}]
      <3>1. CASE StartEvaluation(x)
        BY <3>1 DEF StartEvaluation, TypeInv, TypeOK
      <3>2. CASE StartImport(x)
        <4>1. PICK r \in Regions : region' = [region EXCEPT ![x] = r]
          BY <3>2 DEF StartImport
        <4> QED BY <4>1 DEF TypeInv, TypeOK
      <3> QED BY <3>1, <3>2
    <2>2. pc' \in [Sessions -> PCs]
      BY DEF StartEvaluation, StartImport, ReadEvidence, TypeInv, TypeOK, PCs
    <2>3. seen' \in [Sessions -> [Keys -> Evidence]]
      BY DEF StartEvaluation, StartImport, ReadEvidence, TypeInv, TypeOK
    <2> QED BY <2>1, <2>2, <2>3 DEF StartEvaluation, StartImport, ReadEvidence, TypeInv, TypeOK
  <1>2. recs' = recs /\ loaded' = loaded /\ review' = review
    BY DEF StartEvaluation, StartImport, ReadEvidence
  <1>3. \A y \in Sessions : pc'[y] = "reviewing" => pc[y] = "reviewing"
    BY DEF StartEvaluation, StartImport, ReadEvidence, TypeInv, TypeOK
  <1> QED BY <1>1, <1>2, <1>3 DEF TypeInv

(* Rows that are loaded are as well-formed as those that are stored.       *)
LEMMA TypeLoad ==
    ASSUME TypeInv, NEW x \in Sessions, Load(x) \/ StartReview(x)
    PROVE  TypeInv'
  <1>1. TypeOK'
    <2>1. CASE Load(x)
      BY <2>1 DEF Load, TypeInv, TypeOK, PCs
    <2>2. CASE StartReview(x)
      <3>1. PICK k \in Keys :
               /\ Exists(recs[k])
               /\ \E to \in StatusTransitions[recs[k].status] :
                     review' = [review EXCEPT ![x] = [key |-> k, to |-> to]]
        BY <2>2 DEF StartReview
      <3>2. recs[k].status \in Statuses
        BY <3>1 DEF TypeInv, TypeOK, Exists, Recommendation
      <3>3. StatusTransitions[recs[k].status] \subseteq Statuses
        BY <3>2 DEF StatusTransitions, Statuses
      <3>4. review' \in [Sessions -> [key: Keys, to: Statuses] \cup {NoReview}]
        BY <3>1, <3>3 DEF TypeInv, TypeOK
      <3> QED BY <2>2, <3>4 DEF StartReview, TypeInv, TypeOK, PCs
    <2> QED BY <2>1, <2>2
  <1>2. recs' = recs /\ loaded' = [loaded EXCEPT ![x] = recs]
    BY DEF Load, StartReview
  <1>3. \A y \in Sessions, k \in Keys :
           loaded'[y][k] = recs[k] \/ loaded'[y][k] = loaded[y][k]
    BY <1>2 DEF TypeInv, TypeOK
  <1>4. (\A y \in Sessions, k \in Keys :
            /\ Kept(loaded[y][k], k)
            /\ Exists(loaded[y][k]) => Exists(recs[k]))'
    BY <1>2, <1>3 DEF TypeInv
  <1>5. ASSUME NEW y \in Sessions, pc'[y] = "reviewing"
        PROVE  /\ review'[y] \in [key: Keys, to: Statuses]
               /\ Exists(loaded'[y][review'[y].key])
    <2>1. CASE y # x
      <3>1. pc'[y] = pc[y] /\ review'[y] = review[y] /\ loaded'[y] = loaded[y]
        BY <2>1 DEF Load, StartReview, TypeInv, TypeOK
      <3> QED BY <1>5, <3>1 DEF TypeInv
    <2>2. CASE y = x
      <3>1. StartReview(x)
        BY <1>5, <2>2 DEF Load, TypeInv, TypeOK
      <3>1a. PICK k \in Keys :
                /\ Exists(recs[k])
                /\ \E to \in StatusTransitions[recs[k].status] :
                      review' = [review EXCEPT ![x] = [key |-> k, to |-> to]]
        BY <3>1 DEF StartReview
      <3>2. PICK to \in StatusTransitions[recs[k].status] :
               review' = [review EXCEPT ![x] = [key |-> k, to |-> to]]
        BY <3>1a
      <3>3. recs[k].status \in Statuses
        BY <3>1a DEF TypeInv, TypeOK, Exists, Recommendation
      <3>4. to \in Statuses
        BY <3>2, <3>3 DEF StatusTransitions, Statuses
      <3>5. review'[x] = [key |-> k, to |-> to] /\ loaded'[x] = recs
        BY <1>2, <3>2 DEF TypeInv, TypeOK
      <3> QED BY <2>2, <3>1a, <3>4, <3>5
    <2> QED BY <2>1, <2>2
  <1> QED BY <1>1, <1>2, <1>4, <1>5 DEF TypeInv

(* Each of the three commits keeps the types.                              *)
LEMMA TypeFinish ==
    ASSUME TypeInv, NEW x \in Sessions,
           FinishEvaluation(x) \/ FinishImport(x) \/ FinishReview(x)
    PROVE  TypeInv'
  <1>1. CASE FinishEvaluation(x)
    <2>1. PICK quotes \in [RuleKeys -> Quotes] : Commit(x, EvaluationOf(x, quotes))
      BY <1>1, FinishEvaluationCommits
    <2>2. Makes(x, EvaluationOf(x, quotes))
      BY EvaluationMakes
    <2> QED BY <2>1, <2>2, ToldType, CommitType
  <1>2. CASE FinishImport(x)
    <2>1. PICK a \in [completed: SUBSET External, findings: SUBSET Offers] :
             Commit(x, ImportOf(x, a))
      BY <1>2, FinishImportCommits
    <2>2. Makes(x, ImportOf(x, a))
      BY ImportMakes
    <2> QED BY <2>1, <2>2, ToldType, CommitType
  <1>3. CASE FinishReview(x)
    <2>1. pc[x] = "reviewing" /\ Commit(x, ReviewOf(x))
      BY <1>3, FinishReviewCommits
    <2>2. Makes(x, ReviewOf(x))
      BY <2>1, ReviewMakes
    <2> QED BY <2>1, <2>2, ToldType, CommitType
  <1> QED BY <1>1, <1>2, <1>3

(* An abort forgets what the session did.                                  *)
LEMMA TypeAbort ==
    ASSUME TypeInv, NEW x \in Sessions, Abort(x)
    PROVE  TypeInv'
  <1>1. TypeOK'
    BY AbsentKept
       DEF Abort, GoIdle, TypeInv, TypeOK, PCs, Nothing, NoEvidence, Evidence
  <1>2. recs' = recs
    BY DEF Abort
  <1>3. loaded'[x] = Nothing /\ pc'[x] = "idle"
    BY DEF Abort, GoIdle, TypeInv, TypeOK
  <1>4. \A y \in Sessions : y # x => /\ pc'[y] = pc[y] /\ review'[y] = review[y]
                                     /\ loaded'[y] = loaded[y]
    BY DEF Abort, GoIdle, TypeInv, TypeOK
  <1>5. \A k \in Keys : loaded'[x][k] = Absent
    BY <1>3 DEF Nothing
  <1> QED BY <1>1, <1>2, <1>3, <1>4, <1>5, AbsentKept DEF TypeInv

(* The inventory changes under the sessions.                               *)
LEMMA TypeInventory ==
    ASSUME TypeInv, NEW k \in Keys, InventoryChanges(k)
    PROVE  TypeInv'
  <1>1. TypeOK'
    BY DEF InventoryChanges, sessionVars, TypeInv, TypeOK
  <1> QED BY <1>1 DEF InventoryChanges, sessionVars, TypeInv

(* Every step keeps the types.                                             *)
LEMMA TypeStep == TypeInv /\ [Next]_vars => TypeInv'
  <1> SUFFICES ASSUME TypeInv, [Next]_vars PROVE TypeInv'
    OBVIOUS
  <1>1. CASE UNCHANGED vars
    BY <1>1 DEF vars, sessionVars, TypeInv, TypeOK
  <1>2. CASE Next
    BY <1>2, TypeInventory, TypeStart, TypeLoad, TypeFinish, TypeAbort DEF Next
  <1> QED BY <1>1, <1>2

(* Every variable keeps its type, and only what a rule is about ever has   *)
(* the source CLOUDWISE, however many sessions overlap.                    *)
THEOREM TypeCorrect == Spec => []TypeOK
  <1>1. TypeInv => TypeOK
    BY DEF TypeInv
  <1> QED BY <1>1, TypeInit, TypeStep, PTL DEF Spec

(* An evaluation of the same evidence and quotes that is repeated at once  *)
(* changes nothing, whatever sessions that overlap have made of the rows.  *)
THEOREM EvaluationIdempotentHolds == Spec => []EvaluationIdempotent
  <1>1. TypeInv => EvaluationIdempotent
    <2> SUFFICES ASSUME TypeInv, NEW k \in Keys, NEW quote \in Quotes,
                        NEW eligible \in BOOLEAN
                 PROVE  Evaluated(Evaluated(recs[k], eligible, quote), eligible, quote)
                            = Evaluated(recs[k], eligible, quote)
      BY DEF EvaluationIdempotent, Quotes
    <2> QED BY EvaluatedTwice DEF TypeInv, Kept
  <1> QED BY <1>1, TypeInit, TypeStep, PTL DEF Spec
-----------------------------------------------------------------------------
(* Transactions that do not overlap: what a session commits is what it     *)
(* made of the rows as they still are, so that each commit is one of the   *)
(* changes of a recommendation above.                                      *)

Working(x) == pc[x] \in {"evaluated", "imported", "reviewing"}

(* No two sessions are between their read of the rows and their commit.    *)
Apart == \A x, y \in Sessions : Working(x) /\ Working(y) => x = y

SerialInv ==
    /\ TypeInv
    /\ \A x \in Sessions : Working(x) => loaded[x] = recs
    /\ \A k \in Keys : Basis(recs[k]) /\ Dated(recs[k])

(* A session that works has loaded the rows.                               *)
LEMMA FinishWorks ==
    ASSUME NEW x \in Sessions,
           FinishEvaluation(x) \/ FinishImport(x) \/ FinishReview(x)
    PROVE  Working(x)
  BY DEF FinishEvaluation, FinishImport, FinishReview, Working

(* A flush to a row that nobody else has changed writes the row as made.   *)
LEMMA FlushAlone ==
    ASSUME NEW old \in Recommendation, NEW new \in Recommendation
    PROVE  Flush(old, old, new) = new
  <1>1. CASE new = old \/ ~Exists(old)
    BY <1>1 DEF Flush
  <1>2. CASE new # old /\ Exists(old)
    <2> DEFINE set == Flush(old, old, new)
    <2>1. /\ set \in Recommendation
          /\ set.status = new.status /\ set.resolved = new.resolved
          /\ set.sources = new.sources /\ set.pricing = new.pricing
          /\ set.origin = new.origin /\ set.amount = new.amount
      BY <1>2 DEF Flush, Recommendation
    <2> HIDE DEF set
    <2>2. set = new
      BY <2>1, RecordsEqual
    <2> QED BY <2>2 DEF set
  <1> QED BY <1>1, <1>2

(* So the rows become what the session has made.                           *)
LEMMA CommitAlone ==
    ASSUME SerialInv, NEW x \in Sessions, Working(x), NEW new, Makes(x, new),
           Commit(x, new)
    PROVE  \A k \in Keys : recs'[k] = new[k]
  <1> SUFFICES ASSUME NEW k \in Keys
               PROVE  recs'[k] = new[k]
    OBVIOUS
  <1>1. loaded[x][k] = recs[k] /\ recs[k] \in Recommendation
    BY DEF SerialInv, TypeInv, TypeOK
  <1>2. new[k] \in Recommendation
    BY DEF Makes, Kept
  <1>3. recs'[k] = Flush(recs[k], loaded[x][k], new[k])
    BY DEF Commit
  <1> QED BY <1>1, <1>2, <1>3, FlushAlone

(* Every step changes a recommendation as a transaction may, respecting    *)
(* reviews, or it is the review itself.                                    *)
LEMMA SerialChanges ==
    ASSUME SerialInv, [Next]_vars, NEW k \in Keys
    PROVE  /\ Changes(recs'[k], recs[k])
           /\ Respects(recs'[k], recs[k]) \/ ReviewStep(k)
  <1>1. CASE recs' = recs
    <2>1. recs[k] \in Recommendation
      BY DEF SerialInv, TypeInv, TypeOK
    <2> QED BY <1>1, <2>1 DEF Changes, Respects
  <1>2. ASSUME NEW x \in Sessions, FinishEvaluation(x)
        PROVE  Changes(recs'[k], recs[k]) /\ Respects(recs'[k], recs[k])
    <2>1. PICK quotes \in [RuleKeys -> Quotes] : Commit(x, EvaluationOf(x, quotes))
      BY <1>2, FinishEvaluationCommits DEF SerialInv
    <2> DEFINE new == EvaluationOf(x, quotes)
    <2>2. Makes(x, new) /\ Changes(new[k], loaded[x][k]) /\ Respects(new[k], loaded[x][k])
      BY EvaluationMakes DEF SerialInv
    <2> HIDE DEF new
    <2>3. recs'[k] = new[k] /\ loaded[x][k] = recs[k]
      BY <1>2, <2>1, <2>2, FinishWorks, CommitAlone DEF SerialInv, new
    <2> QED BY <2>2, <2>3
  <1>3. ASSUME NEW x \in Sessions, FinishImport(x)
        PROVE  Changes(recs'[k], recs[k]) /\ Respects(recs'[k], recs[k])
    <2>1. PICK a \in [completed: SUBSET External, findings: SUBSET Offers] :
             Commit(x, ImportOf(x, a))
      BY <1>3, FinishImportCommits DEF SerialInv
    <2> DEFINE new == ImportOf(x, a)
    <2>2. Makes(x, new) /\ Changes(new[k], loaded[x][k]) /\ Respects(new[k], loaded[x][k])
      BY ImportMakes DEF SerialInv
    <2> HIDE DEF new
    <2>3. recs'[k] = new[k] /\ loaded[x][k] = recs[k]
      BY <1>3, <2>1, <2>2, FinishWorks, CommitAlone DEF SerialInv, new
    <2> QED BY <2>2, <2>3
  <1>4. ASSUME NEW x \in Sessions, FinishReview(x)
        PROVE  /\ Changes(recs'[k], recs[k])
               /\ Respects(recs'[k], recs[k]) \/ ReviewStep(k)
    <2>1. pc[x] = "reviewing" /\ Commit(x, ReviewOf(x))
      BY <1>4, FinishReviewCommits DEF SerialInv
    <2> DEFINE new == ReviewOf(x)
    <2>2. /\ Makes(x, new)
          /\ Changes(new[k], loaded[x][k])
          /\ k # review[x].key => new[k] = loaded[x][k]
      BY <2>1, ReviewMakes DEF SerialInv
    <2> HIDE DEF new
    <2>3. recs'[k] = new[k] /\ loaded[x][k] = recs[k]
      BY <1>4, <2>1, <2>2, FinishWorks, CommitAlone DEF SerialInv, new
    <2>4. k # review[x].key => Respects(recs'[k], recs[k])
      BY <2>2, <2>3 DEF Respects
    <2>5. k = review[x].key => ReviewStep(k)
      BY <2>1 DEF ReviewStep, Commit, GoIdle, SerialInv, TypeInv, TypeOK
    <2> QED BY <2>2, <2>3, <2>4, <2>5
  <1>5. \/ recs' = recs
        \/ \E x \in Sessions :
              FinishEvaluation(x) \/ FinishImport(x) \/ FinishReview(x)
    BY DEF Next, InventoryChanges, StartEvaluation, StartImport, ReadEvidence, Load,
           StartReview, Abort, vars
  <1> QED BY <1>1, <1>2, <1>3, <1>4, <1>5

(* At first nothing is priced or resolved.                                 *)
LEMMA SerialInit == Init => SerialInv
  <1> SUFFICES ASSUME Init PROVE SerialInv
    OBVIOUS
  <1>1. \A k \in Keys : recs[k] = Absent
    BY DEF Init, Nothing
  <1>2. Basis(Absent) /\ Dated(Absent)
    BY DEF Basis, Dated, Exists, Absent
  <1>3. \A x \in Sessions : ~Working(x)
    BY DEF Init, Working
  <1> QED BY <1>1, <1>2, <1>3, TypeInit DEF SerialInv

(* What another session has loaded stays loaded while a session moves on.  *)
LEMMA OthersKeep ==
    ASSUME TypeInv, NEW y \in Sessions, NEW x \in Sessions, x # y,
           \/ StartEvaluation(y) \/ StartImport(y) \/ Load(y) \/ StartReview(y)
           \/ FinishEvaluation(y) \/ FinishImport(y) \/ FinishReview(y) \/ Abort(y)
    PROVE  pc'[x] = pc[x] /\ loaded'[x] = loaded[x]
  BY DEF StartEvaluation, StartImport, ReadEvidence, Load, StartReview, FinishEvaluation,
         FinishImport, FinishReview, Commit, Abort, GoIdle, TypeInv, TypeOK

(* A session that starts or ends has nothing loaded to commit.             *)
LEMMA NotWorking ==
    ASSUME TypeInv, NEW y \in Sessions,
           \/ StartEvaluation(y) \/ StartImport(y)
           \/ FinishEvaluation(y) \/ FinishImport(y) \/ FinishReview(y) \/ Abort(y)
    PROVE  ~Working(y)'
  BY DEF StartEvaluation, StartImport, ReadEvidence, FinishEvaluation, FinishImport,
         FinishReview, Commit, Abort, GoIdle, Working, TypeInv, TypeOK

(* Every step keeps the invariant if no two sessions overlap.              *)
LEMMA SerialStep ==
    ASSUME SerialInv, Apart, [Next]_vars
    PROVE  SerialInv'
  <1>1. TypeInv'
    BY TypeStep DEF SerialInv
  <1>2. \A k \in Keys : Basis(recs'[k]) /\ Dated(recs'[k])
    BY SerialChanges DEF SerialInv, Changes
  <1>3. ASSUME NEW x \in Sessions, Working(x)'
        PROVE  loaded'[x] = recs'
    <2>1. CASE UNCHANGED vars \/ \E k \in Keys : InventoryChanges(k)
      BY <1>3, <2>1 DEF InventoryChanges, vars, sessionVars, Working, SerialInv
    <2>2. ASSUME NEW y \in Sessions, StartEvaluation(y) \/ StartImport(y) \/ Abort(y)
          PROVE  loaded'[x] = recs'
      <3>1. x # y
        BY <1>3, <2>2, NotWorking DEF SerialInv
      <3>2. pc'[x] = pc[x] /\ loaded'[x] = loaded[x] /\ recs' = recs
        BY <2>2, <3>1, OthersKeep
           DEF StartEvaluation, StartImport, ReadEvidence, Abort, SerialInv
      <3> QED BY <1>3, <3>2 DEF Working, SerialInv
    <2>3. ASSUME NEW y \in Sessions, Load(y) \/ StartReview(y)
          PROVE  loaded'[x] = recs'
      <3>1. CASE x = y
        BY <2>3, <3>1 DEF Load, StartReview, SerialInv, TypeInv, TypeOK
      <3>2. CASE x # y
        <4>1. pc'[x] = pc[x] /\ loaded'[x] = loaded[x] /\ recs' = recs
          BY <2>3, <3>2, OthersKeep DEF Load, StartReview, SerialInv
        <4> QED BY <1>3, <4>1 DEF Working, SerialInv
      <3> QED BY <3>1, <3>2
    <2>4. ASSUME NEW y \in Sessions,
                 FinishEvaluation(y) \/ FinishImport(y) \/ FinishReview(y)
          PROVE  FALSE
      <3>1. x # y
        BY <1>3, <2>4, NotWorking DEF SerialInv
      <3>2. Working(x)
        BY <1>3, <2>4, <3>1, OthersKeep DEF Working, SerialInv
      <3> QED BY <2>4, <3>1, <3>2, FinishWorks DEF Apart
    <2> QED BY <2>1, <2>2, <2>3, <2>4 DEF Next
  <1> QED BY <1>1, <1>2, <1>3 DEF SerialInv

(* If transactions do not overlap, what is shown as a price has a basis.   *)
THEOREM PriceHasBasisHolds ==
    Spec /\ []Apart => []PriceHasBasis
  <1>1. SerialInv /\ Apart /\ [Next]_vars => SerialInv'
    BY SerialStep
  <1>2. SerialInv => PriceHasBasis
    BY DEF SerialInv, PriceHasBasis, Basis
  <1> QED BY <1>1, <1>2, SerialInit, PTL DEF Spec

(* If transactions do not overlap, resolved_at is set exactly while a      *)
(* recommendation is resolved.                                             *)
THEOREM ResolvedAtAgreesHolds ==
    Spec /\ []Apart => []ResolvedAtAgrees
  <1>1. SerialInv /\ Apart /\ [Next]_vars => SerialInv'
    BY SerialStep
  <1>2. SerialInv => ResolvedAtAgrees
    BY DEF SerialInv, ResolvedAtAgrees, Dated
  <1> QED BY <1>1, <1>2, SerialInit, PTL DEF Spec

(* If transactions do not overlap, what a reviewer acknowledged or         *)
(* dismissed stays so until a reviewer changes it or no source is left.    *)
THEOREM ReviewKeptHolds ==
    Spec /\ []Apart => ReviewKept
  <1>1. SerialInv /\ Apart /\ [Next]_vars => SerialInv'
    BY SerialStep
  <1>2. SerialInv /\ [Next]_vars =>
           [\A k \in Keys :
               /\ Exists(recs[k])
               /\ recs[k].status \in {"ACKNOWLEDGED", "DISMISSED"}
               /\ recs'[k].status # recs[k].status
               => ReviewStep(k) \/ recs'[k].sources = {}]_vars
    BY SerialChanges DEF Respects
  <1> QED BY <1>1, <1>2, SerialInit, PTL DEF Spec, ReviewKept

(* If transactions do not overlap, what loses its last source is resolved  *)
(* in the same step, and only a reviewer opens what has none.              *)
THEOREM UnsourcedIsResolvedHolds ==
    Spec /\ []Apart => UnsourcedIsResolved
  <1>1. SerialInv /\ Apart /\ [Next]_vars => SerialInv'
    BY SerialStep
  <1>2. SerialInv /\ [Next]_vars =>
           [\A k \in Keys :
               /\ Exists(recs[k])
               /\ recs[k].sources # {} \/ recs[k].status = "RESOLVED"
               /\ recs'[k].sources = {}
               => recs'[k].status = "RESOLVED" \/ ReviewStep(k)]_vars
    BY SerialChanges DEF Respects
  <1> QED BY <1>1, <1>2, SerialInit, PTL DEF Spec, UnsourcedIsResolved
-----------------------------------------------------------------------------
(* What the activities tell, however many sessions overlap.                *)

(* t is what the activities tell of a recommendation; if an import was the *)
(* last to set its status, they miss that it was created or resolved.      *)
Trail(rec, t, imported) ==
    /\ Exists(rec) /\ ~imported => t = rec.status
    /\ Exists(rec) /\ imported => \/ rec.status = "RESOLVED"
                                  \/ rec.status = "OPEN" /\ t = "nothing"
    /\ ~Exists(rec) => t = "nothing" /\ ~imported

(* A review changes the status that was read.                              *)
ReviewsChange ==
    \A x \in Sessions : pc[x] = "reviewing" =>
        review[x].to # loaded[x][review[x].key].status

(* What an import opened has been open ever since: whoever has read it has *)
(* read that, so that no evaluation or review means to open it again.      *)
TrailInv ==
    /\ TypeInv
    /\ \A k \in Keys : Trail(recs[k], told[k], k \in byImport)
    /\ \A x \in Sessions, k \in Keys :
          k \in byImport /\ recs[k].status = "OPEN" /\ Exists(loaded[x][k])
              => loaded[x][k].status = "OPEN"
    /\ ReviewsChange

(* Nothing is told of what is not there.                                   *)
LEMMA TrailInit == Init => TrailInv
  <1> SUFFICES ASSUME Init PROVE TrailInv
    OBVIOUS
  <1>1. \A k \in Keys : recs[k] = Absent /\ told[k] = "nothing" /\ k \notin byImport
    BY DEF Init, Nothing
  <1> QED BY <1>1, AbsentKept, TypeInit DEF Init, TrailInv, Trail, ReviewsChange, Nothing

(* The status that a flush leaves.                                         *)
FlushedStatus(row, old, new) ==
    IF (IF Exists(old) THEN new.status = old.status ELSE ~Exists(new))
    THEN row.status ELSE new.status

(* What a commit writes into a status, and into the history of imports.    *)
LEMMA CommitStatus ==
    ASSUME TypeInv, NEW x \in Sessions, NEW new, Makes(x, new), Commit(x, new),
           NEW k \in Keys
    PROVE  /\ recs'[k].status = FlushedStatus(recs[k], loaded[x][k], new[k])
           /\ k \in byImport' <=> IF recs'[k].status # recs[k].status
                                  THEN pc[x] = "imported" ELSE k \in byImport
           /\ Exists(new[k]) /\ ~Exists(loaded[x][k]) => ~Exists(recs[k])
           /\ Exists(loaded[x][k]) => Exists(recs[k]) /\ Exists(new[k])
           /\ \A y \in Sessions : Exists(loaded'[y][k])
                  => loaded'[y][k] = loaded[y][k] /\ Exists(recs[k])
  <1>1. recs'[k] = Flush(recs[k], loaded[x][k], new[k])
    BY DEF Commit
  <1>2. Exists(new[k]) \/ new[k] = loaded[x][k]
    BY DEF Makes
  <1>3. recs'[k].status = FlushedStatus(recs[k], loaded[x][k], new[k])
    <2>1. CASE new[k] = loaded[x][k]
      BY <1>1, <2>1 DEF Flush, FlushedStatus
    <2>2. CASE new[k] # loaded[x][k] /\ ~Exists(loaded[x][k])
      BY <1>1, <1>2, <2>2 DEF Flush, FlushedStatus
    <2>3. CASE new[k] # loaded[x][k] /\ Exists(loaded[x][k])
      BY <1>1, <2>3 DEF Flush, FlushedStatus
    <2> QED BY <2>1, <2>2, <2>3
  <1>4. k \in byImport' <=> IF recs'[k].status # recs[k].status
                            THEN pc[x] = "imported" ELSE k \in byImport
    BY DEF Commit, SetByImport
  <1>5. Exists(new[k]) /\ ~Exists(loaded[x][k]) => ~Exists(recs[k])
    BY DEF Commit, InsertsAreNew
  <1>6. Exists(loaded[x][k]) => Exists(recs[k]) /\ Exists(new[k])
    BY <1>2 DEF TypeInv
  <1>7. ASSUME NEW y \in Sessions, Exists(loaded'[y][k])
        PROVE  loaded'[y][k] = loaded[y][k] /\ Exists(recs[k])
    <2>1. loaded' = [loaded EXCEPT ![x] = Nothing]
      BY DEF Commit, GoIdle
    <2>2. y # x
      <3>1. loaded'[x][k] = Absent
        BY <2>1 DEF TypeInv, TypeOK, Nothing
      <3> QED BY <1>7, <3>1, AbsentKept
    <2>3. loaded'[y] = loaded[y]
      BY <2>1, <2>2 DEF TypeInv, TypeOK
    <2> QED BY <1>7, <2>3 DEF TypeInv
  <1> QED BY <1>3, <1>4, <1>5, <1>6, <1>7

(* Evaluations and reviews tell of each status that they mean to set.      *)
LEMMA TrailTold ==
    ASSUME TrailInv, NEW x \in Sessions, NEW new, Makes(x, new), Commit(x, new),
           NEW k \in Keys, pc[x] # "imported",
           told'[k] = IF EvaluationTells(loaded[x][k], new[k])
                      THEN new[k].status ELSE told[k]
    PROVE  /\ Trail(recs'[k], told'[k], k \in byImport')
           /\ \A y \in Sessions :
                 k \in byImport' /\ recs'[k].status = "OPEN" /\ Exists(loaded'[y][k])
                     => loaded'[y][k].status = "OPEN"
  <1>1. Trail(recs[k], told[k], k \in byImport)
    BY DEF TrailInv
  <1>2. /\ recs'[k].status = FlushedStatus(recs[k], loaded[x][k], new[k])
        /\ k \in byImport' <=> k \in byImport /\ recs'[k].status = recs[k].status
        /\ Exists(new[k]) /\ ~Exists(loaded[x][k]) => ~Exists(recs[k])
        /\ Exists(loaded[x][k]) => Exists(recs[k]) /\ Exists(new[k])
    BY CommitStatus DEF TrailInv
  <1>3. k \in byImport /\ recs[k].status = "OPEN" /\ Exists(loaded[x][k])
            => loaded[x][k].status = "OPEN"
    BY DEF TrailInv
  <1>4. Trail(recs'[k], told'[k], k \in byImport')
    <2>1. CASE EvaluationTells(loaded[x][k], new[k])
      <3>1. told'[k] = new[k].status /\ recs'[k].status = new[k].status /\ Exists(new[k])
        BY <1>2, <2>1 DEF EvaluationTells, FlushedStatus
      <3>2. k \in byImport' => recs[k].status = "RESOLVED"
        BY <1>1, <1>2, <1>3, <2>1, <3>1 DEF EvaluationTells, Trail, Exists
      <3> QED BY <1>2, <3>1, <3>2 DEF Trail, Exists
    <2>2. CASE ~EvaluationTells(loaded[x][k], new[k])
      <3>1. recs'[k].status = recs[k].status
        BY <1>2, <2>2 DEF EvaluationTells, FlushedStatus
      <3> QED BY <1>1, <1>2, <2>2, <3>1 DEF Trail, Exists
    <2> QED BY <2>1, <2>2
  <1>5. ASSUME NEW y \in Sessions, k \in byImport', recs'[k].status = "OPEN",
               Exists(loaded'[y][k])
        PROVE  loaded'[y][k].status = "OPEN"
    <2>1. loaded'[y][k] = loaded[y][k]
      BY <1>5, CommitStatus DEF TrailInv
    <2> QED BY <1>2, <1>5, <2>1 DEF TrailInv
  <1> QED BY <1>4, <1>5

(* What the activities of an evaluation tell.                              *)
LEMMA TrailEvaluation ==
    ASSUME TrailInv, NEW x \in Sessions, FinishEvaluation(x), NEW k \in Keys
    PROVE  /\ Trail(recs'[k], told'[k], k \in byImport')
           /\ \A y \in Sessions :
                 k \in byImport' /\ recs'[k].status = "OPEN" /\ Exists(loaded'[y][k])
                     => loaded'[y][k].status = "OPEN"
  <1>1. PICK quotes \in [RuleKeys -> Quotes] :
           /\ Commit(x, EvaluationOf(x, quotes))
           /\ told' = [j \in Keys |->
                IF EvaluationTells(loaded[x][j], EvaluationOf(x, quotes)[j])
                THEN EvaluationOf(x, quotes)[j].status ELSE told[j]]
    BY DEF FinishEvaluation, EvaluationOf, Quotes
  <1> DEFINE new == EvaluationOf(x, quotes)
  <1>2. Makes(x, new)
    BY EvaluationMakes DEF TrailInv
  <1>3. told'[k] = IF EvaluationTells(loaded[x][k], new[k]) THEN new[k].status ELSE told[k]
    BY <1>1
  <1>4. Commit(x, new) /\ pc[x] # "imported"
    BY <1>1 DEF FinishEvaluation
  <1> HIDE DEF new
  <1> QED BY <1>2, <1>3, <1>4, TrailTold

(* A review tells what it was asked for, which is not what it has read.    *)
LEMMA TrailReview ==
    ASSUME TrailInv, NEW x \in Sessions, FinishReview(x), NEW k \in Keys
    PROVE  /\ Trail(recs'[k], told'[k], k \in byImport')
           /\ \A y \in Sessions :
                 k \in byImport' /\ recs'[k].status = "OPEN" /\ Exists(loaded'[y][k])
                     => loaded'[y][k].status = "OPEN"
  <1>1. pc[x] = "reviewing" /\ Commit(x, ReviewOf(x))
    BY FinishReviewCommits DEF TrailInv
  <1> DEFINE new == ReviewOf(x)
  <1>2. /\ Makes(x, new)
        /\ k # review[x].key => new[k] = loaded[x][k]
        /\ k = review[x].key => new[k].status = review[x].to
    BY <1>1, ReviewMakes DEF TrailInv
  <1>3. /\ review[x].key \in Keys /\ review[x].to \in Statuses
        /\ Exists(loaded[x][review[x].key])
        /\ review[x].to # loaded[x][review[x].key].status
    BY <1>1 DEF TrailInv, TypeInv, ReviewsChange
  <1>4. Commit(x, new)
    BY <1>1
  <1> HIDE DEF new
  <1>5. told'[k] = IF k = review[x].key THEN review[x].to ELSE told[k]
    BY DEF FinishReview, TrailInv, TypeInv, TypeOK
  <1>6. told'[k] = IF EvaluationTells(loaded[x][k], new[k]) THEN new[k].status ELSE told[k]
    <2>1. CASE k = review[x].key
      BY <1>2, <1>3, <1>5, <2>1 DEF EvaluationTells, Exists, Statuses
    <2>2. CASE k # review[x].key
      BY <1>2, <1>5, <2>2 DEF EvaluationTells
    <2> QED BY <2>1, <2>2
  <1> QED BY <1>1, <1>2, <1>4, <1>6, TrailTold

(* An import tells nothing: it keeps a status, resolves, or opens.         *)
LEMMA TrailImport ==
    ASSUME TrailInv, NEW x \in Sessions, FinishImport(x), NEW k \in Keys
    PROVE  /\ Trail(recs'[k], told'[k], k \in byImport')
           /\ \A y \in Sessions :
                 k \in byImport' /\ recs'[k].status = "OPEN" /\ Exists(loaded'[y][k])
                     => loaded'[y][k].status = "OPEN"
  <1>1. PICK a \in [completed: SUBSET External, findings: SUBSET Offers] :
           Commit(x, ImportOf(x, a))
    BY FinishImportCommits DEF TrailInv
  <1> DEFINE new == ImportOf(x, a)
  <1>2. Makes(x, new) /\ Imports(new[k], loaded[x][k])
    BY ImportMakes DEF TrailInv
  <1>3. Commit(x, new) /\ pc[x] = "imported" /\ told'[k] = told[k]
    BY <1>1 DEF FinishImport
  <1> HIDE DEF new
  <1>4. Trail(recs[k], told[k], k \in byImport)
    BY DEF TrailInv
  <1>5. /\ recs'[k].status = FlushedStatus(recs[k], loaded[x][k], new[k])
        /\ k \in byImport' <=> k \in byImport \/ recs'[k].status # recs[k].status
        /\ Exists(new[k]) /\ ~Exists(loaded[x][k]) => ~Exists(recs[k])
        /\ Exists(loaded[x][k]) => Exists(recs[k]) /\ Exists(new[k])
    BY <1>2, <1>3, CommitStatus DEF TrailInv
  <1>6. \/ recs'[k].status = recs[k].status
        \/ Exists(recs'[k]) /\ recs'[k].status = "RESOLVED"
        \/ ~Exists(recs[k]) /\ recs'[k].status = "OPEN"
    BY <1>2, <1>5 DEF Imports, FlushedStatus, Exists
  <1>7. Trail(recs'[k], told'[k], k \in byImport')
    BY <1>3, <1>4, <1>5, <1>6 DEF Trail, Exists
  <1>8. ASSUME NEW y \in Sessions, k \in byImport', recs'[k].status = "OPEN",
               Exists(loaded'[y][k])
        PROVE  loaded'[y][k].status = "OPEN"
    <2>1. loaded'[y][k] = loaded[y][k] /\ Exists(recs[k])
      BY <1>2, <1>3, <1>8, CommitStatus DEF TrailInv
    <2>2. recs[k].status = "OPEN"
      BY <1>6, <1>8, <2>1
    <2>3. k \in byImport
      BY <1>5, <1>8, <2>2
    <2> QED BY <1>8, <2>1, <2>2, <2>3 DEF TrailInv
  <1> QED BY <1>7, <1>8

(* Reviews are asked for what differs from the status that was read.       *)
LEMMA ReviewsChangeStep ==
    ASSUME TypeInv, ReviewsChange, [Next]_vars
    PROVE  ReviewsChange'
  <1> SUFFICES ASSUME NEW x \in Sessions, pc'[x] = "reviewing"
               PROVE  review'[x].to # loaded'[x][review'[x].key].status
    BY DEF ReviewsChange
  <1>1. CASE UNCHANGED vars \/ \E k \in Keys : InventoryChanges(k)
    BY <1>1 DEF InventoryChanges, vars, sessionVars, ReviewsChange
  <1>2. ASSUME NEW y \in Sessions,
               \/ StartEvaluation(y) \/ StartImport(y) \/ Load(y)
               \/ FinishEvaluation(y) \/ FinishImport(y) \/ FinishReview(y) \/ Abort(y)
        PROVE  review'[x].to # loaded'[x][review'[x].key].status
    <2>1. x # y
      BY <1>2 DEF StartEvaluation, StartImport, ReadEvidence, Load, FinishEvaluation,
                  FinishImport, FinishReview, Commit, Abort, GoIdle, TypeInv, TypeOK
    <2>2. pc'[x] = pc[x] /\ loaded'[x] = loaded[x]
      BY <1>2, <2>1, OthersKeep
    <2>3. review'[x] = review[x]
      BY <1>2, <2>1
         DEF StartEvaluation, StartImport, ReadEvidence, Load, FinishEvaluation,
             FinishImport, FinishReview, Commit, Abort, GoIdle, TypeInv, TypeOK
    <2> QED BY <2>2, <2>3 DEF ReviewsChange
  <1>3. ASSUME NEW y \in Sessions, StartReview(y)
        PROVE  review'[x].to # loaded'[x][review'[x].key].status
    <2>1. CASE x # y
      <3>1. /\ pc'[x] = pc[x] /\ loaded'[x] = loaded[x] /\ review'[x] = review[x]
        BY <1>3, <2>1 DEF StartReview, TypeInv, TypeOK
      <3> QED BY <3>1 DEF ReviewsChange
    <2>2. CASE x = y
      <3>1. PICK k \in Keys :
               /\ Exists(recs[k])
               /\ \E to \in StatusTransitions[recs[k].status] :
                     review' = [review EXCEPT ![x] = [key |-> k, to |-> to]]
        BY <1>3, <2>2 DEF StartReview
      <3>2. PICK to \in StatusTransitions[recs[k].status] :
               review' = [review EXCEPT ![x] = [key |-> k, to |-> to]]
        BY <3>1
      <3>3. recs[k].status \in Statuses
        BY <3>1 DEF TypeInv, TypeOK, Exists, Recommendation
      <3>4. to # recs[k].status
        BY <3>2, <3>3 DEF StatusTransitions, Statuses
      <3>5. review'[x] = [key |-> k, to |-> to] /\ loaded'[x] = recs
        BY <1>3, <2>2, <3>2 DEF StartReview, TypeInv, TypeOK
      <3> QED BY <3>4, <3>5
    <2> QED BY <2>1, <2>2
  <1> QED BY <1>1, <1>2, <1>3 DEF Next

(* Every step keeps the trail.                                             *)
LEMMA TrailStep ==
    ASSUME TrailInv, [Next]_vars
    PROVE  TrailInv'
  <1>1. TypeInv' /\ ReviewsChange'
    BY TypeStep, ReviewsChangeStep DEF TrailInv
  <1>2. ASSUME UNCHANGED <<recs, told, byImport>>,
               \A x \in Sessions, k \in Keys :
                  \/ ~Exists(loaded'[x][k])
                  \/ loaded'[x][k] = recs[k] \/ loaded'[x][k] = loaded[x][k]
        PROVE  TrailInv'
    BY <1>1, <1>2 DEF TrailInv
  <1>3. CASE UNCHANGED vars \/ \E k \in Keys : InventoryChanges(k)
    BY <1>2, <1>3 DEF InventoryChanges, vars, sessionVars
  <1>4. ASSUME NEW x \in Sessions, StartEvaluation(x) \/ StartImport(x)
        PROVE  TrailInv'
    BY <1>2, <1>4 DEF StartEvaluation, StartImport, ReadEvidence
  <1>5. ASSUME NEW x \in Sessions, Load(x) \/ StartReview(x)
        PROVE  TrailInv'
    BY <1>2, <1>5 DEF Load, StartReview, TrailInv, TypeInv, TypeOK
  <1>6. ASSUME NEW x \in Sessions, Abort(x)
        PROVE  TrailInv'
    <2>1. UNCHANGED <<recs, told, byImport>> /\ loaded' = [loaded EXCEPT ![x] = Nothing]
      BY <1>6 DEF Abort, GoIdle
    <2>2. \A k \in Keys : Nothing[k] = Absent
      BY DEF Nothing
    <2> QED BY <1>2, <2>1, <2>2, AbsentKept DEF TrailInv, TypeInv, TypeOK
  <1>7. ASSUME NEW x \in Sessions,
               FinishEvaluation(x) \/ FinishImport(x) \/ FinishReview(x)
        PROVE  TrailInv'
    <2>1. \A k \in Keys :
             /\ Trail(recs'[k], told'[k], k \in byImport')
             /\ \A y \in Sessions :
                   k \in byImport' /\ recs'[k].status = "OPEN" /\ Exists(loaded'[y][k])
                       => loaded'[y][k].status = "OPEN"
      BY <1>7, TrailEvaluation, TrailImport, TrailReview
    <2> QED BY <1>1, <2>1 DEF TrailInv
  <1> QED BY <1>3, <1>4, <1>5, <1>6, <1>7 DEF Next

(* The activities tell the status of a recommendation unless an import was *)
(* the last to set it, and then they miss only that it was created or      *)
(* resolved, however many sessions overlap.                                *)
THEOREM TrailMissesOnlyImportsHolds ==
    Spec => []TrailMissesOnlyImports
  <1>1. TrailInv /\ [Next]_vars => TrailInv'
    BY TrailStep
  <1>2. TrailInv => TrailMissesOnlyImports
    BY DEF TrailInv, TrailMissesOnlyImports, Trail
  <1> QED BY <1>1, <1>2, TrailInit, PTL DEF Spec
-----------------------------------------------------------------------------
(* Sums over finite sets, without induction over an operator: a property   *)
(* of the subsets of a finite set that passes from the strict subsets of   *)
(* each to the set itself is one of all of them.                           *)
LEMMA SetInduction ==
  ASSUME NEW S, IsFiniteSet(S), NEW Good,
         \A s \in SUBSET S : (\A t \in SUBSET s : t # s => t \in Good) => s \in Good
  PROVE  \A s \in SUBSET S : s \in Good
  <1> DEFINE Bad == {s \in SUBSET S : s \notin Good}
  <1>1. Bad \subseteq FiniteSubsetsOf(S)
    BY FS_Subset DEF FiniteSubsetsOf
  <1>2. SUFFICES ASSUME Bad # {} PROVE FALSE
    OBVIOUS
  <1> HIDE DEF Bad
  <1>3. PICK s \in Bad : \A t \in Bad : <<t, s>> \notin StrictSubsetOrdering(S)
    BY <1>1, <1>2, FS_StrictSubsetOrderingWellFounded, WFMin
  <1>4. \A t \in SUBSET s : t # s => t \in Good
    BY <1>3 DEF StrictSubsetOrdering, Bad
  <1> QED
    BY <1>3, <1>4 DEF Bad

Pick(s) == CHOOSE x \in s : TRUE

LEMMA PickIn == \A s : s # {} => Pick(s) \in s
  BY DEF Pick

IsSum(it, S, g) ==
    it = [s \in SUBSET S |-> IF s = {} THEN 0
                             ELSE g[Pick(s)] + it[s \ {Pick(s)}]]

LEMMA SumsAgree ==
  ASSUME NEW S, NEW T, NEW g, NEW h, NEW i, NEW j
  PROVE  /\ IsFiniteSet(T) /\ T \subseteq S
         /\ IsSum(i, S, g) /\ IsSum(j, T, h)
         /\ (\A x \in T : g[x] = h[x])
         => \A s \in SUBSET T : i[s] = j[s]
  <1> SUFFICES ASSUME IsFiniteSet(T), T \subseteq S,
                      IsSum(i, S, g), IsSum(j, T, h),
                      \A x \in T : g[x] = h[x]
               PROVE  \A s \in SUBSET T : i[s] = j[s]
    OBVIOUS
  <1> DEFINE Good == {s \in SUBSET T : i[s] = j[s]}
  <1>1. ASSUME NEW s \in SUBSET T, \A t \in SUBSET s : t # s => t \in Good
        PROVE  i[s] = j[s]
    <2>1. CASE s = {}
      BY <2>1 DEF IsSum
    <2>2. CASE s # {}
      <3> DEFINE t == s \ {Pick(s)}
      <3>1. Pick(s) \in T /\ t \in SUBSET s /\ t # s
        BY <2>2, PickIn
      <3>2. i[t] = j[t]
        BY <1>1, <3>1
      <3>3. s \in SUBSET S
        OBVIOUS
      <3>4. i[s] = g[Pick(s)] + i[t]
        BY <2>2, <3>3 DEF IsSum
      <3>5. j[s] = h[Pick(s)] + j[t]
        BY <2>2 DEF IsSum
      <3> QED
        BY <3>1, <3>2, <3>4, <3>5
    <2> QED
      BY <2>1, <2>2
  <1>2. \A s \in SUBSET T : (\A t \in SUBSET s : t # s => t \in Good) => s \in Good
    BY <1>1
  <1> HIDE DEF Good
  <1>3. \A s \in SUBSET T : s \in Good
    BY <1>2, SetInduction
  <1> QED
    BY <1>3 DEF Good

LEMMA PartSumsAgree ==
  ASSUME NEW S, NEW T, IsFiniteSet(T), T \subseteq S, NEW g,
         NEW i, IsSum(i, S, g), NEW j, IsSum(j, T, g)
  PROVE  \A s \in SUBSET T : i[s] = j[s]
  <1>1. \A x \in T : g[x] = g[x]
    OBVIOUS
  <1> QED
    BY <1>1, SumsAgree

LEMMA SumExists ==
  ASSUME NEW S, IsFiniteSet(S), NEW g
  PROVE  \E it : IsSum(it, S, g)
  <1> DEFINE Good == {s \in SUBSET S : \E it : IsSum(it, s, g)}
             Of(s) == CHOOSE it : IsSum(it, s, g)
             V(s) == Of(s)[s]
  <1>1. ASSUME NEW s \in SUBSET S, \A t \in SUBSET s : t # s => t \in Good
        PROVE  \E it : IsSum(it, s, g)
    <2>1. \A t \in SUBSET s : t # s => IsSum(Of(t), t, g)
      BY <1>1
    <2>2. ASSUME NEW t \in SUBSET s, t # s, t # {}
          PROVE  V(t) = g[Pick(t)] + V(t \ {Pick(t)})
      <3> DEFINE w == t \ {Pick(t)}
      <3>1. /\ w \in SUBSET s /\ w # s /\ w \subseteq t
            /\ IsFiniteSet(w)
        BY <2>2, PickIn, FS_Subset
      <3>2. IsSum(Of(t), t, g) /\ IsSum(Of(w), w, g)
        BY <2>1, <2>2, <3>1
      <3> HIDE DEF Of, w
      <3>3. \A z \in SUBSET w : Of(t)[z] = Of(w)[z]
        <4>1. w \subseteq t /\ IsFiniteSet(w)
          BY <3>1
        <4> QED
          BY <3>2, <4>1, PartSumsAgree
      <3>4. Of(t)[t] = g[Pick(t)] + Of(t)[w]
        BY <2>2, <3>2 DEF IsSum, w
      <3> QED
        BY <3>3, <3>4 DEF w
    <2>3. {} # s => V({}) = 0
      BY <2>1 DEF IsSum
    <2> HIDE DEF Of, V, Good
    <2> DEFINE it == [t \in SUBSET s |-> IF t = {} THEN 0
                                         ELSE g[Pick(t)] + V(t \ {Pick(t)})]
    <2>4. ASSUME NEW t \in SUBSET s, t # {}
          PROVE  it[t] = g[Pick(t)] + it[t \ {Pick(t)}]
      <3> DEFINE w == t \ {Pick(t)}
      <3>1. w \in SUBSET s /\ w # s
        BY <2>4, PickIn
      <3>2. it[w] = V(w)
        BY <2>2, <2>3, <3>1
      <3>3. it[t] = g[Pick(t)] + V(w)
        BY <2>4
      <3> QED
        BY <3>2, <3>3
    <2>5. it[{}] = 0
      OBVIOUS
    <2>6. it = [t \in SUBSET s |-> it[t]]
      OBVIOUS
    <2> HIDE DEF it
    <2>7. IsSum(it, s, g)
      <3>1. \A t \in SUBSET s : it[t] = IF t = {} THEN 0
                                        ELSE g[Pick(t)] + it[t \ {Pick(t)}]
        BY <2>4, <2>5
      <3> QED
        BY <2>6, <3>1 DEF IsSum
    <2> QED
      BY <2>7
  <1>2. \A s \in SUBSET S : (\A t \in SUBSET s : t # s => t \in Good) => s \in Good
    BY <1>1
  <1> HIDE DEF Good
  <1>3. \A s \in SUBSET S : s \in Good
    BY <1>2, SetInduction
  <1> QED
    BY <1>3 DEF Good

LEMMA SumIs ==
  ASSUME NEW S, IsFiniteSet(S), NEW g
  PROVE  \E it : IsSum(it, S, g) /\ SumFunctionOnSet(g, S) = it[S]
  <1> DEFINE iter == CHOOSE it : IsSum(it, S, g)
  <1>1. IsSum(iter, S, g)
    BY SumExists
  <1>2. SumFunctionOnSet(g, S) = iter[S]
    BY DEF SumFunctionOnSet, FoldFunctionOnSet, MapThenFoldSet, IsSum, Pick
  <1> QED
    BY <1>1, <1>2

LEMMA SumEmpty == ASSUME NEW g PROVE SumFunctionOnSet(g, {}) = 0
  <1>1. IsFiniteSet({})
    BY FS_EmptySet
  <1>2. PICK it : IsSum(it, {}, g) /\ SumFunctionOnSet(g, {}) = it[{}]
    BY <1>1, SumIs
  <1> QED
    BY <1>2 DEF IsSum

LEMMA SumPick ==
  ASSUME NEW S, IsFiniteSet(S), S # {}, NEW g
  PROVE  SumFunctionOnSet(g, S)
           = g[Pick(S)] + SumFunctionOnSet(g, S \ {Pick(S)})
  <1> DEFINE w == S \ {Pick(S)}
  <1>1. w \subseteq S /\ IsFiniteSet(w)
    BY FS_Subset
  <1> HIDE DEF w
  <1>2. PICK i : IsSum(i, S, g) /\ SumFunctionOnSet(g, S) = i[S]
    BY SumIs
  <1>3. PICK j : IsSum(j, w, g) /\ SumFunctionOnSet(g, w) = j[w]
    BY <1>1, SumIs
  <1>4. \A x \in w : g[x] = g[x]
    OBVIOUS
  <1>5. \A s \in SUBSET w : i[s] = j[s]
    BY <1>1, <1>2, <1>3, <1>4, SumsAgree
  <1>6. i[S] = g[Pick(S)] + i[w]
    BY <1>2 DEF IsSum, w
  <1> QED
    BY <1>2, <1>3, <1>5, <1>6 DEF w

LEMMA SumSame ==
  ASSUME NEW S, IsFiniteSet(S), NEW g, NEW h, \A x \in S : g[x] = h[x]
  PROVE  SumFunctionOnSet(g, S) = SumFunctionOnSet(h, S)
  <1>1. PICK i : IsSum(i, S, g) /\ SumFunctionOnSet(g, S) = i[S]
    BY SumIs
  <1>2. PICK j : IsSum(j, S, h) /\ SumFunctionOnSet(h, S) = j[S]
    BY SumIs
  <1>3. \A s \in SUBSET S : i[s] = j[s]
    BY <1>1, <1>2, SumsAgree
  <1> QED
    BY <1>1, <1>2, <1>3

(* A sum of whole numbers is one; where none is negative, nor is the sum.  *)
LEMMA SumWhole ==
  ASSUME NEW S, IsFiniteSet(S), NEW g
  PROVE  /\ (\A x \in S : g[x] \in Int) => SumFunctionOnSet(g, S) \in Int
         /\ (\A x \in S : g[x] \in Nat) => SumFunctionOnSet(g, S) \in Nat
  <1> DEFINE Good == {s \in SUBSET S :
                 /\ (\A x \in s : g[x] \in Int) => SumFunctionOnSet(g, s) \in Int
                 /\ (\A x \in s : g[x] \in Nat) => SumFunctionOnSet(g, s) \in Nat}
  <1>1. ASSUME NEW s \in SUBSET S, \A t \in SUBSET s : t # s => t \in Good
        PROVE  s \in Good
    <2>1. CASE s = {}
      BY <2>1, SumEmpty
    <2>2. CASE s # {}
      <3> DEFINE t == s \ {Pick(s)}
      <3>1. Pick(s) \in s /\ t \in SUBSET s /\ t # s
        BY <2>2, PickIn
      <3>2. t \in Good
        BY <1>1, <3>1
      <3>3. SumFunctionOnSet(g, s) = g[Pick(s)] + SumFunctionOnSet(g, t)
        BY <2>2, SumPick, FS_Subset
      <3> QED
        BY <3>1, <3>2, <3>3
    <2> QED
      BY <2>1, <2>2
  <1>2. \A s \in SUBSET S : (\A t \in SUBSET s : t # s => t \in Good) => s \in Good
    BY <1>1
  <1> HIDE DEF Good
  <1>3. \A s \in SUBSET S : s \in Good
    BY <1>2, SetInduction
  <1> QED
    BY <1>3 DEF Good

(* Any element may be added last.                                          *)
LEMMA SumRemove ==
  ASSUME NEW S, IsFiniteSet(S), NEW g, \A x \in S : g[x] \in Int,
         NEW y \in S
  PROVE  SumFunctionOnSet(g, S) = g[y] + SumFunctionOnSet(g, S \ {y})
  <1> DEFINE Sum(s) == SumFunctionOnSet(g, s)
             Good == {s \in SUBSET S : \A x \in s : Sum(s) = g[x] + Sum(s \ {x})}
  <1>0. \A s \in SUBSET S : IsFiniteSet(s) /\ Sum(s) \in Int
    <2> SUFFICES ASSUME NEW s \in SUBSET S PROVE IsFiniteSet(s) /\ Sum(s) \in Int
      OBVIOUS
    <2>1. IsFiniteSet(s) /\ \A x \in s : g[x] \in Int
      BY FS_Subset
    <2> QED
      BY <2>1, SumWhole
  <1>1. ASSUME NEW s \in SUBSET S, \A t \in SUBSET s : t # s => t \in Good,
               NEW x \in s
        PROVE  Sum(s) = g[x] + Sum(s \ {x})
    <2> DEFINE p == Pick(s)
               both == s \ {p, x}
    <2>1. p \in s /\ Sum(s) = g[p] + Sum(s \ {p})
      BY <1>0, PickIn, SumPick
    <2> HIDE DEF p
    <2>2. CASE x = p
      BY <2>1, <2>2
    <2>3. CASE x # p
      <3>1. s \ {p} \in Good /\ s \ {x} \in Good
        BY <1>1, <2>1
      <3>2. /\ Sum(s \ {p}) = g[x] + Sum((s \ {p}) \ {x})
            /\ Sum(s \ {x}) = g[p] + Sum((s \ {x}) \ {p})
        BY <2>1, <2>3, <3>1
      <3>3. (s \ {p}) \ {x} = both /\ (s \ {x}) \ {p} = both
        OBVIOUS
      <3>4. both \in SUBSET S
        OBVIOUS
      <3>5. /\ g[x] \in Int /\ g[p] \in Int /\ Sum(both) \in Int
        BY <1>0, <2>1, <3>4
      <3> HIDE DEF both, Sum
      <3>6. /\ Sum(s \ {p}) = g[x] + Sum(both)
            /\ Sum(s \ {x}) = g[p] + Sum(both)
        BY <3>2, <3>3
      <3> QED
        BY <2>1, <3>5, <3>6
    <2> QED
      BY <2>2, <2>3
  <1>2. \A s \in SUBSET S : (\A t \in SUBSET s : t # s => t \in Good) => s \in Good
    BY <1>1
  <1>3. S \in Good => Sum(S) = g[y] + Sum(S \ {y})
    OBVIOUS
  <1> HIDE DEF Good
  <1>4. \A s \in SUBSET S : s \in Good
    BY <1>2, SetInduction
  <1> QED
    BY <1>3, <1>4

LEMMA SumZero ==
  ASSUME NEW S, IsFiniteSet(S), NEW g, \A x \in S : g[x] = 0
  PROVE  SumFunctionOnSet(g, S) = 0
  <1> DEFINE Good == {s \in SUBSET S : SumFunctionOnSet(g, s) = 0}
  <1>1. ASSUME NEW s \in SUBSET S, \A t \in SUBSET s : t # s => t \in Good
        PROVE  s \in Good
    <2>1. CASE s = {}
      BY <2>1, SumEmpty
    <2>2. CASE s # {}
      <3> DEFINE t == s \ {Pick(s)}
      <3>1. Pick(s) \in s /\ t \in SUBSET s /\ t # s
        BY <2>2, PickIn
      <3>2. t \in Good
        BY <1>1, <3>1
      <3>3. SumFunctionOnSet(g, s) = g[Pick(s)] + SumFunctionOnSet(g, t)
        BY <2>2, SumPick, FS_Subset
      <3> QED
        BY <3>1, <3>2, <3>3
    <2> QED
      BY <2>1, <2>2
  <1>2. \A s \in SUBSET S : (\A t \in SUBSET s : t # s => t \in Good) => s \in Good
    BY <1>1
  <1> HIDE DEF Good
  <1>3. \A s \in SUBSET S : s \in Good
    BY <1>2, SetInduction
  <1> QED
    BY <1>3 DEF Good

(* Sums whose terms differ in one place differ by as much.                 *)
LEMMA SumDiffers ==
  ASSUME NEW S, IsFiniteSet(S), NEW g, NEW h, NEW y \in S,
         \A x \in S : g[x] \in Int /\ h[x] \in Int,
         \A x \in S : x # y => g[x] = h[x]
  PROVE  SumFunctionOnSet(h, S) = SumFunctionOnSet(g, S) + h[y] - g[y]
  <1> DEFINE w == S \ {y}
  <1>1. IsFiniteSet(w) /\ (\A x \in w : g[x] = h[x]) /\ \A x \in w : g[x] \in Int
    BY FS_Subset
  <1>2. /\ SumFunctionOnSet(g, S) = g[y] + SumFunctionOnSet(g, w)
        /\ SumFunctionOnSet(h, S) = h[y] + SumFunctionOnSet(h, w)
    BY SumRemove
  <1> HIDE DEF w
  <1>3. SumFunctionOnSet(g, w) = SumFunctionOnSet(h, w)
    BY <1>1, SumSame
  <1>4. SumFunctionOnSet(g, w) \in Int /\ g[y] \in Int /\ h[y] \in Int
    BY <1>1, SumWhole
  <1> QED
    BY <1>2, <1>3, <1>4
-----------------------------------------------------------------------------
(* The estimates.  Everything that an evaluation knows of the prices comes *)
(* from the price list as it is:  what is read and what is not make up the *)
(* products that were asked for, and a remembered quote is the accepted    *)
(* dimensions of all of them.  A resource that was looked at shows what    *)
(* the whole list makes of it, unless a call failed.                       *)
EstimatesTypes ==
    /\ catalogue \in Catalogues
    /\ todo \subseteq Resources
    /\ errors \in Nat
    /\ DOMAIN cache = {QuoteKey(r) : r \in Resources}
    /\ DOMAIN outcome = Resources

Fetching ==
    asking # None => /\ asking \in todo
                     /\ RuleMatches(asking)
                     /\ read \cup unread = Products(asking)

Remembered ==
    \A r \in Resources : cache[QuoteKey(r)] # {} =>
        /\ Accepted(r.type, Products(r))
        /\ cache[QuoteKey(r)] = Dimensions(r.type, Products(r))

(* What the whole list makes of a resource.                                *)
FromTheList(r) ==
    IF Accepted(r.type, Products(r))
    THEN Calculated(r, Dimensions(r.type, Products(r))) ELSE NoPrice

Looked ==
    \A r \in Resources :
        /\ r \in todo => outcome[r] = Unseen
        /\ r \notin todo =>
              \/ ~RuleMatches(r) /\ outcome[r] = NotEligible
              \/ RuleMatches(r) /\ outcome[r] = FromTheList(r)
              \/ RuleMatches(r) /\ outcome[r] = NoPrice /\ errors > 0

EstimatesInv == EstimatesTypes /\ Fetching /\ Remembered /\ Looked

(* The provider's key stands for the type of the resource as well.         *)
LEMMA SameKey ==
  ASSUME NEW r, NEW s, QuoteKey(r) = QuoteKey(s)
  PROVE  r.type = s.type /\ Products(r) = Products(s)
  BY DEF QuoteKey, Products

THEOREM EstimatesInvHolds == EstimatesSpec => []EstimatesInv
  <1>1. EstimatesInit => EstimatesInv
    <2> SUFFICES ASSUME EstimatesInit PROVE EstimatesInv
      OBVIOUS
    <2> USE DEF EstimatesInit
    <2>1. EstimatesTypes
      BY DEF EstimatesTypes
    <2>2. Fetching
      BY DEF Fetching
    <2>3. Remembered
      BY DEF Remembered
    <2>4. Looked
      BY DEF Looked
    <2> QED
      BY <2>1, <2>2, <2>3, <2>4 DEF EstimatesInv
  <1>2. EstimatesInv /\ [EstimatesNext]_estimateVars => EstimatesInv'
    <2> SUFFICES ASSUME EstimatesInv, [EstimatesNext]_estimateVars PROVE EstimatesInv'
      OBVIOUS
    <2> USE EstimatesAssumption
    <2>0. EstimatesTypes /\ Fetching /\ Remembered /\ Looked
      BY DEF EstimatesInv
    <2>a. ASSUME catalogue' = catalogue, errors' \in Nat, errors' >= errors
          PROVE  \A r \in Resources :
                    /\ Products(r)' = Products(r)
                    /\ FromTheList(r)' = FromTheList(r)
                    /\ errors > 0 => errors' > 0
      BY <2>a, <2>0 DEF Products, FromTheList, EstimatesTypes
    (* One resource is shown what the list, or a failed call, makes of it. *)
    <2>b. ASSUME NEW r \in todo, NEW what, catalogue' = catalogue,
                 errors' \in Nat, errors' >= errors,
                 DOMAIN cache' = DOMAIN cache,
                 Shown(r, what), Remembered',
                 \/ ~RuleMatches(r) /\ what = NotEligible
                 \/ RuleMatches(r) /\ what = FromTheList(r)
                 \/ RuleMatches(r) /\ what = NoPrice /\ errors' > 0
          PROVE  EstimatesInv'
      <3>1. EstimatesTypes'
        BY <2>0, <2>b DEF EstimatesTypes, Shown
      <3>2. Fetching'
        BY <2>b DEF Fetching, Shown
      <3>3. Looked'
        <4> SUFFICES ASSUME NEW s \in Resources
                     PROVE  /\ s \in todo' => outcome'[s] = Unseen
                            /\ s \notin todo' =>
                                 \/ ~RuleMatches(s) /\ outcome'[s] = NotEligible
                                 \/ RuleMatches(s) /\ outcome'[s] = FromTheList(s)'
                                 \/ /\ RuleMatches(s)
                                    /\ outcome'[s] = NoPrice /\ errors' > 0
          BY DEF Looked
        <4>1. FromTheList(s)' = FromTheList(s) /\ (errors > 0 => errors' > 0)
          BY <2>a, <2>b
        <4>2. CASE s = r
          BY <4>1, <4>2, <2>0, <2>b DEF Shown, EstimatesTypes
        <4>3. CASE s # r
          BY <4>1, <4>3, <2>0, <2>b DEF Shown, EstimatesTypes, Looked
        <4> QED
          BY <4>2, <4>3
      <3> QED
        BY <2>b, <3>1, <3>2, <3>3 DEF EstimatesInv
    <2>c. ASSUME catalogue' = catalogue, cache' = cache PROVE Remembered'
      BY <2>0, <2>c DEF Remembered, Products
    <2>d. ASSUME catalogue' = catalogue, errors' = errors, outcome' = outcome,
                 todo' = todo
          PROVE  Looked'
      BY <2>0, <2>a, <2>d DEF Looked, EstimatesTypes
    <2>1. ASSUME NEW r \in Resources, PassBy(r) PROVE EstimatesInv'
      <3>1. Remembered'
        BY <2>1, <2>c DEF PassBy
      <3> QED
        BY <2>0, <2>1, <2>b, <3>1 DEF PassBy, EstimatesTypes
    <2>2. ASSUME NEW r \in Resources, UseCached(r) PROVE EstimatesInv'
      <3>1. Remembered'
        BY <2>2, <2>c DEF UseCached
      <3>2. Calculated(r, cache[QuoteKey(r)]) = FromTheList(r)
        BY <2>0, <2>2 DEF UseCached, Remembered, FromTheList
      <3> QED
        BY <2>0, <2>2, <2>b, <3>1, <3>2 DEF UseCached, EstimatesTypes
    <2>3. ASSUME NEW r \in Resources, Ask(r) PROVE EstimatesInv'
      <3>1. EstimatesTypes'
        BY <2>0, <2>3 DEF Ask, EstimatesTypes
      <3>2. Fetching'
        BY <2>3 DEF Ask, Fetching, Products
      <3>3. Remembered' /\ Looked'
        BY <2>3, <2>c, <2>d DEF Ask
      <3> QED
        BY <3>1, <3>2, <3>3 DEF EstimatesInv
    <2>4. CASE ReadPage
      <3>1. EstimatesTypes'
        BY <2>0, <2>4 DEF ReadPage, EstimatesTypes
      <3>2. Fetching'
        <4>1. PICK page \in SUBSET unread : /\ read' = read \cup page
                                           /\ unread' = unread \ page
          BY <2>4 DEF ReadPage
        <4>2. read' \cup unread' = read \cup unread
          BY <4>1
        <4> QED
          BY <2>0, <2>4, <4>2 DEF ReadPage, Fetching, Products
      <3>3. Remembered' /\ Looked'
        BY <2>4, <2>c, <2>d DEF ReadPage
      <3> QED
        BY <3>1, <3>2, <3>3 DEF EstimatesInv
    <2>5. CASE ReadRaises
      <3>1. Remembered'
        BY <2>5, <2>c DEF ReadRaises
      <3>2. asking \in todo /\ RuleMatches(asking)
        BY <2>0, <2>5 DEF ReadRaises, Fetching
      <3>3. errors' \in Nat /\ errors' >= errors /\ errors' > 0
        BY <2>0, <2>5 DEF ReadRaises, EstimatesTypes
      <3> QED
        BY <2>5, <2>b, <3>1, <3>2, <3>3 DEF ReadRaises
    <2>6. CASE Answer
      <3>1. /\ asking \in todo /\ RuleMatches(asking)
            /\ read = Products(asking)
            /\ asking \in Resources
        BY <2>0, <2>6 DEF Answer, Fetching, EstimatesTypes
      <3>2. CASE Accepted(asking.type, read)
        <4>1. /\ cache' = [cache EXCEPT ![QuoteKey(asking)] =
                                          Dimensions(asking.type, read)]
              /\ Shown(asking, Calculated(asking, Dimensions(asking.type, read)))
              /\ catalogue' = catalogue /\ errors' = errors
          BY <2>6, <3>2 DEF Answer
        <4>2. Calculated(asking, Dimensions(asking.type, read)) = FromTheList(asking)
          BY <3>1, <3>2 DEF FromTheList
        <4>3. Remembered'
          <5> SUFFICES ASSUME NEW s \in Resources, cache'[QuoteKey(s)] # {}
                       PROVE  /\ Accepted(s.type, Products(s)')
                              /\ cache'[QuoteKey(s)] = Dimensions(s.type, Products(s)')
            BY DEF Remembered
          <5>1. Products(s)' = Products(s)
            BY <4>1 DEF Products
          <5>2. CASE QuoteKey(s) = QuoteKey(asking)
            <6>1. s.type = asking.type /\ Products(s) = read
              BY <3>1, <5>2, SameKey
            <6>2. cache'[QuoteKey(s)] = Dimensions(asking.type, read)
              BY <2>0, <4>1, <5>2 DEF EstimatesTypes
            <6> QED
              BY <3>2, <5>1, <6>1, <6>2
          <5>3. CASE QuoteKey(s) # QuoteKey(asking)
            BY <2>0, <4>1, <5>1, <5>3 DEF Remembered, EstimatesTypes
          <5> QED
            BY <5>2, <5>3
        <4> QED
          BY <2>0, <2>b, <3>1, <4>1, <4>2, <4>3 DEF EstimatesTypes
      <3>3. CASE ~Accepted(asking.type, read)
        <4>1. /\ cache' = cache /\ Shown(asking, NoPrice)
              /\ catalogue' = catalogue /\ errors' = errors
          BY <2>6, <3>3 DEF Answer
        <4>2. NoPrice = FromTheList(asking)
          BY <3>1, <3>3 DEF FromTheList
        <4>3. Remembered'
          BY <4>1, <2>c
        <4> QED
          BY <2>0, <2>b, <3>1, <4>1, <4>2, <4>3 DEF EstimatesTypes
      <3> QED
        BY <3>2, <3>3
    <2>7. CASE UNCHANGED estimateVars
      BY <2>0, <2>7, <2>c, <2>d DEF estimateVars, EstimatesInv, EstimatesTypes,
         Fetching, Products
    <2> QED
      BY <2>1, <2>2, <2>3, <2>4, <2>5, <2>6, <2>7 DEF EstimatesNext, Done
  <1> QED
    BY <1>1, <1>2, PTL DEF EstimatesSpec

-----------------------------------------------------------------------------
LEMMA ImageFinite ==
  ASSUME NEW S, IsFiniteSet(S), NEW f
  PROVE  IsFiniteSet({f[x] : x \in S})
  <1> DEFINE T == {f[x] : x \in S}
             g == [x \in S |-> f[x]]
  <1>1. g \in Surjection(S, T)
    BY DEF Surjection
  <1> QED
    BY <1>1, FS_Surjection

(* Where a set of values has one member, all have the same.                *)
LEMMA OneValue ==
  ASSUME NEW S, IsFiniteSet(S), NEW f, NEW T, T = {f[x] : x \in S},
         Cardinality(T) = 1
  PROVE  \A x, y \in S : f[x] = f[y]
  <1>1. IsFiniteSet(T)
    BY ImageFinite
  <1>2. PICK v : T = {v}
    BY <1>1, FS_Singleton
  <1> QED
    BY <1>2

LEMMA FromZeroOn ==
  ASSUME NEW Good, 0 \in Good, \A n \in Nat : n \in Good => n + 1 \in Good
  PROVE  \A n \in Nat : n \in Good
  <1> DEFINE Bad == {n \in Nat : n \notin Good}
  <1>1. SUFFICES ASSUME Bad # {} PROVE FALSE
    OBVIOUS
  <1>2. Bad \subseteq Nat
    OBVIOUS
  <1> HIDE DEF Bad
  <1>3. PICK n \in Bad : \A m \in Bad : <<m, n>> \notin OpToRel(<, Nat)
    BY <1>1, <1>2, NatLessThanWellFounded, WFMin
  <1>4. \A m \in Bad : ~(m < n)
    BY <1>2, <1>3 DEF OpToRel
  <1>5. n \in Nat /\ n \notin Good
    BY <1>3 DEF Bad
  <1>6. n - 1 \in Nat /\ n - 1 < n /\ (n - 1) + 1 = n
    BY <1>5
  <1>7. n - 1 \in Good
    BY <1>4, <1>5, <1>6 DEF Bad
  <1> QED
    BY <1>5, <1>6, <1>7

-----------------------------------------------------------------------------
Tier == [begin: Nat, end: Nat \cup {None}, rate: Nat]

(* What a catalogue's dimensions are, and the tiers they make.             *)
IsTable(ds) ==
    /\ IsFiniteSet(ds)
    /\ \A d \in ds : d.begin \in Nat /\ d.end \in Nat \cup {None} /\ d.rate \in Nat

LEMMA CatalogueIsTable ==
  ASSUME NEW c \in Catalogues, NEW ds \in SUBSET c
  PROVE  IsTable(ds)
  BY EstimatesAssumption, FS_Subset DEF IsTable

LEMMA RatesAreTiers ==
  ASSUME NEW ds, IsTable(ds)
  PROVE  IsFiniteSet(Rates(ds)) /\ Rates(ds) \subseteq Tier
  <1> DEFINE f == [t \in ds |-> [begin |-> t.begin, end |-> t.end, rate |-> t.rate]]
  <1>1. Rates(ds) = {f[t] : t \in ds}
    BY DEF Rates
  <1> HIDE DEF f
  <1>2. IsFiniteSet(Rates(ds))
    BY <1>1, ImageFinite DEF IsTable
  <1> QED
    BY <1>2 DEF IsTable, Tier, Rates

(* A tier takes the units that it begins at or before and ends after.      *)
LEMMA BillableLemma ==
  ASSUME NEW t \in Tier
  PROVE  /\ \A n \in Nat : Billable(n, t) \in Nat
         /\ Billable(0, t) = 0
         /\ \A n \in Nat :
               Billable(n + 1, t) = IF t.begin <= n /\ (t.end = None \/ n < t.end)
                                    THEN Billable(n, t) + 1 ELSE Billable(n, t)
  BY EstimatesAssumption DEF Tier, Billable, AtMost, AtLeast

LEMMA TieredNat ==
  ASSUME NEW ds, IsTable(ds), NEW quantity \in Nat
  PROVE  TieredAmount(quantity, ds) \in Nat
  <1> DEFINE bill == [t \in Rates(ds) |-> Billable(quantity, t) * t.rate]
  <1>1. IsFiniteSet(Rates(ds)) /\ Rates(ds) \subseteq Tier
    BY RatesAreTiers
  <1>2. \A t \in Rates(ds) : Billable(quantity, t) \in Nat /\ t.rate \in Nat
    BY <1>1, BillableLemma DEF Tier
  <1>3. \A m, n \in Nat : m * n \in Nat
    OBVIOUS
  <1>4. \A t \in Rates(ds) : bill[t] \in Nat
    BY <1>2, <1>3
  <1>5. TieredAmount(quantity, ds) = SumFunctionOnSet(bill, Rates(ds))
    BY DEF TieredAmount, SumFunction
  <1> HIDE DEF bill
  <1> QED
    BY <1>1, <1>4, <1>5, SumWhole

LEMMA RequestedLemma ==
  ASSUME NEW r \in Resources, Complete(r)
  PROVE  /\ IsFiniteSet(Requested(r))
         /\ \A c \in Requested(r) : /\ c[1] \in {"address", "storage", "iops", "throughput"}
                                    /\ c[2] \in Nat
  <1> USE EstimatesAssumption
  <1>1. CASE r.type = "elastic_ip"
    <2>1. Requested(r) = {<<"address", Hours>>}
      BY <1>1 DEF Requested
    <2>2. IsFiniteSet(Requested(r))
      BY <2>1, FS_Singleton
    <2>3. \A c \in Requested(r) : c[1] = "address" /\ c[2] = Hours
      BY <2>1
    <2> QED
      BY <2>2, <2>3
  <1>2. CASE r.type # "elastic_ip"
    <2> DEFINE A == {<<"storage", r.size>>}
               B == IF r.class = "gp3" /\ r.iops > FreeIops
                    THEN {<<"iops", r.iops - FreeIops>>} ELSE {}
               C == IF r.class = "gp3" /\ r.throughput > FreeThroughput
                    THEN {<<"throughput", r.throughput - FreeThroughput>>} ELSE {}
               D == IF r.class \in {"io1", "io2"} THEN {<<"iops", r.iops>>} ELSE {}
    <2>1. Requested(r) = A \cup B \cup C \cup D
      BY <1>2 DEF Requested
    <2>2. IsFiniteSet(A) /\ IsFiniteSet(B) /\ IsFiniteSet(C) /\ IsFiniteSet(D)
      BY FS_Singleton, FS_EmptySet
    <2>3. r.type = "ebs_volume" /\ r.size \in Nat
      BY <1>2 DEF Complete
    <2>4. r.class \in {"gp3", "io1", "io2"} => r.iops \in Nat
      BY <2>3 DEF Complete
    <2>5. r.class = "gp3" => r.throughput \in Nat
      BY <2>3 DEF Complete
    <2>6. \A c \in A : c[1] = "storage" /\ c[2] \in Nat
      BY <2>3
    <2>7. \A c \in B : c[1] = "iops" /\ c[2] \in Nat
      BY <2>4
    <2>8. \A c \in C : c[1] = "throughput" /\ c[2] \in Nat
      BY <2>5
    <2>9. \A c \in D : c[1] = "iops" /\ c[2] \in Nat
      BY <2>4
    <2> HIDE DEF A, B, C, D
    <2>10. IsFiniteSet(Requested(r))
      <3>1. IsFiniteSet(A \cup B)
        BY <2>2, FS_Union
      <3>2. IsFiniteSet((A \cup B) \cup C)
        BY <2>2, <3>1, FS_Union
      <3>3. IsFiniteSet(((A \cup B) \cup C) \cup D)
        BY <2>2, <3>2, FS_Union
      <3> QED
        BY <2>1, <3>3
    <2> QED
      BY <2>1, <2>6, <2>7, <2>8, <2>9, <2>10
  <1> QED
    BY <1>1, <1>2

LEMMA PriceIsNatural ==
  ASSUME NEW c \in Catalogues, NEW quote \in SUBSET c,
         NEW r \in Resources, Complete(r)
  PROVE  MonthlyPrice(r, quote) \in Nat
  <1> DEFINE part == [p \in Requested(r) |->
                        TieredAmount(p[2], Component(r.type, quote, p[1]))]
  <1>1. \A p \in Requested(r) : part[p] \in Nat
    <2> SUFFICES ASSUME NEW p \in Requested(r)
                 PROVE  TieredAmount(p[2], Component(r.type, quote, p[1])) \in Nat
      OBVIOUS
    <2>1. Component(r.type, quote, p[1]) \in SUBSET c
      BY DEF Component
    <2>2. IsTable(Component(r.type, quote, p[1]))
      BY <2>1, CatalogueIsTable
    <2> QED
      BY <2>2, TieredNat, RequestedLemma
  <1>2. MonthlyPrice(r, quote) = SumFunctionOnSet(part, Requested(r))
    BY DEF MonthlyPrice, SumFunction
  <1> HIDE DEF part
  <1>3. IsFiniteSet(Requested(r))
    BY RequestedLemma
  <1> QED
    BY <1>1, <1>2, <1>3, SumWhole

-----------------------------------------------------------------------------
(* IdleAreJudged, of every set of resources and every finite catalogue:    *)
(* what AWS shows as in use is never priced (the rules of evaluate), and   *)
(* whatever happens to the others, whichever of them filled the provider's *)
(* cache and however the list was cut into pages, an idle resource shows a *)
(* price just where the whole list makes one, unless a call failed.        *)
THEOREM IdleAreJudgedHolds == EstimatesSpec => []IdleAreJudged
  <1>1. EstimatesInv => IdleAreJudged
    <2> SUFFICES ASSUME EstimatesInv, NEW r \in Resources
                 PROVE  /\ outcome[r] >= 0 => /\ r.attachments \in {0, None}
                                              /\ r.association = None
                                              /\ r.type = "elastic_ip" => r.pool = "amazon"
                        /\ todo = {} /\ errors = 0 /\ RuleMatches(r)
                             => (outcome[r] >= 0 <=>
                                   /\ Complete(r)
                                   /\ Accepted(r.type, Products(r))
                                   /\ Priceable(r, Dimensions(r.type, Products(r))))
      BY DEF IdleAreJudged
    <2>0. EstimatesTypes /\ Looked
      BY DEF EstimatesInv
    <2>1. \/ outcome[r] = Unseen /\ r \in todo
          \/ ~RuleMatches(r) /\ outcome[r] = NotEligible
          \/ RuleMatches(r) /\ outcome[r] = FromTheList(r)
          \/ RuleMatches(r) /\ outcome[r] = NoPrice /\ errors > 0
      BY <2>0 DEF Looked
    <2>2. RuleMatches(r) => /\ r.attachments \in {0, None}
                            /\ r.association = None
                            /\ r.type = "elastic_ip" => r.pool = "amazon"
      BY EstimatesAssumption DEF RuleMatches, EligibleVolume, EligibleAddress,
         Attachments, AddressState
    <2>3. FromTheList(r) >= 0 <=>
             /\ Complete(r)
             /\ Accepted(r.type, Products(r))
             /\ Priceable(r, Dimensions(r.type, Products(r)))
      <3> DEFINE quote == Dimensions(r.type, Products(r))
      <3>1. quote \in SUBSET catalogue /\ catalogue \in Catalogues
        BY <2>0 DEF Dimensions, Products, EstimatesTypes
      <3> HIDE DEF quote
      <3>2. Complete(r) => MonthlyPrice(r, quote) \in Nat
        BY <3>1, PriceIsNatural
      <3> QED
        BY <3>2 DEF FromTheList, Calculated, NoPrice, quote
    <2> QED
      BY <2>1, <2>2, <2>3 DEF Unseen, NotEligible, NoPrice
  <1> QED
    BY <1>1, EstimatesInvHolds, PTL

-----------------------------------------------------------------------------
(* The tiers of a table that unit u (from 0) falls in.                     *)
Covering(ds, u) == {t \in Rates(ds) : t.begin <= u /\ (t.end = None \/ u < t.end)}

(* _tiered_amount is the sum over the units where each falls in one tier.  *)
LEMMA TieredByTheUnit ==
  ASSUME NEW ds, IsTable(ds), NEW quantity \in Nat, NEW rate,
         \A u \in 0..(quantity - 1) :
            \E t \in Tier : Covering(ds, u) = {t} /\ rate[u] = t.rate
  PROVE  TieredAmount(quantity, ds) = SumFunctionOnSet(rate, 0..(quantity - 1))
  <1> DEFINE R == Rates(ds)
             bill(n) == [t \in R |-> Billable(n, t) * t.rate]
             Tiers(n) == SumFunctionOnSet(bill(n), R)
             Units(n) == SumFunctionOnSet(rate, 0..(n - 1))
             Good == {n \in Nat : n <= quantity => Tiers(n) = Units(n)}
  <1>1. IsFiniteSet(R) /\ R \subseteq Tier
    BY RatesAreTiers
  <1>2. \A n \in Nat : \A t \in R : bill(n)[t] \in Int
    <2> SUFFICES ASSUME NEW n \in Nat, NEW t \in R PROVE bill(n)[t] \in Int
      OBVIOUS
    <2>1. Billable(n, t) \in Int /\ t.rate \in Int
      BY <1>1, BillableLemma DEF Tier
    <2>2. \A i, j \in Int : i * j \in Int
      OBVIOUS
    <2> QED
      BY <2>1, <2>2
  <1>3. 0 \in Good
    <2>1. \A t \in R : bill(0)[t] = 0
      <3> SUFFICES ASSUME NEW t \in R PROVE Billable(0, t) * t.rate = 0
        OBVIOUS
      <3>1. Billable(0, t) = 0 /\ t.rate \in Nat
        BY <1>1, BillableLemma DEF Tier
      <3> QED
        BY <3>1
    <2>2. 0..(0 - 1) = {}
      OBVIOUS
    <2> HIDE DEF bill, R
    <2>3. Tiers(0) = 0
      BY <1>1, <2>1, SumZero
    <2>4. Units(0) = 0
      BY <2>2, SumEmpty
    <2> QED
      BY <2>3, <2>4
  <1>4. ASSUME NEW n \in Nat, n \in Good, n + 1 <= quantity
        PROVE  Tiers(n + 1) = Units(n + 1)
    <2>1. PICK t \in Tier : Covering(ds, n) = {t} /\ rate[n] = t.rate
      <3>1. n \in 0..(quantity - 1)
        BY <1>4
      <3> QED
        BY <3>1
    <2>2. /\ t \in R /\ t.begin <= n /\ (t.end = None \/ n < t.end)
          /\ \A s \in R : s # t => ~(s.begin <= n /\ (s.end = None \/ n < s.end))
      BY <2>1 DEF Covering
    <2>3. bill(n + 1)[t] = bill(n)[t] + t.rate
      <3>1. /\ Billable(n + 1, t) = Billable(n, t) + 1
            /\ Billable(n, t) \in Int /\ t.rate \in Int
        BY <2>2, BillableLemma DEF Tier
      <3>2. \A i, j \in Int : (i + 1) * j = i * j + j
        OBVIOUS
      <3>3. (Billable(n, t) + 1) * t.rate = Billable(n, t) * t.rate + t.rate
        BY <3>1, <3>2
      <3> QED
        BY <2>2, <3>1, <3>3
    <2>4. \A s \in R : s # t => bill(n)[s] = bill(n + 1)[s]
      <3> SUFFICES ASSUME NEW s \in R, s # t
                   PROVE  Billable(n, s) * s.rate = Billable(n + 1, s) * s.rate
        OBVIOUS
      <3>1. Billable(n + 1, s) = Billable(n, s)
        BY <1>1, <2>2, BillableLemma
      <3> QED
        BY <3>1
    <2>5. /\ n + 1 \in Nat
          /\ \A s \in R : bill(n)[s] \in Int /\ bill(n + 1)[s] \in Int
      BY <1>2
    <2> HIDE DEF bill, R
    <2>6. Tiers(n + 1) = Tiers(n) + bill(n + 1)[t] - bill(n)[t]
      BY <1>1, <2>2, <2>4, <2>5, SumDiffers
    <2>7. Tiers(n) \in Int
      BY <1>1, <2>5, SumWhole
    <2>8. Units(n + 1) = rate[n] + Units(n)
      <3>0. IsFiniteSet(0..n)
        BY FS_Interval
      <3>1. n \in 0..n /\ (0..n) \ {n} = 0..(n - 1) /\ (n + 1) - 1 = n
        OBVIOUS
      <3>2. \A u \in 0..n : rate[u] \in Int
        <4> SUFFICES ASSUME NEW u \in 0..n PROVE rate[u] \in Int
          OBVIOUS
        <4>1. u \in 0..(quantity - 1)
          BY <1>4
        <4> QED
          BY <4>1 DEF Tier
      <3>3. SumFunctionOnSet(rate, 0..n)
              = rate[n] + SumFunctionOnSet(rate, (0..n) \ {n})
        BY <3>0, <3>1, <3>2, SumRemove
      <3> QED
        BY <3>1, <3>3
    <2>9. Tiers(n) = Units(n)
      BY <1>4
    <2>10. bill(n)[t] \in Int /\ t.rate \in Int
      BY <2>2, <2>5 DEF Tier
    <2> HIDE DEF Tiers, Units, Good
    <2> QED
      BY <2>1, <2>3, <2>6, <2>7, <2>8, <2>9, <2>10
  <1>5. \A n \in Nat : n \in Good => n + 1 \in Good
    BY <1>4
  <1>6. TieredAmount(quantity, ds) = Tiers(quantity)
    BY DEF TieredAmount, SumFunction
  <1>7. quantity \in Good => Tiers(quantity) = Units(quantity)
    OBVIOUS
  <1> HIDE DEF Good
  <1>8. quantity \in Good
    BY <1>3, <1>5, FromZeroOn
  <1> QED
    BY <1>6, <1>7, <1>8

(* What _component_name and _normalize_products make of the products where *)
(* they have one unit for the component: all of them.                      *)
LEMMA OneUnit ==
  ASSUME NEW type, NEW products, NEW name, name # None,
         IsFiniteSet(products),
         Cardinality({d.unit : d \in {e \in products : ComponentName(type, e) = name}}) = 1
  PROVE  Component(type, Dimensions(type, products), name)
           = {e \in products : ComponentName(type, e) = name}
  <1> DEFINE ds == {e \in products : ComponentName(type, e) = name}
             unit == [d \in ds |-> d.unit]
             units == {d.unit : d \in ds}
  <1>1. IsFiniteSet(ds)
    BY FS_Subset
  <1>2. units = {unit[d] : d \in ds} /\ Cardinality(units) = 1
    OBVIOUS
  <1>3. \A d, e \in ds : unit[d] = unit[e]
    <2> HIDE DEF ds, unit, units
    <2> QED
      BY <1>1, <1>2, OneValue
  <1>4. \A d, e \in ds : ~Before(d.unit, e.unit)
    BY <1>3 DEF Before
  <1>5. {d \in Dimensions(type, products) : ComponentName(type, d) = name} = ds
    BY DEF Dimensions
  <1> HIDE DEF ds
  <1> QED
    BY <1>4, <1>5 DEF Component, ds

(* Over a table without gaps and overlaps the tiers bill each unit once.   *)
LEMMA PriceByTheUnit ==
  ASSUME NEW r \in Resources, catalogue \in Catalogues, Complete(r), Tabular(r)
  PROVE  MonthlyPrice(r, Dimensions(r.type, Products(r))) = ByTheUnit(r)
  <1> DEFINE quote == Dimensions(r.type, Products(r))
             Of(c) == {e \in Products(r) : ComponentName(r.type, e) = c[1]}
             Rate(c) == [u \in 0..(c[2] - 1) |-> TheRate(Listed(r, c[1], u))]
             tiered == [c \in Requested(r) |->
                          TieredAmount(c[2], Component(r.type, quote, c[1]))]
             counted == [c \in Requested(r) |-> SumFunction(Rate(c))]
  <1>1. Products(r) \in SUBSET catalogue
    BY DEF Products
  <1>2. IsTable(Products(r))
    BY <1>1, CatalogueIsTable
  <1>3. ASSUME NEW c \in Requested(r)
        PROVE  TieredAmount(c[2], Component(r.type, quote, c[1])) = SumFunction(Rate(c))
    <2>1. c[1] # None /\ c[2] \in Nat
      BY RequestedLemma, EstimatesAssumption
    <2>2. /\ Cardinality({d.unit : d \in Of(c)}) = 1
          /\ \A u \in 0..(c[2] - 1) : Cardinality(Covering(Of(c), u)) = 1
      BY DEF Tabular, Covering
    <2>3. Component(r.type, quote, c[1]) = Of(c)
      BY <1>2, <2>1, <2>2, OneUnit DEF IsTable
    <2>4. IsTable(Of(c))
      BY <1>1, CatalogueIsTable
    <2>5. ASSUME NEW u \in 0..(c[2] - 1)
          PROVE  \E t \in Tier : Covering(Of(c), u) = {t} /\ Rate(c)[u] = t.rate
      <3>1. /\ Covering(Of(c), u) \in SUBSET Rates(Of(c))
            /\ IsFiniteSet(Rates(Of(c))) /\ Rates(Of(c)) \subseteq Tier
        BY <2>4, RatesAreTiers DEF Covering
      <3>2. IsFiniteSet(Covering(Of(c), u))
        BY <3>1, FS_Subset
      <3>3. PICK t : Covering(Of(c), u) = {t}
        BY <2>2, <3>2, FS_Singleton
      <3>4. Listed(r, c[1], u) = {s.rate : s \in Covering(Of(c), u)}
        <4>1. \A d \in Of(c) : /\ d.begin <= u
                               /\ d.end = None \/ u < d.end
                 => \E s \in Covering(Of(c), u) : d.rate = s.rate
          <5> SUFFICES ASSUME NEW d \in Of(c), d.begin <= u,
                              d.end = None \/ u < d.end
                       PROVE  \E s \in Covering(Of(c), u) : d.rate = s.rate
            OBVIOUS
          <5> DEFINE s == [begin |-> d.begin, end |-> d.end, rate |-> d.rate]
          <5> HIDE DEF Of
          <5>1. s \in Rates(Of(c))
            BY DEF Rates
          <5>2. s.begin = d.begin /\ s.end = d.end /\ s.rate = d.rate
            OBVIOUS
          <5> HIDE DEF s
          <5>3. s \in Covering(Of(c), u)
            BY <5>1, <5>2 DEF Covering
          <5> QED
            BY <5>2, <5>3
        <4>2. \A s \in Covering(Of(c), u) :
                 \E d \in Of(c) : /\ d.begin <= u
                                  /\ d.end = None \/ u < d.end
                                  /\ d.rate = s.rate
          BY DEF Covering, Rates
        <4>3. \A x : x \in Listed(r, c[1], u) <=>
                 \E d \in Of(c) : /\ d.begin <= u
                                  /\ d.end = None \/ u < d.end
                                  /\ d.rate = x
          BY DEF Listed
        <4> HIDE DEF Of
        <4> QED
          BY <4>1, <4>2, <4>3
      <3> HIDE DEF Of
      <3>5. Listed(r, c[1], u) = {t.rate}
        BY <3>3, <3>4
      <3>6. TheRate({t.rate}) = t.rate
        BY DEF TheRate
      <3> QED
        BY <3>1, <3>3, <3>5, <3>6
    <2>6. SumFunction(Rate(c)) = SumFunctionOnSet(Rate(c), 0..(c[2] - 1))
      BY DEF SumFunction
    <2> HIDE DEF Rate, Of, quote
    <2>7. TieredAmount(c[2], Of(c)) = SumFunctionOnSet(Rate(c), 0..(c[2] - 1))
      BY <2>1, <2>4, <2>5, TieredByTheUnit
    <2> QED
      BY <2>3, <2>6, <2>7
  <1>4. \A c \in Requested(r) : tiered[c] = counted[c]
    BY <1>3
  <1>5. MonthlyPrice(r, quote) = SumFunctionOnSet(tiered, Requested(r))
    BY DEF MonthlyPrice, SumFunction
  <1>6. ByTheUnit(r) = SumFunctionOnSet(counted, Requested(r))
    BY DEF ByTheUnit, SumFunction
  <1>7. IsFiniteSet(Requested(r))
    BY RequestedLemma
  <1> HIDE DEF tiered, counted
  <1> QED
    BY <1>4, <1>5, <1>6, <1>7, SumSame

(* PricedByTheUnit, of every finite catalogue and every provisioned size:  *)
(* a price is, unit by unit, what the list says of the unit's number,      *)
(* whatever pages the list came on and whoever filled the cache, and is    *)
(* never made of two rates for one tier or of two currencies.              *)
THEOREM PricedByTheUnitHolds == EstimatesSpec => []PricedByTheUnit
  <1>1. EstimatesInv => PricedByTheUnit
    <2> SUFFICES ASSUME EstimatesInv, NEW r \in Resources, outcome[r] >= 0
                 PROVE  /\ Complete(r)
                        /\ Tabular(r) => outcome[r] = ByTheUnit(r)
                        /\ \A d, e \in Dimensions(r.type, Products(r)) :
                              /\ d.currency = e.currency
                              /\ SameTier(r.type, d, e) => d.rate = e.rate
      BY DEF PricedByTheUnit
    <2> DEFINE used == Dimensions(r.type, Products(r))
    <2>0. EstimatesTypes /\ Looked
      BY DEF EstimatesInv
    <2>1. outcome[r] = FromTheList(r)
      BY <2>0 DEF Looked, Unseen, NotEligible, NoPrice
    <2>2. /\ Complete(r) /\ Accepted(r.type, Products(r))
          /\ outcome[r] = MonthlyPrice(r, used)
      BY <2>1 DEF FromTheList, Calculated, NoPrice
    <2>3. Tabular(r) => outcome[r] = ByTheUnit(r)
      BY <2>0, <2>2, PriceByTheUnit DEF EstimatesTypes
    <2>4. \A d, e \in used : d.currency = e.currency
      <3> DEFINE currency == [d \in used |-> d.currency]
                 currencies == {d.currency : d \in used}
      <3>1. used \in SUBSET catalogue /\ catalogue \in Catalogues
        BY <2>0 DEF Dimensions, Products, EstimatesTypes
      <3>2. IsFiniteSet(used)
        BY <3>1, CatalogueIsTable DEF IsTable
      <3>3. currencies = {currency[d] : d \in used}
        OBVIOUS
      <3>4. Cardinality(currencies) = 1
        BY <2>2 DEF Accepted
      <3> HIDE DEF currency, currencies, used
      <3>5. \A d, e \in used : currency[d] = currency[e]
        BY <3>2, <3>3, <3>4, OneValue
      <3> QED
        BY <3>5 DEF currency
    <2> QED
      BY <2>2, <2>3, <2>4 DEF Accepted
  <1> QED
    BY <1>1, EstimatesInvHolds, PTL
=============================================================================
