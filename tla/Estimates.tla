------------------------------ MODULE Estimates ------------------------------
(***************************************************************************)
(* What one evaluation shows for each resource: the rules decide from the  *)
(* inventory whether it is eligible, the price list is read page by page   *)
(* and normalised into tiers, and the tiers are applied to what the        *)
(* resource provisions.  (Recommendations has what becomes of the row, and *)
(* takes the quote as given.)                                              *)
(***************************************************************************)
EXTENDS Integers, FiniteSetsExt, Functions

CONSTANTS
    Resources,      \* active inventory of the two types, as AWS described it
    Catalogues,     \* what the price list may hold: sets of price dimensions
    Hours,          \* hours of a month: 730
    FreeIops,       \* of a gp3 volume: 3000
    FreeThroughput, \* of a gp3 volume: 125
    MaxErrors,      \* bound: how many calls of the price list fail
    None            \* not in the answer of AWS, not in a table

(* What AWS describes: a volume has no association, an address no           *)
(* attachments; quantities and rates are whole numbers, none negative.     *)
ASSUME EstimatesAssumption ==
    /\ {Hours, FreeIops, FreeThroughput, MaxErrors} \subseteq Nat
    /\ Hours > 0
    /\ None \notin Nat \cup Resources \cup {"address", "storage", "iops", "throughput"}
    /\ \A r \in Resources :
          /\ {r.size, r.iops, r.throughput} \subseteq Nat \cup {None}
          /\ r.type = "ebs_volume" => r.association = None
          /\ r.type # "ebs_volume" => r.type = "elastic_ip" /\ r.attachments = 0
    /\ \A c \in Catalogues :
          /\ IsFiniteSet(c)
          /\ \A d \in c : d.begin \in Nat /\ d.end \in Nat \cup {None} /\ d.rate \in Nat

VARIABLES
    catalogue, \* the dimensions of each product; it does not change meanwhile
    todo,      \* resources that the evaluation has still to look at
    asking,    \* the resource whose quote is being fetched
    unread,    \* dimensions on pages that were not fetched yet
    read,      \* dimensions on those that were
    cache,     \* the provider's quotes: dimensions that were accepted
    outcome,   \* what is shown: a price, why there is none, not eligible
    errors     \* how many calls have failed

estimateVars == <<catalogue, todo, asking, unread, read, cache, outcome, errors>>
-----------------------------------------------------------------------------
(* The rules, over what the inventory provider made of AWS's answer: no    *)
(* list of attachments is an empty one.                                    *)
Attachments(r) == IF r.attachments = None THEN 0 ELSE r.attachments
AddressState(r) == IF r.association = None THEN "unassociated" ELSE "associated"

EligibleVolume(r) == Attachments(r) = 0 /\ r.state = "available"

(* Mutant: the owner of the address is not asked for.                      *)
EligibleOfAnyPool(r) ==
    /\ AddressState(r) = "unassociated"
    /\ r.instance = None
    /\ r.interface = None

EligibleAddress(r) ==
    /\ AddressState(r) = "unassociated"
    /\ r.instance = None
    /\ r.interface = None
    /\ r.pool = "amazon"
    /\ ~r.customerOwned

RuleMatches(r) == IF r.type = "ebs_volume" THEN EligibleVolume(r) ELSE EligibleAddress(r)

-----------------------------------------------------------------------------
(* The quote.                                                              *)

StorageUnits    == {"GB-Mo", "GiB-Mo", "GB-month", "GiB-month"}
IopsUnits       == {"IOPS-Mo", "IOPS-month"}
ThroughputUnits == {"MBps-Mo", "MBps-month"}

(* A dimension is about a component; those of other units are passed over, *)
(* and those of addresses that are in use.                                 *)
ComponentName(type, d) ==
    IF type = "elastic_ip" THEN IF d.unit = "Hrs" /\ d.idle THEN "address" ELSE None
    ELSE IF d.unit \in StorageUnits THEN "storage"
    ELSE IF d.unit \in IopsUnits THEN "iops"
    ELSE IF d.unit \in ThroughputUnits THEN "throughput"
    ELSE None

Dimensions(type, products) == {d \in products : ComponentName(type, d) # None}

SameTier(type, d, e) ==
    /\ ComponentName(type, d) = ComponentName(type, e)
    /\ d.unit = e.unit /\ d.begin = e.begin /\ d.end = e.end

(* Mutant: the last of several rates is taken.                             *)
AcceptedWhateverRates(type, products) ==
    LET used == Dimensions(type, products)
    IN  used # {} /\ Cardinality({d.currency : d \in used}) = 1

(* _normalize_products: nothing to go by, two rates for one tier, or more  *)
(* than one currency, and the quote is refused.                            *)
Accepted(type, products) ==
    LET used == Dimensions(type, products)
    IN  /\ used # {}
        /\ \A d, e \in used : SameTier(type, d, e) => d.rate = e.rate
        /\ Cardinality({d.currency : d \in used}) = 1

(* The provider asks for the Region and the volume type, and remembers.    *)
QuoteKey(r) == <<r.type, r.class>>
Products(r) == {d \in catalogue : d.of = QuoteKey(r)}

(* Of units that mean the same component the last in the alphabet counts.  *)
Before(u, v) == <<u, v>> \in {<<"GB-Mo", "GB-month">>, <<"GB-Mo", "GiB-Mo">>,
                               <<"GB-Mo", "GiB-month">>, <<"GB-month", "GiB-Mo">>,
                               <<"GB-month", "GiB-month">>, <<"GiB-Mo", "GiB-month">>,
                               <<"IOPS-Mo", "IOPS-month">>, <<"MBps-Mo", "MBps-month">>}

Component(type, quote, name) ==
    LET of == {d \in quote : ComponentName(type, d) = name}
    IN  {d \in of : \A e \in of : ~Before(d.unit, e.unit)}

-----------------------------------------------------------------------------
(* The price: calculate_monthly_price and _tiered_amount.                  *)

AtMost(a, b) == IF a < b THEN a ELSE b
AtLeast(a, b) == IF a > b THEN a ELSE b

(* Mutant: what a tier ends at is not taken off.                           *)
BillableToTheEnd(quantity, tier) == AtLeast(quantity - tier.begin, 0)

Billable(quantity, tier) ==
    LET upper == IF tier.end = None THEN quantity ELSE AtMost(quantity, tier.end)
    IN  AtLeast(upper - tier.begin, 0)

Rates(tiers) == {[begin |-> t.begin, end |-> t.end, rate |-> t.rate] : t \in tiers}

TieredAmount(quantity, tiers) ==
    SumFunction([t \in Rates(tiers) |-> Billable(quantity, t) * t.rate])

(* What is billed: pairs of a component and a quantity.                    *)
Requested(r) ==
    IF r.type = "elastic_ip" THEN {<<"address", Hours>>}
    ELSE {<<"storage", r.size>>}
         \cup (IF r.class = "gp3" /\ r.iops > FreeIops
               THEN {<<"iops", r.iops - FreeIops>>} ELSE {})
         \cup (IF r.class = "gp3" /\ r.throughput > FreeThroughput
               THEN {<<"throughput", r.throughput - FreeThroughput>>} ELSE {})
         \cup (IF r.class \in {"io1", "io2"} THEN {<<"iops", r.iops>>} ELSE {})

Complete(r) ==
    r.type = "ebs_volume" =>
        /\ r.size \notin {None, 0}
        /\ r.class \in {"gp3", "io1", "io2"} => r.iops # None
        /\ r.class \in {"io1", "io2"} => r.iops # 0
        /\ r.class = "gp3" => r.throughput # None

(* Every component has a tier that some of the quantity falls in.          *)
Priceable(r, quote) ==
    \A c \in Requested(r) :
        \E t \in Component(r.type, quote, c[1]) : Billable(c[2], t) > 0

MonthlyPrice(r, quote) ==
    SumFunction([c \in Requested(r) |->
                    TieredAmount(c[2], Component(r.type, quote, c[1]))])

(* A price, or NoPrice; recommendations that are not eligible have neither.*)
NoPrice == -1
NotEligible == -2
Unseen == -3

Calculated(r, quote) ==
    IF Complete(r) /\ Priceable(r, quote) THEN MonthlyPrice(r, quote) ELSE NoPrice

-----------------------------------------------------------------------------
EstimatesInit ==
    /\ catalogue \in Catalogues
    /\ todo = Resources
    /\ asking = None
    /\ unread = {}
    /\ read = {}
    /\ cache = [k \in {QuoteKey(r) : r \in Resources} |-> {}]
    /\ outcome = [r \in Resources |-> Unseen]
    /\ errors = 0

Shown(r, what) ==
    /\ outcome' = [outcome EXCEPT ![r] = what]
    /\ todo' = todo \ {r}
    /\ asking' = None

PassBy(r) ==
    /\ asking = None /\ r \in todo
    /\ ~RuleMatches(r)
    /\ Shown(r, NotEligible)
    /\ UNCHANGED <<catalogue, unread, read, cache, errors>>

UseCached(r) ==
    /\ asking = None /\ r \in todo
    /\ RuleMatches(r)
    /\ cache[QuoteKey(r)] # {}
    /\ Shown(r, Calculated(r, cache[QuoteKey(r)]))
    /\ UNCHANGED <<catalogue, unread, read, cache, errors>>

Ask(r) ==
    /\ asking = None /\ r \in todo
    /\ RuleMatches(r)
    /\ cache[QuoteKey(r)] = {}
    /\ asking' = r
    /\ unread' = Products(r)
    /\ read' = {}
    /\ UNCHANGED <<catalogue, todo, cache, outcome, errors>>

(* Mutant: the last page is forgotten.                                     *)
ReadAllButOne ==
    /\ asking # None
    /\ Cardinality(unread) > 1
    /\ \E d \in unread : read' = unread \ {d}
    /\ unread' = {}
    /\ UNCHANGED <<catalogue, todo, asking, cache, outcome, errors>>

(* get_products: a page, of whatever products, and a token for the next.   *)
ReadPage ==
    /\ asking # None
    /\ \E page \in SUBSET unread \ {{}} :
          /\ read' = read \cup page
          /\ unread' = unread \ page
    /\ UNCHANGED <<catalogue, todo, asking, cache, outcome, errors>>

(* A call raises: no price, and nothing is remembered.                     *)
ReadRaises ==
    /\ asking # None
    /\ errors < MaxErrors
    /\ errors' = errors + 1
    /\ Shown(asking, NoPrice)
    /\ unread' = {} /\ read' = {}
    /\ UNCHANGED <<catalogue, cache>>

(* The last page had no token.                                             *)
Answer ==
    /\ asking # None
    /\ unread = {}
    /\ IF Accepted(asking.type, read)
       THEN /\ cache' = [cache EXCEPT ![QuoteKey(asking)] = Dimensions(asking.type, read)]
            /\ Shown(asking, Calculated(asking, Dimensions(asking.type, read)))
       ELSE /\ cache' = cache
            /\ Shown(asking, NoPrice)
    /\ read' = {}
    /\ UNCHANGED <<catalogue, unread, errors>>

Done == todo = {} /\ UNCHANGED estimateVars

EstimatesNext ==
    \/ \E r \in Resources : PassBy(r) \/ UseCached(r) \/ Ask(r)
    \/ ReadPage \/ ReadRaises \/ Answer \/ Done

EstimatesSpec == EstimatesInit /\ [][EstimatesNext]_estimateVars
-----------------------------------------------------------------------------
(* What the price list says of the unit number u (from 0) of a component.  *)
Listed(r, name, u) ==
    {d.rate : d \in {e \in Products(r) : /\ ComponentName(r.type, e) = name
                                         /\ e.begin <= u
                                         /\ e.end = None \/ u < e.end}}

TheRate(rates) == CHOOSE rate \in rates : TRUE

ByTheUnit(r) ==
    SumFunction([c \in Requested(r) |->
        SumFunction([u \in 0..(c[2] - 1) |-> TheRate(Listed(r, c[1], u))])])

(* The tiers of each component that is billed are a table without gaps and *)
(* overlaps, in one unit.                                                  *)
Tabular(r) ==
    \A c \in Requested(r) :
        LET ds == {d \in Products(r) : ComponentName(r.type, d) = c[1]}
        IN  /\ Cardinality({d.unit : d \in ds}) = 1
            /\ \A u \in 0..(c[2] - 1) :
                  Cardinality({t \in Rates(ds) :
                                 t.begin <= u /\ (t.end = None \/ u < t.end)}) = 1

(* A price is what its provisioned units cost, each at the rate that the   *)
(* price list has for its number, whatever pages the list came on and      *)
(* whichever resource asked first; and the documentation's "unavailable":  *)
(* nothing is priced from two rates for one tier or in two currencies.     *)
PricedByTheUnit ==
    \A r \in Resources : outcome[r] >= 0 =>
        /\ Complete(r)
        /\ Tabular(r) => outcome[r] = ByTheUnit(r)
        /\ \A d, e \in Dimensions(r.type, Products(r)) :
              d.currency = e.currency /\ (SameTier(r.type, d, e) => d.rate = e.rate)

(* What AWS shows as attached, associated or not its own is never priced,  *)
(* and of the rest everything is shown, with a price if the list has one   *)
(* and no call failed: no resource's trouble is another one's.             *)
IdleAreJudged ==
    \A r \in Resources :
        /\ outcome[r] >= 0 => /\ r.attachments \in {0, None}
                              /\ r.association = None
                              /\ r.type = "elastic_ip" => r.pool = "amazon"
        /\ todo = {} /\ errors = 0 /\ RuleMatches(r)
             => (outcome[r] >= 0 <=>
                   /\ Complete(r)
                   /\ Accepted(r.type, Products(r))
                   /\ Priceable(r, Dimensions(r.type, Products(r))))
=============================================================================
