--------------------------- MODULE MCRecommendations ---------------------------
(* Instances of Recommendations: an unattached volume, which a rule and the *)
(* Hub would delete, and an instance of another Region, which the Hub and   *)
(* Compute Optimizer would rightsize.                                       *)
EXTENDS Recommendations

CONSTANTS volume, instance, x1, x2

AllRegions == {"us", "eu"}
Homes == [k \in Keys |-> IF k = volume THEN "us" ELSE "eu"]

(* With a cost but no currency, or a currency but no cost; and a cost      *)
(* without a saving, or everything.                                        *)
VolumeOffers ==
    {[source |-> "HUB", key |-> volume, amount |-> a] :
        a \in {{"cost", "savings"}, {"savings", "currency"}}}
InstanceOffers ==
    {[source |-> "HUB", key |-> instance, amount |-> {"cost", "currency"}],
     [source |-> "COMPUTE_OPTIMIZER", key |-> instance, amount |-> Parts]}
AllOffers == VolumeOffers \cup InstanceOffers
=============================================================================
