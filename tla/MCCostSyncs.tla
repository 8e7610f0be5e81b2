----------------------------- MODULE MCCostSyncs -----------------------------
(***************************************************************************)
(* Small instances of CostSyncs.                                           *)
(***************************************************************************)
EXTENDS CostSyncs, TLC

CONSTANTS s1, s2, w1, w2, c1

MCCostFacets == <<"daily:service_region", "daily:usage_type">>
MCForecastFacets == <<"daily:forecast">>

Charge(f) == [facet |-> f, id |-> "x"]
MCCharges == {Charge(Facets[i]) : i \in 1..Len(Facets)}

SameConnection == [s \in Syncs |-> c1]

(* Every charge is billed from the start but one, which comes at 2.        *)
Growing == [v \in 1..MaxClock |-> [c \in Connections |->
               {k \in Charges : k.facet = CostFacets[1] => v >= 2}]]

AllErrors == CostErrors

WorkerSymmetry == Permutations(Workers)
=============================================================================
