----------------------- MODULE MCRecommendationSyncs -----------------------
(* A small instance: a volume, which both sources know.                     *)
EXTENDS RecommendationSyncs

CONSTANTS s1, s2, w1, w2, account, volume

ToAccount == [s \in Syncs |-> account]
AllNames == [k \in Keys |-> "volume"]
Homes == [k \in Keys |-> "us"]
Asked == [s \in Syncs |-> "us"]

Entry(call, name, region, given) ==
    [call |-> call, name |-> name, region |-> region, saving |-> "positive", given |-> given]

(* All that there is, and a saving without a currency.                      *)
MCItems ==
    {Entry("hub", "volume", "us", {"cost", "currency"}), Entry("ebs", "volume", "us", {})}
=============================================================================
