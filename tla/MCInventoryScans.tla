-------------------------- MODULE MCInventoryScans --------------------------
(***************************************************************************)
(* Small instances of InventoryScans.                                      *)
(***************************************************************************)
EXTENDS InventoryScans, TLC

CONSTANTS s1, s2, w1, w2, c1

MCRegions == {"us", "eu"}
OneRegion == {"us"}
OneType == {"ec2"}
TwoTypes == {"ec2", "s3"}

Thing(r, t) == [region |-> r, type |-> t, id |-> "x"]
OneResource == {Thing("us", "ec2")}
OneInEachRegion == {Thing(r, "ec2") : r \in MCRegions}

(* Scans of one connection, in one Region or in two.                       *)
SameConnection == [s \in Scans |-> c1]
SameRegion == [s \in Scans |-> "us"]
SecondInEurope == [s \in Scans |-> IF s = s2 THEN "eu" ELSE "us"]

(* What exists comes, goes and comes back.                                 *)
Alternating == [v \in 1..MaxClock |->
                   [c \in Connections |-> IF v % 2 = 1 THEN Resources ELSE {}]]

WorkerSymmetry == Permutations(Workers)
=============================================================================
