---------------------------- MODULE MCMetricSyncs ----------------------------
(***************************************************************************)
(* A small instance of MetricSyncs.                                        *)
(***************************************************************************)
EXTENDS MetricSyncs

CONSTANTS s1, s2, w1, w2, c1, q1, q2

(* One Region of one connection.                                           *)
SameConnection == [s \in Syncs |-> c1]
SameRegion == [s \in Syncs |-> <<c1, "us">>]
OneHome == [q \in Series |-> <<c1, "us">>]

AllErrors == MetricErrors
=============================================================================
