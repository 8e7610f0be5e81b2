--------------------------- MODULE MCReportContents ---------------------------
(***************************************************************************)
(* Small instances of reports, their schedules and their contents: months  *)
(* of one and of two days, days of two hours.                              *)
(***************************************************************************)
EXTENDS ReportContents

CONSTANTS r1, r2, s1, w1, w2, d1, d2

ShortMonths == {-3, -1, 1, 2, 3}

(* The schedules are for the first of two connections.                     *)
MCConnectionFor == [s \in Schedules |-> "first"]

MCCostRows ==
    [day: -3..3, connection: {"first", "second"},
     grouping: {"service_region", "usage_type"}, granularity: {"daily", "monthly"}]

MCRecRows == [updated: -6..7, connection: {"first", "second"}]
=============================================================================
