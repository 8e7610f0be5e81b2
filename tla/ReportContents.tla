--------------------------- MODULE ReportContents ---------------------------
(***************************************************************************)
(* What _dataset puts into the reports that ReportSchedules files, over    *)
(* the tables of one organization: a cost detail and a recommendation      *)
(* review.  The costs have a day, the recommendations a time, counted in   *)
(* hours.                                                                  *)
(***************************************************************************)
EXTENDS ReportSchedules

CONSTANTS
    Hours,         \* hours of a day
    ConnectionFor, \* the AWS connection a schedule is for, or None: for all
    CostRows,      \* cost_aggregates, which do not change meanwhile
    RecRows        \* recommendations, which do not either

ASSUME ContentsAssumption ==
    /\ Hours \in Nat \ {0}
    /\ Schedules = DOMAIN ConnectionFor
    /\ \A a \in CostRows : a.day \in Int
    /\ \A c \in RecRows : c.updated \in Int

(* A report without a connection is about all of them.                     *)
About(row, rep) == rep.connection # None => row.connection = rep.connection

(* cost_aggregates that the cost detail lists, one line each.              *)
CostDetail(costs, rep) ==
    {a \in costs : /\ a.granularity = "daily"
                   /\ a.grouping = "service_region"
                   /\ a.day >= rep.first
                   /\ a.day <= rep.last
                   /\ About(a, rep)}

(* Mutant: the last day ends when it begins.                               *)
ReviewToMidnight(recs, rep) ==
    {c \in recs : /\ c.updated >= rep.first * Hours
                  /\ c.updated < rep.last * Hours
                  /\ About(c, rep)}

(* Recommendations that changed in the period, its last day included.      *)
RecommendationReview(recs, rep) ==
    {c \in recs : /\ c.updated >= rep.first * Hours
                  /\ c.updated < (rep.last + 1) * Hours
                  /\ About(c, rep)}
-----------------------------------------------------------------------------
Span(s, first, last) ==
    [first |-> first, last |-> last, connection |-> ConnectionFor[s]]

(* What a scheduled report asks for: its schedule's connection is copied.  *)
Asked(r) == Span(report[r].schedule, period[r][1], period[r][2])

(* No cost and no change of a recommendation is in two reports of a        *)
(* schedule, midnights included, however dispatchers overlap and members   *)
(* switch it on and off; unless a request that switched it on had read it  *)
(* before a dispatch and saved it after.                                   *)
NothingTwice ==
    \A s \in Schedules \ overtaken : \A q, r \in ReportsOf(s) :
        q # r =>
            /\ CostDetail(CostRows, Asked(q)) \cap CostDetail(CostRows, Asked(r)) = {}
            /\ RecommendationReview(RecRows, Asked(q)) \cap
                 RecommendationReview(RecRows, Asked(r)) = {}

(* Between two reports of a schedule nothing is missed: what one report of *)
(* the days from the first of the one to the last of the other would list  *)
(* is in some report that the schedule has.  The next run is counted from  *)
(* the time of this one, and what a run reports from its own day; so there *)
(* is a gap, which this excepts, when a run comes so late that it reports  *)
(* another period than was due, or a member's update moves it.             *)
NothingMissed ==
    \A s \in Schedules \ putOff : \A q, r \in ReportsOf(s) :
        LET whole == Span(s, period[q][1], period[r][2])
        IN  /\ CostDetail(CostRows, whole)
                 \subseteq UNION {CostDetail(CostRows, Asked(x)) : x \in ReportsOf(s)}
            /\ RecommendationReview(RecRows, whole)
                 \subseteq UNION {RecommendationReview(RecRows, Asked(x)) : x \in ReportsOf(s)}
=============================================================================
