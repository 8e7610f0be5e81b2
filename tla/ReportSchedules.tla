--------------------------- MODULE ReportSchedules ---------------------------
(***************************************************************************)
(* Recurring reports: Celery beat starts dispatch_due_reports every five   *)
(* minutes, which creates a report for every schedule that is due, under   *)
(* FOR UPDATE SKIP LOCKED, advances the schedule, commits, and then sends  *)
(* the ids.  Members switch schedules on and off.  Composed with Reports,  *)
(* which generates what is sent.  Time is counted in ticks, DayLength to a *)
(* day.                                                                    *)
(***************************************************************************)
EXTENDS Reports

CONSTANTS
    Dispatchers,   \* runs of dispatch_due_reports that may overlap
    DayLength,     \* ticks of a day
    WeekLength,    \* days of a week
    MonthStarts,   \* the days on which a month begins
    Frequencies,   \* bound: which frequencies members choose
    DispatchLimit, \* how many schedules a run takes: 50 in the code
    MaxTime,       \* bound: how long time goes on
    MaxPatches     \* bound: how many updates of schedules are requested

ASSUME SchedulesAssumption ==
    /\ DayLength \in Nat \ {0}
    /\ WeekLength \in Nat \ {0}
    /\ MonthStarts \subseteq Int
    /\ Frequencies \subseteq {"daily", "weekly", "monthly"}
    /\ DispatchLimit \in Nat \ {0}
    /\ MaxTime \in Nat
    /\ MaxPatches \in Nat

VARIABLES
    now,       \* the time
    schedule,  \* report_schedules: enabled, frequency, next_run_at
    period,    \* the first and the last day of each scheduled report
    dispatch,  \* where each dispatcher stands, and what it has in hand
    patch,     \* the update of a schedule that a request is at
    patches,   \* how many were requested
    overtaken, \* history: schedules dispatched while a request changed them
    putOff     \* history: schedules that did not run when it was planned

scheduleVars == <<now, schedule, period, dispatch, patch, patches,
                  overtaken, putOff>>
vars == <<reportVars, scheduleVars>>
-----------------------------------------------------------------------------
Day(t) == t \div DayLength

BeginsMonthOf(m, day) == m <= day /\ \A n \in MonthStarts : n <= day => n <= m
FollowsMonthOf(m, day) == m > day /\ \A n \in MonthStarts : n > day => m <= n

MonthOf(day) == CHOOSE m \in MonthStarts : BeginsMonthOf(m, day)
NextMonth(day) == CHOOSE m \in MonthStarts : FollowsMonthOf(m, day)

(* Every day is in a month, which has one before it and one after it.      *)
ASSUME CalendarAssumption ==
    "monthly" \in Frequencies =>
        \A day \in 0..Day(MaxTime) :
            /\ \E m \in MonthStarts : BeginsMonthOf(m, day)
            /\ \E m \in MonthStarts : BeginsMonthOf(m, MonthOf(day) - 1)
            /\ \E m \in MonthStarts : FollowsMonthOf(m, day)

(* next_run: counted from now, not from when the report was due; or the    *)
(* same time on the first day of the next month.                           *)
NextRun(t, frequency) ==
    CASE frequency = "daily"   -> t + DayLength
      [] frequency = "weekly"  -> t + WeekLength * DayLength
      [] frequency = "monthly" -> NextMonth(Day(t)) * DayLength + (t % DayLength)

(* _scheduled_period: up to the day before, or the month before.           *)
PeriodOf(today, frequency) ==
    CASE frequency = "daily"   -> <<today - 1, today - 1>>
      [] frequency = "weekly"  -> <<today - WeekLength, today - 1>>
      [] frequency = "monthly" -> <<MonthOf(MonthOf(today) - 1), MonthOf(today) - 1>>

Plan == [enabled: {"yes", "no", "ABSENT"}, frequency: Frequencies \cup {"none"}, next: Nat]
NoPlan == [enabled |-> "ABSENT", frequency |-> "none", next |-> 0]

(* at: its now; rows: the schedules it has locked; send: ids to be sent.   *)
Run(step, at, rows, send) ==
    [pc |-> step, at |-> at, rows |-> rows, send |-> send]
Idle == Run("idle", 0, {}, {})
NoPatch == [of |-> None, read |-> NoPlan, set |-> NoPlan]

TypeOK ==
    /\ ReportsTypeOK
    /\ now \in 0..MaxTime
    /\ schedule \in [Schedules -> Plan]
    /\ period \in [Reports -> Int \X Int]
    /\ dispatch \in [Dispatchers -> [pc: {"idle", "select", "commit", "send"},
                                     at: 0..MaxTime, rows: SUBSET Schedules,
                                     send: SUBSET Reports]]
    /\ \A d \in Dispatchers : /\ dispatch[d].rows # {} <=> dispatch[d].pc = "commit"
                              /\ dispatch[d].send # {} <=> dispatch[d].pc = "send"
    /\ patches \in 0..MaxPatches
    /\ patch \in [of: Schedules \cup {None}, read: Plan, set: Plan]
    /\ overtaken \subseteq Schedules
    /\ putOff \subseteq Schedules

Init ==
    /\ ReportsInit
    /\ now = 0
    /\ schedule = [s \in Schedules |-> NoPlan]
    /\ period = [r \in Reports |-> <<0, 0>>]
    /\ dispatch = [d \in Dispatchers |-> Idle]
    /\ patch = NoPatch
    /\ patches = 0
    /\ overtaken = {}
    /\ putOff = {}

Tick ==
    /\ now < MaxTime
    /\ now' = now + 1
    /\ UNCHANGED <<reportVars, schedule, period, dispatch, patch, patches, overtaken, putOff>>

CreateSchedule(s) ==
    /\ schedule[s] = NoPlan
    /\ \E f \in Frequencies :
          schedule' = [schedule EXCEPT ![s] =
                         [enabled |-> "yes", frequency |-> f, next |-> NextRun(now, f)]]
    /\ UNCHANGED <<reportVars, now, period, dispatch, patch, patches, overtaken, putOff>>

LockedRows == UNION {dispatch[d].rows : d \in Dispatchers}

(* set_schedule_enabled: reads the row, and sets next_run_at as well when  *)
(* it switches on, whatever the row said.                                  *)
ReadSchedule(s) ==
    /\ patch = NoPatch
    /\ patches < MaxPatches
    /\ patches' = patches + 1
    /\ schedule[s].enabled # "ABSENT"
    /\ \E e \in {"yes", "no"} :
          patch' = [of |-> s, read |-> schedule[s],
                    set |-> [schedule[s] EXCEPT
                               !.enabled = e,
                               !.next = IF e = "yes"
                                        THEN NextRun(now, schedule[s].frequency)
                                        ELSE @]]
    /\ UNCHANGED <<reportVars, now, schedule, period, dispatch, overtaken, putOff>>

(* The update waits for a dispatcher's lock, and writes what differs from  *)
(* what was read.                                                          *)
SaveSchedule ==
    LET s == patch.of
    IN  /\ s # None
        /\ s \notin LockedRows
        /\ schedule' = [schedule EXCEPT
             ![s].enabled = IF patch.set.enabled # patch.read.enabled
                            THEN patch.set.enabled ELSE @,
             ![s].next = IF patch.set.next # patch.read.next
                         THEN patch.set.next ELSE @]
        /\ overtaken' = IF schedule[s] = patch.read THEN overtaken
                        ELSE overtaken \cup {s}
        /\ putOff' = IF patch.set.next # patch.read.next THEN putOff \cup {s} ELSE putOff
        /\ patch' = NoPatch
        /\ UNCHANGED <<reportVars, now, period, dispatch, patches>>

-----------------------------------------------------------------------------
(* A run takes the time, and only then asks the database.                  *)
StartDispatch(d) ==
    /\ dispatch[d] = Idle
    /\ dispatch' = [dispatch EXCEPT ![d] = Run("select", now, {}, {})]
    /\ UNCHANGED <<reportVars, now, schedule, period, patch, patches, overtaken, putOff>>

IsDue(s, t) == schedule[s].enabled = "yes" /\ schedule[s].next <= t

(* Mutant: the rows are not locked.                                        *)
DueWhoeverHasThem(t) == {s \in Schedules : IsDue(s, t)}

Claimable(t) == {s \in Schedules : IsDue(s, t) /\ s \notin LockedRows}

(* FOR UPDATE SKIP LOCKED, with a limit.                                   *)
SelectDue(d) ==
    LET due == Claimable(dispatch[d].at)
    IN  /\ dispatch[d].pc = "select"
        /\ \/ due = {} /\ dispatch' = [dispatch EXCEPT ![d] = Idle]
           \/ \E rows \in SUBSET due :
                 /\ rows # {}
                 /\ rows = due \/ Cardinality(rows) = DispatchLimit
                 /\ Cardinality(rows) <= DispatchLimit
                 /\ dispatch' = [dispatch EXCEPT
                        ![d] = Run("commit", dispatch[d].at, rows, {})]
        /\ UNCHANGED <<reportVars, now, schedule, period, patch, patches, overtaken, putOff>>

(* Which id each row's report may get: any fresh ones will do.             *)
FreshIds(rows) ==
    {id \in [rows -> {r \in Reports : report[r].status = "ABSENT"}] :
        \A s, t \in rows : id[s] = id[t] => s = t}

EnoughIds(rows) == FreshIds(rows) # {}

(* A run that comes so late that it reports another period than was due.   *)
OtherPeriod(s, t) ==
    PeriodOf(Day(t), schedule[s].frequency)
        # PeriodOf(Day(schedule[s].next), schedule[s].frequency)

CommitDispatch(d) ==
    LET rows == dispatch[d].rows
        t == dispatch[d].at
        id == CHOOSE any \in FreshIds(rows) : TRUE
        created == {id[s] : s \in rows}
        for(r) == CHOOSE s \in rows : id[s] = r
    IN  /\ dispatch[d].pc = "commit"
        /\ EnoughIds(rows)
        /\ report' = [r \in Reports |->
                        IF r \in created THEN Queued(for(r)) ELSE report[r]]
        /\ period' = [r \in Reports |-> IF r \in created
                                        THEN PeriodOf(Day(t), schedule[for(r)].frequency)
                                        ELSE period[r]]
        /\ schedule' = [s \in Schedules |->
                          IF s \in rows
                          THEN [schedule[s] EXCEPT !.next = NextRun(t, schedule[s].frequency)]
                          ELSE schedule[s]]
        /\ dispatch' = [dispatch EXCEPT ![d] = Run("send", t, {}, created)]
        /\ putOff' = putOff \cup {s \in rows : OtherPeriod(s, t)}
        /\ UNCHANGED <<old, storeVars, request, brokerVars, workerVars, sweep, reading,
                       faultVars, now, patch, patches, overtaken>>

(* Bound: the instance has no id left, and the transaction is given up.    *)
OutOfIds(d) ==
    /\ dispatch[d].pc = "commit"
    /\ ~EnoughIds(dispatch[d].rows)
    /\ dispatch' = [dispatch EXCEPT ![d] = Idle]
    /\ UNCHANGED <<reportVars, now, schedule, period, patch, patches, overtaken, putOff>>

Sent(d, r) ==
    LET left == dispatch[d].send \ {r}
    IN  dispatch' = [dispatch EXCEPT ![d] =
            IF left = {} THEN Idle ELSE Run("send", dispatch[d].at, {}, left)]

SendNext(d, r) ==
    /\ dispatch[d].pc = "send"
    /\ r \in dispatch[d].send
    /\ ready' = ready \cup {r}
    /\ Sent(d, r)
    /\ UNCHANGED <<report, old, storeVars, request, unacked, workerVars, sweep,
                   reading, faultVars, now, schedule, period, patch, patches, overtaken, putOff>>

(* Mutant: the rows stay claimed.                                          *)
DispatchDiesHolding(d) ==
    /\ Fault("crash")
    /\ dispatch[d] # Idle
    /\ lost' = lost \cup dispatch[d].send
    /\ dispatch' = [dispatch EXCEPT ![d].pc = "send", ![d].send = {}]
    /\ UNCHANGED <<report, old, storeVars, request, brokerVars, workerVars, sweep,
                   reading, doubled, now, schedule, period, patch, patches, overtaken, putOff>>

(* It dies, the database fails or the broker refuses: a transaction is     *)
(* rolled back, and what was not sent is never sent.                       *)
DispatchLost(d) ==
    /\ \/ Fault("crash")
       \/ Fault("database") /\ dispatch[d].pc # "send"
       \/ Fault("lost_reply") /\ dispatch[d].pc = "send"
    /\ dispatch[d] # Idle
    /\ lost' = lost \cup dispatch[d].send
    /\ dispatch' = [dispatch EXCEPT ![d] = Idle]
    /\ UNCHANGED <<report, old, storeVars, request, brokerVars, workerVars, sweep,
                   reading, doubled, now, schedule, period, patch, patches, overtaken, putOff>>

Dispatch(d) ==
    StartDispatch(d) \/ SelectDue(d) \/ CommitDispatch(d) \/ OutOfIds(d)
    \/ \E r \in Reports : SendNext(d, r)

-----------------------------------------------------------------------------
Call(r) == RequestStep(r) /\ UNCHANGED scheduleVars
Receive(r) == \E w \in Workers : Take(w, r) /\ UNCHANGED scheduleVars
Return(r) == Redeliver(r) /\ UNCHANGED scheduleVars
Work(w) == Generate(w) /\ UNCHANGED scheduleVars
Expire == Sweep /\ UNCHANGED scheduleVars
Deleted(r) == DeleteObject(r) /\ UNCHANGED scheduleVars

Next ==
    \/ Tick
    \/ \E r \in Reports :
          \/ Call(r) \/ Receive(r) \/ Return(r)
          \/ (CreateReport(r) \/ ApiCrash(r) \/ Age(r) \/ StartDownload(r))
               /\ UNCHANGED scheduleVars
    \/ \E w \in Workers : Work(w) \/ (WorkerLost(w) /\ UNCHANGED scheduleVars)
    \/ Expire
    \/ (SweepLost \/ EndDownload) /\ UNCHANGED scheduleVars
    \/ \E s \in Schedules : CreateSchedule(s) \/ ReadSchedule(s)
    \/ SaveSchedule
    \/ \E d \in Dispatchers : Dispatch(d) \/ DispatchLost(d)

Spec == Init /\ [][Next]_vars

(* Calls that were begun return, beat starts its tasks, workers take and   *)
(* finish what is queued, unacknowledged messages return; and a store that *)
(* is asked to delete an object again and again does so in the end.        *)
Fairness ==
    /\ \A r \in Reports : /\ WF_vars(Call(r)) /\ WF_vars(Receive(r))
                          /\ WF_vars(Return(r)) /\ SF_vars(Deleted(r))
    /\ \A w \in Workers : WF_vars(Work(w))
    /\ WF_vars(Expire)
    /\ WF_vars(SaveSchedule)
    /\ \A d \in Dispatchers : WF_vars(Dispatch(d))

FairSpec == Spec /\ Fairness
-----------------------------------------------------------------------------
ReportsOf(s) == {r \in Reports : report[r].schedule = s}

(* What is due is dispatched, or switched off; limits, locks and crashed   *)
(* dispatchers only delay it.  (Unless the ids of the instance ran out.)   *)
NoSpareId == \E rows \in SUBSET Schedules : ~EnoughIds(rows)

DueIsDispatched ==
    \A s \in Schedules : IsDue(s, now) ~> ~IsDue(s, now) \/ NoSpareId
=============================================================================
