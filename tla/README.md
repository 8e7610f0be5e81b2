# CloudWise: TLA+ models and proofs

CloudWise connects to customers' AWS accounts, takes inventory of a Region,
imports costs and metrics, recommends what to delete or resize, and files
reports. Almost all of its state changes happen in background tasks: the API
commits a row and sends its id to Celery over Redis, a worker picks the id up,
calls AWS for a while and commits the outcome. What is hard about it is therefore
not in any one function but between them: two requests that look before they
insert, a worker that dies between two commits, an id that is delivered twice, a
lock that expires, a mail that is sent before the commit that justifies it, a
transaction that decides from rows somebody else has changed since.

This directory models those protocols, checks them with TLC on small instances
and proves the central safety properties with TLAPS for instances of any size.
`src/backend/src/cloudwise/` is abbreviated to `cloudwise/` below.

    tlc -workers 4 -config recs_serial.cfg MCRecommendations.tla
    tlapm InventoryScansProofs.tla

## The system

| part | state it keeps | operations that change it | what makes it hard | what makes it correct |
|---|---|---|---|---|
| inventory scans (`cloudwise/scans`, `inventory`) | `inventory_scans`, `inventory_resources`, a Redis lock per connection | `start_scan`, `run_inventory_scan` with retries | lock that expires, redelivery, crash after RUNNING, services that fail one by one | one active scan per connection; every scan ends, once; rows are those of the last answers |
| cost management (`cost_management`) | `cost_syncs`, aggregates, forecasts | `start_sync`, `synchronize_costs` | claim under FOR UPDATE, redelivery, facets that fail one by one | amounts never go back in time; nothing survives a failure; forecasts have costs |
| metrics (`metrics`) | `metric_syncs`, `resource_metrics` | `start_sync`, `synchronize_metrics` | batches and pages that fail, recomputed batch count | one collector per connection and Region; total failure is no success |
| recommendation engine (`recommendations/service.py`, `rules.py`, `pricing.py`) | `recommendations`, activities, evaluations | `evaluate`, `update_status`, `add_comment` | long read-decide-write transactions without locks; price tiers that come on different pages | reviews are kept; prices have a basis and are what the list says per unit; evaluation is idempotent |
| recommendation sources (`sync_service.py`, `tasks.py`, `ingestion.py`, `external.py`) | `recommendation_source_syncs`, `recommendations` | `start`, `sync_aws_recommendations`, the merge | sources and pages that fail in part, workers that die, no lock | an import is one transaction; silence of a failed source drops nothing; every import ends |
| reports and schedules (`reports`) | `generated_reports`, `report_schedules`, `report_notifications`, stored objects | create, generate, expire, download, dispatch, patch | database, object store and mail cannot commit together; overlapping dispatchers; crash between commit and send | row, object and mail agree; no object is forgotten; no period is reported twice, none between two others is missed; what is due is dispatched |
| identity (`identity`) | users, refresh sessions | register, login, refresh, logout | concurrent refreshes of one token | a login has one usable token, none after a logout |
| audit trail (`core/middleware.py`) | `audit_events` | one event per authenticated mutation | written after the answer in another session; handlers that raise | what it says is true; what was changed is told, once |
| AWS connections (`aws_accounts`) | `aws_account_connections` | create, verify | a rejected verification commits; status changes while a task runs | tasks look at the status when they start; the trail and the status agree |
| worker and broker (`worker.py`, Redis) | queued and unacknowledged messages | deliver, acknowledge, redeliver | at-least-once delivery, `acks_late`, a pool child's death | no accepted job is forgotten |

How they interact: every request of the API runs in one database session; what it
sends to the broker is only an id. Tasks open their own sessions. A scan writes the
inventory that metrics, recommendations and imports read. A cost or metric
synchronization and a scan share nothing but the connection's status. An evaluation
runs in the API process, calls the price list between its reads and its writes, and
touches the same rows as an import (a worker) and a review (another API process).
Reports read costs and recommendations. The audit middleware wraps every request and
writes in a session of its own once the handler has answered.

## The modules

| module | models | state and its counterpart in the code |
|---|---|---|
| `AsyncJob` | what a background job promises: submitted for a free key, started at most once, ended once | `phase`: absent, queued, running, ended |
| `InventoryScans` | a scan from request to inventory | `scan`, `rows`, `connection`: the tables; `ready`, `unacked`: the broker; `lock`: the Redis key; `request`, `pc`, `mem`, `code`: where each process stands and what its session loaded |
| `SyncDispatch` | request, broker and failure path that the synchronizations share | as above, with `lost`: the ids whose process or database failed (history) |
| `CostSyncs` | `synchronize_costs`; extends `SyncDispatch` | `amounts`: `cost_aggregates` and `cost_forecasts`; `answers`: what Cost Explorer told a worker, facet by facet |
| `MetricSyncs` | `synchronize_metrics`; extends `SyncDispatch` | `active`: the inventory; `points`: `resource_metrics`; `work`: batches asked, records kept |
| `Recommendations` | evaluation, merge and review of the rows of one connection | `recs`: `recommendations`; `evidence`: inventory; `told`: what the activities say, `byImport`: the rows whose status an import was the last to set (histories); `pc`, `seen`, `loaded`: what each open transaction has read |
| `RecommendationSyncs` | `sync_aws_recommendations`; extends `SyncDispatch`, instantiates `Recommendations` (as `Tables`) as what it implements | `recs`, `active`: the tables; `work`: what each call and page has listed, and which failed; `seen`, `loaded`: what the merge has read |
| `Estimates` | the rules, the search of the price list and its normalisation, the price of one resource | `unread`, `read`: pages of the price list; `cache`: the provider's quotes; `outcome`: what is shown for each resource |
| `Reports` | a report from request to expiration | `report`, `noted`: the tables; `objects`: the store; `mailed`: what went out; `sweep`, `reading`: an expiration and a download under way |
| `ReportSchedules` | `dispatch_due_reports`, patches of a schedule and the periods; extends `Reports` | `schedule`: `report_schedules`; `dispatch`: what each dispatcher has locked and has still to send; `patch`: an update between its read and its commit; `overtaken`, `putOff`: schedules that an update was saved over, or that did not run when it was planned (histories) |
| `ReportContents` | the queries of `_dataset` for cost details and recommendation reviews, over what was dispatched; extends `ReportSchedules` | no further state; `CostRows`, `RecRows`: the tables; `ConnectionFor`: `connection_id` of each schedule |
| `Sessions` | `identity/service.py` | `users`; `sessions`: `refresh_sessions` in the order of their creation; `overtaken`: refreshes whose token was revoked under them (history) |
| `ApiRequests` | the middleware, every route that changes something, the answer and its event; extends `Sessions` | `connections`: the status of each; `events`: `audit_events`; `request`: where each request stands |
| `InventoryScansProofs`, `SyncDispatchProofs`, `CostSyncsProofs`, `MetricSyncsProofs`, `RecommendationsProofs` (with `Estimates`), `RecommendationSyncsProofs`, `ReportsProofs` (with the schedules and contents), `ApiRequestsProofs` | theorems | |
| `MC*` | constants of the instances | |

**Processes.** Each awaited call (a database read or commit, a Redis or broker
call, an AWS call) is an action, so other processes run in between. What a
session read stays in `mem`, `loaded` or the request's record, and a commit writes
only the attributes that differ from it (`Flush`), as SQLAlchemy's unit of work
does. A partial unique index is a condition on the commit (`IndexAdmits`,
`InsertsAreNew`); where it fails the step is the handler of the `IntegrityError`.
Exceptions go where the `try` of the code sends them. The STS call of a
verification is synchronous, so that it blocks the event loop; it is one step.

**Broker.** `worker.py` sets `task_acks_late` and leaves
`task_reject_on_worker_lost` at its default. A worker that dies leaves its message
in `unacked`, from where it returns to `ready`; a pool child that dies has its
message acknowledged by the parent. Messages are a set: two copies of one id waiting
at once are one element, which loses nothing, since a copy that is still waiting may
be taken at any later time.

**Faults** are explicit. A run names the kinds that may happen (`Faults`) and how
many (`MaxFaults`); a property is checked under the strongest set of faults under
which it holds.

| fault | meaning |
|---|---|
| `crash` | a worker, a dispatcher or (in `ApiRequests`) the API dies; a worker's message stays unacknowledged |
| `child_lost` | a pool child dies, its message acknowledged |
| `api_crash` | the API dies between its commit and `send_task` |
| `lost_reply` | `send_task` raises although the broker took the message |
| `duplicate` | what is still worked on is delivered again |
| `slow_task` | a scan outlasts the 840 s of its lock |
| `database` | a database call raises (in `InventoryScans` also: a commit whose answer is lost) |
| `storage` | the object store took the object and the answer was lost |

What the environment does at any time is no fault and needs no budget: AWS refuses a
role, a facet, a page or a source, a store refuses a deletion, a mail is not
accepted.

**Scans and synchronizations.** A retry for a busy lock is a new message with one
more attempt. AWS accounts change over time (`World`, `Bill`), and a row is known
by the time of the answer it came from, so that "older" and "of whom" can be said.

**Recommendations.** A row has its status, whether `resolved_at` is set, its
sources, and its price as three fields: `pricing_status`, where it came from
(`pricing_source`), and which of `current_monthly_cost`, `estimated_monthly_savings`
and `currency` are not None. The three can be missing one by one, as in
`external.py`: an estimate without saving or without currency is stored and not
available, and `_apply_pricing` may turn one that has cost and saving but no
currency into a stale one. A flush writes the three one by one. A quote is current,
older than the threshold, or refused;
each eligible row of each evaluation gets any of the three. An import in this module
is for a Region and gets any answer the two sources can give (`Answers`). An
evaluation first reads the evidence, then the rows, then commits; a review reads the
row and commits. `Abort` is any exception: nothing remains. `RecommendationSyncs`
shows where an import's answer comes from: three calls with their pages, each of
which may fail, items that name resources the inventory does not have or has twice,
savings that are missing or not above zero, and costs and currencies that are missing.

**Reports.** An object and a row's `storage_key` are known by the number of the
dataset they were made from, which stands for the checksum. Time is counted in
ticks; a month is the interval between two of `MonthStarts`, so that periods across
months are the code's, with shorter months. A schedule is for one AWS connection or
for all, and its reports filter costs and recommendations by it. The tables do not
change while reports are made: `NothingTwice` and `NothingMissed` are about the
periods and the filters, not about rows that arrive or change after a report.

**Requests.** A route is its required role and what it does to the tables; all
routes of `cloudwise/*/router.py` that change something are listed. The middleware
writes its event for whoever the handler had identified.

## Runs

Each run takes at most a few minutes.

| run | question | bounds |
|---|---|---|
| `scans_safe` | what database and lock guarantee whatever goes wrong | 2 scans (two Regions) of one connection, 2 workers, 2 faults of any kind but `slow_task`, the account changes once |
| `scans_live` | is no active scan abandoned, does every scan end, once, and is it an abstract job | 2 scans, 2 workers, 1 retry, 2 services, 1 crash or expiry |
| `costs_safe` | what is stored, how it ends, is it an abstract job | 2 synchronizations, 2 workers, 2 cost facets, 1 forecast, 1 fault of 5 kinds |
| `metrics` | what is stored, how it ends | 2 synchronizations of one Region, 2 workers, 2 series in batches of 2, 1 fault of 5 kinds |
| `recs_serial` | transactions that do not overlap | 2 keys in two Regions, one with a rule; both sources; 1 session; unbounded history; 1.2 million states |
| `recs_overlap` (fails) | is a review kept while an evaluation runs | 1 key, 2 sessions |
| `recs_regions` (fails) | does an import of one Region leave the other alone | 1 key, imports of two Regions |
| `rec_syncs` | is an import a transaction, does it drop only what is proven, does it end | 2 imports, 2 workers, 1 volume that Hub and Compute Optimizer list, 1 fault of 4 kinds |
| `estimates` | is a price what the list says per unit, is everything idle judged | 6 resources (volumes with and without performance data, addresses), every catalogue of up to 3 dimensions beside the storage, pages in every order, 1 failing call |
| `reports` | do row, object and mails agree, does a report end and expire | 1 report, requested or scheduled, 2 workers, 1 dispatcher, 1 fault of 7 kinds |
| `schedules` | is nothing reported twice or missed in between, is what is due dispatched | 1 schedule of any frequency for one of two connections, 2 ids, 2 dispatchers, days of two ticks, time up to the third day, months of one and two days, 2 patches, 1 crash |
| `api` | is there one live token, does the trail tell the truth and everything | 3 requests of any kind by an owner, a viewer and a newcomer, 1 fault, 1 expiry of a token; requests are interchangeable; 3.8 million states |

Why the bounds are enough to be interesting: two ids and two workers are the least
with which every race of the code happens (two requests, a request and a worker, two
workers on one id, two workers on one connection), and each property concerns one
connection. `reports` has one id because its properties speak of one report and
nothing but the broker is shared; the sweep's loop over several is the set it has
still to delete. Two changes of the AWS account (`MaxClock`) are the least with which
an answer can be older than another. `MaxRetries` is 0 or 1 where the code has 30: the
message that has attempts left and the one that has none both occur. Three days
with a monthly schedule contain two months that end, and so two dispatches after one
another, as a daily schedule has; with two ticks to a day a run can be late within its
day, or over midnight. (A second weekly report lies beyond the bound, and is covered
by the theorems.)
`recs_serial` needs no bound on time: its state space is finite, so it covers every
sequence of evaluations, imports and reviews of its two keys. Three requests are the
least in which a refresh overtakes another while a logout is under way.

Every property of a passing run has a mutant, a plausible bug put in place of one
definition, under which TLC finds the property violated; mutants stand next to what
they change and are marked as such.

What the sets of faults leave out says something about the code. Costs and metrics
are checked without `lost_reply`: when the API fails a row that a worker then claims
or runs, the row is changed after its end. Imports are checked without `lost_reply`
and `duplicate`: a RUNNING row is accepted, no row is locked, and two workers may
import at once. Reports take every fault, but `lost` and `doubled` name the reports
that a property excepts, and `EndsUnlessLost` likewise: these exceptions are exactly
the ways in which the code abandons a row.

### Fairness

`scans_live`, `costs_safe`, `metrics`, `rec_syncs`, `reports` and `schedules` use
`FairSpec`: a request that was begun goes on (the API's event loop runs it), an idle
worker takes what is queued, a worker goes on with its task, a message whose consumer
is gone returns (the broker's visibility timeout), an orphaned Redis key expires, a
patch that has read its schedule is saved, and Celery beat starts the sweep and the
dispatcher again and again. That is weak fairness. For imports it is stated on the
worker's place in the task (`WF_pc`), since a page that is read again changes no
place. The one strong fairness is that the store does not refuse to delete the same
object forever, without which no code could expire it. Nobody is obliged to ask for
anything, no fault is obliged to happen, and the AWS accounts need not change.

## What the checks show, and disagreements with the documents

The passing runs show the properties in their `about` lines. Two runs show that the
code does not do what a document says, and `PROJECT.json` quotes the line:

* `recs_overlap`: an evaluation that read RESOLVED sets OPEN over what reviewers made
  of the row in the meantime.
* `recs_regions`: an import asks Compute Optimizer about one Region and drops it as a
  source of everything it did not see, other Regions included.

Further ones were met while modelling. Each is an exception in a property or a fault
that a run leaves out:

* The lock of a scan is not extended, so a scan of more than 840 s goes on without it,
  against `scans/tasks.py:37` ("while holding a per-connection Redis lock"): this is
  the fault `slow_task`, which `CollectorHoldsLock` and `NeverOlderInventory` exclude.
* If recording a failure fails as well, a scan stays active for good and blocks its
  connection (`scans/tasks.py:50`).
* A worker that dies after the claim leaves a cost or metric synchronization RUNNING,
  which nobody can claim again, and the index refuses every later one: `EndsUnlessLost`
  says that this is the only way not to end. A report whose worker dies stays RUNNING
  likewise.
* "Every delivery attempt is recorded" (`docs/reports-audit.md:32`), but mails precede
  the commit that records them: the exception in `NoticesAreTrue`.
* "Every authenticated POST, PUT, PATCH, or DELETE request produces one
  organization-scoped audit event" (`docs/reports-audit.md:37`), but a handler that
  raises passes the middleware by, with what it had committed before: the exception
  in `ChangesAreTold`.
* A dispatcher that comes only after midnight reports the day before its own, not the
  day that was due, and counts the next run from there: the day between is in no
  report of the schedule. The same happens if a member switches a schedule on that is
  on and due. `NothingMissed` excepts both (`putOff`). No document promises otherwise.
* "A safe unavailable reason rather than an understated estimate"
  (`docs/recommendation-engine.md:42-44`), but tiers with a gap between them are
  accepted and the quantity in the gap costs nothing; `PricedByTheUnit` therefore
  speaks of units that some tier covers.

## What is proved

All by TLAPS, for any number of scans, workers, connections, keys, reports and
requests, any history of the accounts and any answers; the constants' assumptions are
those of the `ASSUME`s, and a theorem that needs more names it. Every invariant and
every action property of a passing run is proved but those listed further down.

**`InventoryScansProofs`**
* `TypeCorrect`, under all faults. The strengthening is that only a message with
  attempts left is published again.
* `OneActiveScanHolds`, under all faults: every step that makes a scan active passes
  the index; a flush can only keep what the index had admitted.
* `InventoryHolds`, under all faults: `observed` and `rows` change in the same commit,
  and only for the scan's Region and the services that answered.
* `LockHolds`, without `slow_task`: a worker between its second read and its release
  owns the key; nobody else deletes it.
* `NeverOlder`, without `slow_task`: the answers of a collector are no older than what
  is stored for its connection. The lock makes this inductive, since no other
  collector of the connection can commit in between.
* `ScansAreSafeJobs` and `ScansEndOnce`, without `duplicate` and `lost_reply`: the
  scans implement the safety part of `AsyncJob` (`JobPhase` maps a row to a phase), so
  that a scan starts and ends at most once. `OneDriver` is what it takes. A scan is
  driven by its request until that has published, then by one message at a time: a
  retry publishes the next attempt before it acknowledges its own, which is `Spent`
  in between (`Requests`, `Deliveries`), and the status a worker has seen is still
  active when it starts (`StillActive`). The two faults break exactly this; with
  them two attempts may both write the row's end, since `scans/tasks.py` looks at the
  status only before it takes the lock.
* `ActiveScanHasDriverHolds`, if workers only die or are slow. What a worker has in
  its session is what the row says, and it ends its scan before it acknowledges
  (`Held`). Database errors are left out because `tasks.py:50` swallows a failure to
  record a failure, `child_lost` and `api_crash` because they lose the message.

**`SyncDispatchProofs`** proves `ExclusiveKeys` and `JobsEndOnce` of `AsyncJob` for any
ids, keys and phases: what satisfies its specification has one active job per key and
ends each once. It also has the lemmas that costs and metrics share, without
`lost_reply`. `DispatchInv` says that the broker and the workers have only ids whose
request is over (`Unsent`, `Sent`), that from its claim to its end a synchronization
is RUNNING in the table and in the session of exactly one worker (`Owned`, `Loaded`),
and that a key has one active synchronization. Duplicates are harmless because the
claim needs QUEUED; a lost reply would break `Unsent`, which is why it is excluded.

**`CostSyncsProofs`**: `AmountsNeverOlderHolds` (with `Fresh`: what a worker was told
is no older than what is stored, which the single worker per connection keeps),
`AmountsHaveSourceHolds`, `ForecastsNeedCostsHolds`, and `CostSyncsAreJobs`: the safety
part of `AsyncJob` is implemented.

**`MetricSyncsProofs`**: `OneCollectorHolds`, `PointsHaveSourceHolds`,
`MetricSyncsAreJobs`, and `UnansweredIsNoSuccessHolds` for any number of queries and
any batch size: batches asked times the size, plus what is left, is the number of
queries, so that the batch count which the code recomputes afterwards is the number
of batches that were asked.

**`RecommendationsProofs`**
* `TypeCorrect`, for sessions that overlap in any way. The strengthening: what a
  session has loaded still exists, a row has no sources before it exists, and a row
  that no rule is about never has the source CLOUDWISE.
* `EvaluationIdempotentHolds`, in every state overlapping sessions can reach: after an
  evaluation the price is "settled", that is, what the same quote would give again.
* `PriceHasBasisHolds`, `ResolvedAtAgreesHolds`, `ReviewKeptHolds`,
  `UnsourcedIsResolvedHolds`, in the behaviours in which transactions do not overlap:
  the theorems read `Spec /\ []Apart => ...`, and `Apart` says that no two sessions are
  between their reads and their commits, however many there are. The
  invariant is that a working session's rows are the rows of the database; a commit is
  then exactly what the session made of each row, and the lemmas on `Evaluated`,
  `Merged` and `Reviewed` show that each of these changes a row as `Changes` and
  `Respects` allow. Without the assumption `recs_overlap` refutes `ReviewKept`.
* `TrailMissesOnlyImportsHolds`, however sessions overlap: the last status that the
  activities tell is the row's, unless an import was the last to set it (`byImport`,
  a history of who changed the status), and then the import has resolved it, or has
  created it and nothing is told at all. `TrailInv` adds that what an import has opened
  was read as OPEN by every session that has read it, so that no commit can write OPEN
  over it without telling; and that a review changes the status that was read.
* `PricedByTheUnitHolds` and `IdleAreJudgedHolds`, of `Estimates`, for any inventory
  and any finite catalogue. `EstimatesInv`: what is read and what is not make up the
  products that were asked for (`Fetching`); a cached quote is what the whole list has
  for its key, accepted (`Remembered`); so a resource that was looked at shows what
  the whole list makes of it, or a call failed (`Looked`). The rest is arithmetic:
  `TieredByTheUnit` adds one unit to the quantity, which adds one to the billable
  quantity of the one tier the unit falls in and nothing to the others. The lemmas on
  sums (`SumsAgree` to `SumDiffers`) say that a sum over a finite set exists, does not
  depend on the order and changes with one term; they replace an induction scheme by
  the well-foundedness of strict inclusion (`SetInduction`), so that no operator has
  to be instantiated. `EstimatesAssumption` says that quantities and rates are not
  negative, that volumes have no association and addresses no attachments, as AWS
  describes them.

**`RecommendationSyncsProofs`**, without `duplicate` and `lost_reply` (with either, two
workers import at once: the code accepts a RUNNING row) and for the requests of one
connection (`OneConnection`, as the module has the rows of one). The index then makes
a working import the only one. `ImportInv`: a worker's id is nowhere else (`Alone`)
and active from claim to end (`Claimed`); what it was told are entries of the calls
that it has read (`Told`); and the rows it has loaded are still the rows (`Current`).
* `ImportsAreJobs`: imports implement `AsyncJob`.
* `DropsAreProvenHolds`: a source that a row loses was asked for and answered in
  full. `NamesAreUnique` says that a Region has no two resources of a type with the
  same last part of the identifier: `ingestion.py` looks resources up by it, and with
  two of them drops whichever it did not find.
* `ImportsAreTransactionsHolds`: a detailed import is a step of `Recommendations` or a
  stutter, so that what is proved there of imports holds of these; it needs
  `ComputeIdsAreGlobal`: ids of instances and volumes, the only ones Compute Optimizer
  is asked about, are not used in two Regions, which AWS guarantees.

**`ReportsProofs`**, for `ReportSchedules`' specification, which contains `Reports`,
and under every fault: `ReportTypesHold`, `CompletedHasObjectHolds`,
`ObjectsAreKnownHolds`, `NoticesAreTrueHolds`, and `TypeCorrect` for all of them
together with the schedules. The invariant follows an id from place
to place: a fresh id is nowhere (`Fresh`); one that was not doubled is with its
sender, in the queue, or with one worker (`OnePlace`); that worker has read what the
row says (`Loaded`); a key is recorded after its object was stored, and only old
objects are deleted (`Stored`, `Recorded`); and an object or a mail that is not on
record yet has a worker about to record it, unless something was lost (`Known`,
`Told`).
* `NothingTwiceHolds`, for any calendar in which every day that a run can reach has a
  month, one before and one after (`CalendarAssumption`). The days of two reports of
  one schedule are apart (`PeriodsApart`) because `next_run_at` never precedes the end
  of what was reported (`Ahead`: `Beyond` holds of every time from `next_run_at` on,
  since a later day has a later period, which the calendar lemmas show); because
  overlapping dispatchers have locked different rows (`Claimed`, SKIP LOCKED); and
  because an update that has read a schedule before it was dispatched either writes
  nothing that matters or is counted in `overtaken`, which the property excepts.
* `NothingMissedHolds`, for any calendar, schedules, connections and tables. The
  invariant `Joined`: the days of a schedule's reports leave no gap, and the period of
  its next run begins the day after one of them ends. A dispatch keeps it because the
  period and the next run are counted from the same time: a run at `next_run(t)`
  reports from the day after the period of a run at `t` (`PeriodsMeet`, for days,
  weeks, and months of any length).

**`ApiRequestsProofs`**, under every fault:
* `TrailIsTrueHolds` and `ChangesAreToldHolds`. The invariant relates what a request
  has stored to where it stands and what it was answered (`Sound`), what
  verifications found to the account (`Verifications`), and events to requests that
  are done, one each (`Trail`).
* `OneLiveTokenHolds`: counting the usable tokens of each login. A rotation takes one
  and gives one, unless it was overtaken, which is what `overtaken` counts.

## What is only model-checked

* Liveness (`ScanEventuallyEnds`, `EndsUnlessLost`, `ImportsEnd`,
  `ReportsEndUnlessLost`, `OldReportsExpire`, `DueIsDispatched`), and with it the
  fairness that `ScansAreJobs` adds to what `ScansAreSafeJobs` proves: the prover has
  no `ENABLED`.
* The properties of the failing runs (`OtherRegionsKeepSources`, and `ReviewKept` of
  transactions that overlap), which TLC refutes.

## Not modelled

* Configuration and the Redis client, health probes, the disabled AI advisor:
  no state that changes.
* Migrations and infrastructure: run by an operator, or declarative. The constraints
  that migrations create are modelled where they bite.
* The React frontend: pages over the API. Its calculations and the stored session of
  the client could be modelled.
* The inventory provider in part: `collect` is a success or a failure of each
  service, and `Estimates` has the attributes that rules and prices read; how the
  responses of the other services are normalised is data that no property tells apart.
* Organizations in part: no code changes a membership after its registration; every
  query filters by `organization_id`, and the models other than `ApiRequests` have
  one organization.
* Correlation ids, which keep no state.

And within what is modelled:

* Record counts, names of failed facets and sources, evidence texts, CSV, the wording
  of mails and logging: no property tells them apart.
* Passwords, hashes, signatures, external ids and their encryption are opaque: a login
  fails or not, an access token is refused or not.
* Comments on recommendations only append an activity; an evaluation's own row only
  counts.
* Amounts of recommendations are known or None in `Recommendations`, where no property
  depends on their value; `Estimates` has the numbers of list prices.
* The executive summary: sums over the rows of the period and over open
  recommendations. That it adds up what the cost detail lists holds by the shape of the
  two queries, which `ReportContents` would only repeat.
* Two resources of one account and type that share the last part of their identifier
  across Regions are matched as `ingestion.py` does it; `rec_syncs` has one resource.
* Connections exist from the start (but in `ApiRequests`) and are not deleted (the API
  has no deletion).

## Plan

In this order, most important first.

1. Evaluation and import of one row at once: what remains of the promises if both
   write its list of sources, as a theorem without `[]Apart`.
2. What of `RecommendationSyncs` survives `duplicate` and `lost_reply`: an invariant of
   two workers that import for one id.
3. Costs and metrics under `lost_reply`: which of their properties do not need that a
   row is over when its request has failed it.
4. The frontend's stored session against `Sessions`, and its cost calculations against
   reference definitions.
