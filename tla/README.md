# A verification development of the MaluDB memory organization agent

The agent keeps the memory of MaluDB tenants in order. A control API lets
operators trigger jobs and resolve review items; a worker process runs BullMQ
jobs: *sweeps* that drain MaluDB's dirty queues, and *scans* in which a language
model judges contradictions and consolidations. Which jobs run, how often and
with which parameters is planned from policies when the worker starts. What they
do is recorded in Postgres (`agent-db`), whose schema both processes migrate.
This directory holds TLA+ modules of the parts of it
that keep state together, TLC configurations that check them on small instances,
and proofs, checked by TLAPS, of what holds for all instances.

    tlc -workers 2 -config ReviewQueueSafety.cfg MCReviewQueue.tla
    tlapm ReviewQueueProofs.tla

Paths below are relative to the repository.

## 1. Inventory

| Component (source) | State | Operations | Correct when |
|---|---|---|---|
| Review decisions: `apps/agent-api/src/routes/reviews.ts`, `reviews/execute.ts`, `packages/agent-db/src/repositories/review-items.ts` | `review_items` rows: status, payload with the proposed action, result; MaluDB's statements and memories | resolve (read, execute against MaluDB, compare-and-set), upsert by a scan; list and get only read | a decision is made once and never revised, an accepted item's action was carried out, replies are true |
| Scans: `apps/worker/src/handlers/scans.ts`, `contradiction/`, `consolidation/` | locals of a run: snapshot of the day's spend, own spend, the statements that were listed, place in the loops | read spend, list, group, judge, record cost, upsert item, auto-resolve | caps bind each scan, what was billed is recorded, a scan ends, nothing destructive without an accept or `auto_resolve`, groups are the conflicts, a statement that was the best of its slot all along is never closed |
| Cost records: `repositories/cost-records.ts` | append-only rows | insert, sum of the current day | the sum is what was spent |
| Job execution: `apps/worker/src/workers/index.ts`, `context.ts`, `repositories/job-runs.ts` | `job_runs` rows; BullMQ's job states in Redis | create row, build context, handle, complete row, tell BullMQ | the ledger and BullMQ agree with what happened; jobs end |
| Job routes: `apps/agent-api/src/routes/jobs.ts` | - | trigger, retry, list | they only add jobs |
| MaluDB client: `packages/maludb-client/src/client.ts` | attempt counter, timer, response in hand | every operation is one `request()` | bounded attempts, true results, terminal answers are final |
| Sweeps: `apps/worker/src/sweep-runner.ts`, `handlers/sweeps.ts`, `repositories/watermarks.ts` | loop index, totals; watermark row; MaluDB's dirty queue | ask for a batch, add up, set watermark, stop | totals and stop reason are right, a sweep ends, nothing stays dirty |
| Scheduler: `apps/worker/src/scheduler.ts`, `policy.ts` | BullMQ repeatables; the place in the loop over tenants, the default policy as it was read, the plan | list tenants, read two policy rows, merge, plan, add repeatables, at start-up only | every planned job is registered, and nothing of another tenant's policy |
| Policy engine: `packages/policy-engine` | none (pure) | parse with defaults, merge, plan, scores | what was accepted with finite numbers can be stored, read back and merged; merge is override over default |
| Tenant and policy routes: `routes/tenants.ts`, `routes/policies.ts` and their repositories | `tenants`, `policies` rows | upsert, enable, disable; post a policy | only valid documents are stored |
| Migrations: `packages/agent-db/src/migrate.ts` | `schema_migrations`, the schema | create the table, read what is applied, apply the rest in transactions | applied once, in order, nothing half applied; losers of a race get up again |
| Tenant health: `handlers/healthcheck.ts`, `handlers/policy-evaluate.ts` | the health of a tenant's row | probe and overwrite | last writer wins |
| Processes: the two `main.ts` | queues, pool, workers | start, SIGTERM | nothing running loses its database |
| Model adapters, contracts, observability | none | one HTTP call; schemas; log lines | - |

**Interactions.** API and worker share Postgres (`review_items`, `job_runs`,
policies) and Redis (BullMQ queues); both call MaluDB through the client. Nothing
is locked across an `await`, but for the transaction of a migration: what
protects a row is one SQL statement (`WHERE status = 'open'`, `ON CONFLICT`),
what protects a job is BullMQ's lock. Both processes run `migrate()` as they
start; the API's routes write the tenants and policies that the worker's
scheduler reads, while it reads them.

**What is hard**, with the line and the property that covers it, is the
`hazards` list of `PROJECT.json`: reads that are stale when used (review item,
day's spend, repeatables), steps that take effect although their caller is told
they failed (time-outs), crashes between two stores (MaluDB and Postgres,
Postgres and BullMQ), overlapping runs, two processes that migrate one database,
documents that are valid when posted and have to be valid stored and merged, and loops whose
exits are an off-by-one from each other.

## 2. Modules

| Module | What it is |
|---|---|
| `ReviewDecision` | abstract: an item is raised, decided at most once, and accepted only after an action was carried out |
| `ReviewQueue` | the resolve route, the upserts of scans and auto-resolve, MaluDB's side, crashes; implements `ReviewDecision` |
| `ReviewQueueProofs` | its theorems |
| `ScanBudget`, `ScanBudgetProofs` | the two scan loops against the daily caps |
| `Conflicts`, `ConflictsProofs` | the contradiction scan of a subject: grouping, verdict, the statement that is closed |
| `JobRuns`, `JobRunsProofs` | `runJob`, `job_runs`, BullMQ's delivery, crash, shutdown |
| `RemoteCall` | abstract: a call sends requests within a budget and none after its outcome; each may be performed once, however late |
| `MaludbClient`, `MaludbClientProofs` | the request loop of the client and the network under it; implements `RemoteCall` |
| `Sweep`, `SweepProofs` | `runSweep`, watermark, MaluDB's batches |
| `Policy` | operators: parsing, merging and planning of policies |
| `SchemaVersion` | abstract: the schema has a version, which goes up by one whole migration; a process is ready only at the last |
| `Migrations`, `MigrationsProofs` | `migrate()` in processes that start together; implements `SchemaVersion` |
| `Scheduler`, `SchedulerProofs` | extends both: the tenant and policy routes, `applySchedules`, and the start of the two processes |
| `MC...` | instances for TLC |

Each `await` of the code ends an action, because that is where another request,
job or process can step in; what a handler holds in local variables across it is
the record of its request, scan, run or call, and its `pc` names the `await` it
is at. `PROJECT.json` maps every definition to its lines. A few definitions are
marked `Mutant` in their comment: plausible wrong versions of the definition
that follows them, which no next-state relation uses. They show that a property
would notice the mistake.

### ReviewQueue

`items` is `review_items` by dedup key (a conflict is its set of statements, a
cluster is a model value), `valid` and `merges` are what MaluDB keeps, `reqs`
are the resolve requests, `scans` the scan jobs. `Receive`, `ReadItem`,
`RecordReject`, `CallAnswered` / `AnswerLost` / `CallLost` / `CallRefused`,
`RecordAccept` and `ApiCrash` follow the route from top to bottom;
`CompareAndSet` is the `UPDATE ... WHERE status = 'open'` and `Upsert` the
`INSERT ... ON CONFLICT`, which replaces the payload of a row and leaves its
status. A call to MaluDB takes effect and is answered, or takes effect and its
answer is lost, or is given up before MaluDB acts; the client retries up to
`MaxAttempts`. A request that was given up, or whose sender died (`ApiCrash`,
`ScanCrash`), may be lost or be one of `late`: it takes effect whenever it arrives
(`Arrive`), after the 502, after another operator's reject, or after the item was
accepted by somebody else. `late` is a set, so that of several requests alike one
arrives. A body that
breaks off after the headers fails the call at once, as in `client.ts`.
Confidences may change between scans, so a scan may propose to close any member
of a group. `asked` and `carried` are history variables: what operators asked
to accept and what MaluDB carried out.

`ReviewDecision` is deliberately weak where the code is: an action may be
carried out for an item that is rejected in the end, or has been rejected long ago.

### ScanBudget

`today` is the sum that `getDailyCost` returns, `by` (history) each slot's part
of it. A scan takes its `snapshot` at `Start`; `OverBudget` compares snapshot plus
`own` with the caps before every subject and every group, as `overBudget()`
does. `Record` is `recordCost`. `NewDay` empties the day's sum under running
scans. `unrecorded` and `lost` are history: billed calls without a row. Subjects
and groups are counted. A slot is the place of one scan at a time, so that the
set `Scan` bounds how many overlap.

### JobRuns

A job's place `at` is where its `runJob` stands: row not yet created, handling,
returned, threw, resolved or rejected. A handler is one step with its outcome.
A statement that fails is a `Fault`, taken on the path the code takes: a
`completeJobRun` that throws after a good run is caught and the run recorded as
failed. `Shutdown` closes the worker and waits for its handlers before it ends,
a crash does not; `Stalled` is BullMQ returning a job whose worker is gone, up
to `MaxStalled` times. Rows carry, as history, how their handler really ended.

### MaludbClient

`attempt`, `response` and `result` are the locals of `request()`. `inflight`
holds the attempts whose request has not reached MaluDB: a time-out aborts the
attempt for the client alone, and its request may be performed later, also after
the call has thrown. An answer other than 2xx does not say that nothing was
performed. Status codes are five classes, back-off is a place, a timer may fire
whenever `fetch` is pending.

`RemoteCall` is what a caller may rely on, and all of it: a value means that the
operation was performed, a time-out or network error that the budget is used up, and
an error of any kind neither that nothing was performed nor that nothing will be. The
refinement maps `attempt` to the requests sent; that a request arriving late is one of
those is why it needs `PerformedPerAttempt`.

### Sweep

`runs` are the locals of `runSweep`. MaluDB (external) locks what a batch claims
and skips what another has locked; it deals with an item or reports an error and
leaves it dirty; a batch nobody waits for goes on (`abandoned`, `Release`).
`taken` and `missed` (history) count claims per run. `NoAnswer` is the client's
attempt without a usable answer: it asks again while it has attempts, or throws, out
of attempts or at once, as for a status it does not retry (`client.ts:273`) or a
body that breaks off or is no JSON (`client.ts:314`).

### Conflicts

`said` and `closed` are MaluDB's statements. Others assert them, and `Revise` their
confidence and `Withdraw` them while scans run; `held` and `withdrawn` (history) keep
the confidences that a statement has had and what others closed. Slot and object of a
statement stay. A scan lists up to `ListLimit` of them in an order that does
not change, drops those that are closed *now*, and works on that list, with the
confidences that were listed, while all of this goes on (`List`, `Judge`, `Record`,
`Resolve`). `FindCandidateConflicts`
is `detect.ts`, a slot being a pair of verb and predicate with null as one
predicate. `ParseVerdict` is `judge.ts`: an answer that is not JSON, lacks a
numeric confidence, gives one outside 0 to 1, or has something else than a Boolean
for its contradiction, which `Boolean()` takes for true if it is a text such as
`"false"`. `IsLoser` is the stable sort by
confidence of which the first is closed. `Accept` is an operator accepting an
item at any later time, for which ReviewQueue has the race. A close that arrives after
its scan has gone on is the close of a scan of another slot that is slow: the theorems,
which hold for any number of scans, have it. `warrants` (history)
says on which answer about which group the program closed a statement. `Break` ends a
scan at any `await`.

### Policy

Parsing fills in every default, which all settings have but two optional models;
merging goes down to every leaf, `schedules`
entry by entry and field by field; the merged document is validated again.
A schedule entry needs a cadence unless it is disabled, a `cron` goes before an
`every`, and an empty string is none. The other settings are a set of paths
with legal values and defaults: nesting plays no part in a merge of leaves.
`ToJson` is what `JSON.stringify` makes of a parsed policy on its way into the
`jsonb` column: the identity, but for an infinite number, which `z.number()` accepts
where it is not bounded and which is written as null.
`Gate` is the setting that enables a scan beside its entry, `Params` the settings
that its payload freezes.

### Migrations

`schema` is what exists, `ids` the rows of `schema_migrations`, `boot[p]` how far
a process is and which migrations it takes for applied. `CREATE TABLE IF NOT
EXISTS` is two steps (`Connect`, `CreateTracking`): Postgres looks, then creates,
and a second creator fails. A transaction is `RunSql`, `Record`, `Commit`; DDL of
another waits for it (`Locked`) and fails on what it then finds. `CommitLost`
commits and takes the answer away. `applied` (history) counts commits. For
`SchemaVersion` the version is the number of migrations whose tables and columns are
all there, as a query would see them, not the rows of `schema_migrations`. An error
ends `main()`, and with it the process, which its deployer starts again.

### Scheduler

`tenants`, `policies` and `repeatables` are what Postgres and Redis keep, `sched` the
locals of `applySchedules`: `ListTenants`, then for each tenant `ReadDefault` and
`ReadTenant`, two statements between which a request may post, then one `AddRepeatable`
for each job of the plan. A stored default policy that does not parse, a merged policy
that does not validate, an interval that does not parse or a cron expression that BullMQ
refuses throws, and ends the worker (`Abort`) with the tenants that come later
unregistered. Adding a repeatable that exists keeps the old payload or the new one.
Nothing is ever removed. A policy is stored as `POST /v1/policies` stores it, parsed,
and so with all defaults, and converted to JSON; `given` keeps, as history, the document
that was posted, `posted` all of them, and `quiet` says that no request came since the
tenants were listed.

## 3. Runs

| Run | Instance | What it shows |
|---|---|---|
| `review_safety` | 2 statements, 1 cluster, 2 requests, 1 scan, 2 attempts, 1 merge | the queue's rows and replies stay true when two operators' requests race each other, a scan, and requests that arrive late |
| `review_refinement` | 2 statements, 2 requests, 1 scan that records items and resolves them itself, 2 attempts | the queue implements `ReviewDecision`; requests end |
| `budget` | 2 slots, call cap 2, token cap 2, up to 2 tokens a call, 1 subject, 2 groups, 1 midnight, 1 lost call | caps, meter, termination |
| `jobs` | 2 jobs, 2 handlers, 2 stops, 2 failing statements, `maxStalledCount` 1 | ledger, BullMQ, redelivery, termination |
| `client` | 2 calls, 2 retries | the client implements `RemoteCall`; results, termination |
| `sweep_restless` | 2 items, batches of up to 2, 2 batches a run, 2 runs, 2 troubles, a tenant that never rests | totals, stop reason, termination by the cap alone |
| `sweep_liveness` | 2 items, batches of 1, 2 runs, 3 troubles | nothing stays dirty |
| `startup` | API and worker, 1 crash, 2 tenants and the default policy, 2 versions, 3 requests, 6 documents, 2 job types | migrations, stored policies and repeatables are right however the two starts, the requests and a crash interleave; `migrate()` implements `SchemaVersion`; everyone starts in the end |
| `conflicts` | 3 statements, 2 slots, 2 objects, confidences none and 1, threshold 1, lists of up to 3, 2 scans, 2 items, 6 kinds of answers, 1 confidence revised or statement closed by others | groups, the statement that is closed, and why |
| `review_double_execute` | 2 racing accepts | *violated*: see section 5 |
| `scheduler_resync` | 1 tenant, 1 version, 2 requests, 4 documents | *violated* |
| `policy_sparse_override` | the same | *violated* |

**The properties.** *Review queue.* `AcceptedWasCarriedOut`: the result stored with an
accepted item is an action that MaluDB carried out for it, and its memory still shows
it. `NothingWithoutAccept`: without auto-resolve, nothing is closed or merged that
nobody asked to accept. `RepliesAreTrue`: whoever is told "resolved" made the decision
the item shows, one request at most; whoever is told 409 lost to a real decision.
`DecisionIsFinal`: no re-scan, crash or later request changes status or result.
*Budget.* `SlotWithinCaps`: a slot's rows of one day are within the call cap, and pass
the token cap by less than one call; `DayWithinCaps`: n overlapping scans stay within n
times that, and no more; `MeterIsExact`: a billed call without a row is being recorded,
or was lost to a failure. *Jobs.* `LedgerIsTrue`: a failing statement costs the truth of
one row, a crash that of the rows being worked on, and nothing else makes a row wrong;
`CompletedMeansDone`: what BullMQ calls completed has a last row that says so, and its
handler did; `OneRowPerDelivery`; `HistoryIsFrozen`: a row whose run is over is never
written again. *Client.* `ImplementsCall`: a call is a `RemoteCall`; `ResultsAreTrue`,
`TerminalIsFinal`. *Sweep.* `TotalsAreExact`: the total differs from what MaluDB claimed
for the run by the batches whose answer it never had; `ReasonIsRight`: "drained" after
an empty batch even if it was the last one allowed. *Start-up.* `AppliedOnceInOrder`: a
migration is recorded if and only if what it creates is there, and was committed once,
after the earlier ones; `ImplementsVersions`: the schema that queries see goes up one
whole migration at a time, never down, and who has returned from `migrate()` has all of
it; `SomebodySurvives`: a race alone never ends both processes. `FinitePoliciesResolve`:
what the API accepted for a tenant and for all can be read back, parsed and merged if
and only if neither document gave an infinite number; whatever else they leave out,
disable or combine, the parser does not stop the worker; `QuietStartRegistersPlans`: a
start that no request falls into registers what every enabled tenant's policy asks for;
`PayloadsHaveAuthors`: each cadence and each setting frozen in a payload is a default,
or was given for this tenant or for all, also when the default policy and a tenant's
change between the two reads. *Conflicts.* `GroupsAreConflicts`: two listed statements
share a group exactly if their slot holds a disagreement; `BestSurvives`: on lists
however stale or cut off, and with items accepted however late, the program never closes
a statement that was above all others of its slot (the last listed of equals) by every
confidence that it and they have had, and a slot in which nobody else revised or closed
anything keeps a statement in force; `ClosedAfterVerdict`: what others did not close was
closed after an answer that is JSON, has a contradiction that JavaScript takes for true,
and has a number for a confidence that reaches the threshold. Liveness: `RequestsEnd`,
`ScansEnd`, `JobsEnd`, `CallsSettle`, `SweepsEnd`, `EverythingIsSwept`, `EveryoneBoots`.

**Why the bounds are enough.** The races need two of whatever races; a third statement,
call or job adds no new pair. Two attempts give a first failure, a retry and an
exhausted budget. Caps of two and two groups let a scan pass its check, spend and check
again, and let a second one do so in between; token cap 2 with calls of up to 2 tokens
reaches the overshoot. One midnight suffices: a snapshot is of today or of an earlier
day. `MaxStops` of two reaches the second stall, with which BullMQ gives a job up, and
two faults reach the double failure in `runJob`'s catch block. Batches of up to two, two
batches a run: empty, partial, full and last batches all occur. One merge per cluster is
enough for an accept that repeats another's to find its effect there; that a merge may
be repeated is the business of `review_double_execute` and of `client`. The one mode of
`review_refinement` raises an item and closes its statement, racing the accept of the
item; the theorems hold for every set of modes. The two processes are all there are, and
there are two migrations; one crash can hit any step of either. Two tenants and two
versions let a policy be overwritten, superseded and confused with another's, and three
requests change the default, a tenant's policy and a tenant within one start. The six
documents of `startup` are one that switches a scan on, an interval and a cron
expression that do not parse, one with an infinite number, and two that validation
refuses. Three statements give a group of three, a group beside a lone statement of
another slot, agreement beside disagreement, and a scan whose list a second scan has
made stale; a null confidence counts as 0, so that null and 1 give a better, a worse and
an equal rival, and one revision reaches the case in which a late accept and a second
scan close both rivals of a slot. Two items let two operators' accepts close two rivals;
a scan with a third stops. The answers are one of each form that `parseVerdict`
tells apart and the scan does not flag, and one that it flags. `MaxMerges`, `MaxLost`,
`MaxDays`, `MaxStops`, `MaxFaults`, `MaxTrouble`, `MaxCrashes`, `MaxChanges`, `MaxItems`,
`MaxSubjects` and `MaxGroups` bound what has no bound in the code; `ListLimit` is the
code's limit of a list, smaller. Symmetry is used where a run checks no liveness.
`CHECK_DEADLOCK FALSE` stands where all jobs, calls or sweeps may be over.

## 4. Fairness

- `Handle(r)` (requests), `Step(w)` (scans), `RunJob(j)`, `Step(w)` (sweeps):
  Node runs a promise whose awaited operation has settled, and Postgres, the
  model endpoint and `fetch` settle in the end. Fairness is on the handler's
  steps as a whole, never on the good outcome.
- `Client(c)`: the client's timer settles a pending `fetch`, the back-off timer
  fires. A body that is being read arrives or breaks, which `client.ts` leaves
  to Node's own body time-out.
- `Pick`, `Stalled`: BullMQ serves its queue and runs its stalled check.
  `StartUp`: a stopped worker is started again, by whoever deploys it. `Exit`: a
  closing worker whose handlers are done ends.
- `Starting(p)` (start-up): a started process takes its steps, an ended one is
  started again by whoever deploys it. Nobody has to post anything, and a worker that a
  bad policy ends again and again satisfies it; what `EveryoneBoots` promises is that it
  gets through `migrate()`. `ApplySchedules`, for `ChangesResync` alone: a worker that is
  up goes on.
- `Release(i)`: MaluDB ends a batch that its client has abandoned.
- `ScheduledSpec`, for `EverythingIsSwept` alone: the schedule fires again and
  again, and the endpoint is there: strong fairness on `Claim`, since an answer
  501, the other step out of `asking`, could else end every sweep before its
  first batch. The instance has a tenant that changes items boundedly often: MaluDB's
  choice of the items in a batch is unknown, and with an unfair choice and a
  restless tenant an item could wait for ever.

Crashes, lost messages and failing statements have no fairness.

## 5. Where the code and its documents disagree

The runs that are violated state a sentence of the repository.

- `NeverDoubleExecutes`: `review-items.ts:55-57` says its guard keeps a caller
  from executing an action twice; the route executes before the guard, so two
  accepts that both read an open item both execute. `docs/HANDOFF.md:85-88`
  knows of it.
- `ChangesResync`: `docs/worker-design.md:91` says that changing a policy re-syncs
  the repeatable set; `scheduler.ts:69` adds repeatables when the worker starts,
  and nothing adds or removes one later.
- `OverrideIsSparse`: `docs/policies.md:7` and `schema.ts:6` call a tenant's policy
  a sparse override. `routes/policies.ts:18` stores it parsed, with every default
  filled in, so that the merge takes the schema's defaults for the tenant's wishes.
  Only schedule entries of the stored default policy, and `models.low_priority` and
  `models.high_quality`, which are optional without a default (`schema.ts:169-170`),
  reach a tenant with a policy of its own.

More were read off the code and have no run.

- *Review.* A scan that finds the same conflict again replaces the payload of the
  item, accepted or not (`review-items.ts:27` against
  `packages/job-contracts/src/review.ts:6-8`).
- *Scans.* Overlapping scans compare with snapshots that do not contain each other's
  calls (`scans.ts:45` against `docs/requirements.md:95`); `DayWithinCaps` is what
  remains. The prompt asks for `<true|false>`, but `judge.ts:40` takes `"contradiction":
  "false"`, a text, for a contradiction, and the scan acts on it. A loser is chosen by
  the confidences that were listed: if they are revised, an item accepted late and a
  later scan can close both rivals of a slot (no text promises otherwise; `BestSurvives`
  says what is left). A model call that throws ends the scan (`scans.ts:69` against
  `docs/worker-design.md:74`). The policy's `group_by` is not read by `detect.ts`.
- *Jobs.* No `attempts` is set anywhere, so BullMQ's default of one holds
  (`workers/index.ts:76` against `docs/requirements.md:58`). Jobs of one tenant and
  type can overlap (`jobs.ts:43` against `docs/worker-design.md:92`), which is why
  the modules let them. A sweep that is delivered again starts over
  (`sweep-runner.ts:46` against `docs/architecture.md:112`).
- *Client.* The body is read outside the `try` (`client.ts:314` against
  `types.ts:17`). A retried `consolidate` may be performed twice (`client.ts:249`
  against `client.ts:44-45`); `RemoteCall` says how often at most.
- *Tenants and policies.* Unhealthy tenants are scheduled like the others
  (`scheduler.ts:67` against `docs/worker-design.md:22` and
  `docs/requirements.md:39`). A tenant that is posted again without `enabled` is
  enabled (`tenants.ts:20`). A tenant that replaces a default `cron` by an `every`
  keeps the `cron`, since the merge keeps both. The default policy and the tenant's
  are read in two statements, so that a plan may mix two moments
  (`policy.ts:10` and `16`). A cadence that does not parse passes the schema and
  ends the worker for the tenants after it (`scheduler.ts:13`, `67-69`).
- *Policies.* `docs/policies.md:8` says that ranges are bounded and unknown keys
  rejected (`docs/requirements.md:110`: "rejected or warned"); zod drops unknown keys
  without a word, and the scoring weights have no bounds at all, the domain weights no
  upper one (`schema.ts:16`, `21-28`, `34`). A number that is infinite (`.inf` in YAML,
  `1e999` in JSON) is answered with 201, stored as null (`policies.ts:19`), and throws
  when it is read: for all tenants at `policy.ts:12` if it is in the default policy,
  else at `merge.ts:31`. The worker then ends at every start, until a later version or
  the same one is posted again.

## 6. What is proved

All theorems hold for every value of the constants, under the named assumptions
of the component's module.

**ReviewQueueProofs.** `TypeCorrect`, `AcceptedCarriedOut`, `AcceptRequired`,
`TrueReplies`, `DecisionsAreFinal`, `QueueImplementsDecision`. The properties
are not inductive: between the execution of an action and the compare-and-set,
nothing they mention knows that the action was carried out. `IInv` adds `Keyed`
(requests and scans past their first step are about an item) and `Support`: a
request at `executing` was asked to accept an existing item and holds an
executable action proposed for it, at `recording` the action is in `carried`; a
scan past its judgement holds a proposal for its key, and reaches `resolving`
only with auto-resolve; an item that was raised stores a proposal for its own key; a
late request carries an executable action that was proposed for an item somebody asked
to accept, or a close that some payload allows. `Effects` says that what an accept
carried out was proposed for its item and is in force at MaluDB: no step, late or not,
opens a statement again or undoes a merge.
The proof has one lemma per action. The refinement maps every step to a raise,
a carried-out action, an accept, a reject or a stutter; that an accept is
enabled there is `Support`'s clause on `recording`.

**ScanBudgetProofs.** `TypeCorrect`, `SlotsStayWithinCaps`, `DaysStayWithinCaps`,
`MeterStaysExact`. `IInv` adds `SeesOwnSlot` (a running scan's snapshot
plus own spend is at least what its slot has recorded today, also after
midnight), `Checked` (the caps' checks hold until the call they allow is
recorded) and `RowsAreCounted` (a slot's rows are among the day's). The meter's
proof uses cardinalities of finite sets of slots and no other invariant than
types. A sum over the slots is taken without recursion, as the size of the set of pairs
of a slot and one of its units (`Units`): `Summed` says that the day's sums are these,
and bounding each slot's units bounds the set, so that the caps of n slots follow from
those of one.

**MaludbClientProofs.** `TypeCorrect`, `PerformedAtMostOncePerAttempt`,
`ClientImplementsCall`, `TrueResults`, `TerminalAnswersAreFinal`, for every
`maxRetries` and any number of calls. `IInv` adds `Numbered` (requests on their way
carry the numbers of attempts made; no attempt is made beyond the last) and `Sound`
(an answer in hand or on its way is one MaluDB could give). For the refinement, a
request on its way has not been performed yet (`PerformedPerAttempt`), so that one
which arrives is below what was sent.

**JobRunsProofs.** `TypeCorrect`, `LedgerIsTrueUpToFaults`,
`CompletedJobsAreDone`, `RowsAreDeliveries`, `HistoryStaysFrozen`, for every set
of jobs, finite or not, and every concurrency. `Lawful` relates, job by job, the
place of its `runJob`, BullMQ's state, its stalls and its rows. For the ledger, a
row whose catch block is about to turn a good run into a failed one is not wrong
yet, so the number of wrong rows is not inductive: `Debt` also has the rows that
will be wrong, and its size is bounded by the faults and by `Concurrency` rows a
crash, since no more handlers than that are running.

**SweepProofs.** `TypeCorrect`, `TotalsStayExact`, `ReasonsAreRight`, for every
set of items and runs. `Lawful` keeps, for one run, the account of what was
claimed: total, missed and held. `Apart` says that what two runs hold is disjoint,
without which releasing one batch could take items out of another's account.

**ConflictsProofs.** `TypeCorrect`, `GroupsAreTheConflicts`, `TheBestSurvives`,
`ClosedWithAVerdict`. `SlotHasABest` shows that the order by confidence and place has a
greatest member in every slot. The stable facts are that a group stays a group of one
slot, that what is acted on was flagged, and that a loser stays *beaten*: another
statement of its slot was above it by confidences that the two have had. Since `held`
only grows, this is true in a scan's hands, in an item and after the close, whatever
others revise; it contradicts a statement that was above all others by every confidence,
and where nothing was revised it leaves the greatest member open. The last theorem has
the hypothesis `MinConfidence > 0`: with a threshold of 0 an answer without a confidence
is enough.

**MigrationsProofs.** `MigrationsAreApplied`, for every set of processes: the three
safety properties, from `Whole` (the schema is what the recorded migrations
create, each committed once), `Alone` (one transaction is open at a time) and
`Knows` (what a process takes for applied is). A failed process has lost to another
that was still on its way, which is `Survivor`. The list of migrations is the code's
two. `MigrateImplementsVersions`: what a transaction has created is seen by nobody
before it commits, so the version moves at `Commit` and `CommitLost` alone, where
`Whole` makes it the next one.

**SchedulerProofs.** `MigrationsHold`, `SomebodyAlwaysSurvives` and
`StartImplementsVersions` carry these over: a step of the whole is
one of `Migrations`, a worker giving up, or none of its business. `TypeCorrect`,
`FinitePoliciesAlwaysResolve`, `PayloadsAlwaysHaveAuthors` and
`QuietStartsRegisterPlans` hold for every set of tenants, versions, job types,
settings and documents. `Stored` says that a row is a valid document that was
posted, parsed and converted to JSON; `Local` that the base, the plan and the
repeatables were made of such rows, the base of the default's and the plan of this
tenant's; `Fresh` that, while quiet, they are made of the current rows, and that the
tenants done so far have their repeatables. `StoredPoliciesReadBack` is why it does
not matter that a policy is parsed when it is posted, again when it is read and again
when it is merged: a row without an infinite number parses to the very policy it was
made of, and one with such a number is refused, alone or merged onto any base.
`OwnPolicyAlwaysWins` is the
general form of what violates `OverrideIsSparse`: in every reachable state in which
the stored policies resolve, the merged policy of a tenant with a policy of its own has
that policy's settings, but for those that have no default, whatever the default policy
says. That a least tenant and a latest version exist is proved by
well-founded induction from the library.

**What liveness rests on.** Fairness is beyond the prover, the rest of a termination
argument is not. `RequestsRunDown`, `ScansRunDown`, `JobsRunDown`, `CallsRunDown` and
`SweepsRunDown` give each request, scan, job, call and sweep a number of steps left, in
closed form from the constants, and show that whatever step is taken by whomever, it
stands still or the number goes down: no retry, redelivery, midnight, restless tenant
or lost answer sets it back. What `RequestsEnd`, `ScansEnd`, `JobsEnd`, `CallsSettle`
and `SweepsEnd` need beyond that is section 4.

**Model-checked only.** The liveness properties themselves, and of them
`EverythingIsSwept` and `EveryoneBoots` without a count of steps: the one is about many
sweeps, the other about processes that crash and start again. Mutual exclusion by
Postgres and BullMQ is assumed where section 7 says so.

## 7. Not modelled, and why

Prompts, URLs, logging, metrics, and the YAML of policies: data without control.
Model adapters: one HTTP call, whose outcomes are inputs of `ScanBudget` and
`Conflicts`. Tenant health and `policy.evaluate`: the one overwrites a row that
no code reads back, the other writes nothing. The wiring of the two `main.ts`, but
for the order of `migrate()`, `applySchedules` and the shutdown. Scores: real
arithmetic. The search that clusters memories for consolidation is MaluDB's; a
cluster is a model value. The lifecycle action of `executeProposal`:
executed as the others, proposed by no scan. Columns, types and indices of the
schema. A tenant that is called `default`, whose policy would be the base itself.
The cadence of repeatables: a job is enqueued at any time. Time: a timer may
fire whenever it runs, and the
time-out that stops counting when the headers arrive (`client.ts:257`) shows only
in the fairness of `CallsSettle`. Two worker processes: BullMQ's locks, lost while
the holder is alive, and Redis losing its data, are outside what the code handles.
Of requests to MaluDB that were given up and are alike, `late` keeps one: whether a
second or third merge follows is counted in `MaludbClient` only.

## 8. Plan

Done: the eight component modules, three abstract specifications (`ReviewDecision`,
`RemoteCall`, `SchemaVersion`) that they implement, and proofs of all their safety
properties, refinements and step counts. Left, in this order:

1. The composition of `Scheduler` and `JobRuns`: what a repeatable whose tenant was
   disabled enqueues, which `context.ts` does not refuse.
2. `ReviewQueue` and `Sweep` on top of `RemoteCall`, in place of their own attempts.
3. Abstract specifications of a sweep (each item is dealt with by one batch) and of the
   ledger of runs.
