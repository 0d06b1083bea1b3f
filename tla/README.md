# A TLA+ model of license-manager

license-manager is a Django service that keeps *subscription plans* and their
*licenses* for enterprise customers.  A license is unassigned, assigned to a
learner's e-mail, activated by the learner, or revoked.  Web workers and celery
workers change the same rows at the same time.  There is no `ATOMIC_REQUESTS`
and no `select_for_update`: a request is a sequence of SQL statements, some of
them inside `transaction.atomic`, and most updates write a row read earlier.
The only mutual exclusion is a lock that lives in a cache.

This directory models that concurrency: what the code reads, how long it keeps
what it read, and what it then writes.  `PROJECT.json` maps every definition to
the lines it models.  Paths below are relative to `src/license_manager/apps/`.

## 1. Inventory

| Component | State | Operations | Hard behaviour | What makes it correct |
|---|---|---|---|---|
| License and plan rows (`subscriptions/models.py`) | status, user_email, lms_user_id of a license; num_revocations_applied, desired_num_licenses, last_freeze_timestamp of a plan | `save` (`full_clean`, then UPDATE of every field), `bulk_update`, `reset_to_unassigned`, `activate`, `revoke`, `increase_num_licenses` | writes of stale instances | a row names its learner coherently; one license per learner; a revoked license stays as it is |
| Plan lock (`api/utils.py`) | one cache entry per plan | acquire (get, then set), release (delete), timeout | the get/set window, ownerless release, expiry under a running holder, death of the holder | mutual exclusion; never locked for ever |
| Assignment (`api/v1/views.py`) | - | `assign`, `_assign` | under the lock, next to unlocked writers | no license given twice |
| Auto-apply (`api/v1/views.py`) | - | `auto_apply` | no lock, no transaction | one license per learner |
| Activation (`api/v1/views.py`, `models.py`) | - | lookup, clean-up of duplicates, `activate` | several saves of stale rows | never activates a revoked license |
| Revocation (`api/v1/views.py`, `api/tasks.py`, `subscriptions/api.py`) | num_revocations_applied | `bulk_revoke`, `revoke_all_licenses_task` | counter incremented on a stale instance | capacity conserved; cap respected |
| Freezing (`subscriptions/api.py`) | last_freeze_timestamp | select, delete, save | races with assignment and with plan saves | only unassigned licenses go; the freeze stays on record |
| Provisioning (`subscriptions/utils.py`, `tasks.py`) | desired_num_licenses, task retries | save of the plan, synchronous batch, task with semaphore | retries, crashes, two paths of which one has no lock | never more than asked for; eventually as many |
| Renewal (`subscriptions/api.py`, `process_renewals`) | SubscriptionPlanRenewal, renewed_to links, should_auto_apply_licenses | `renew_subscription`, its three callers, `toggle_auto_apply_licenses` | double processing, stale original licenses | processed once; at most one plan auto-applies |
| Renewal administration (`api/serializers.py`, `subscriptions/forms.py`, `admin.py`) | SubscriptionPlanRenewal rows and their chains | create, update, delete by endpoint and form | validation against rows that other requests change | dates in order; chains have an end |
| Plans and agreements (same files) | enterprise_catalog_uuid, the default of the agreement | create, update, forms | default applied late, stale rows saved whole | the catalog is the customer's |
| Subsidy lookup (`api/v1/views.py`, `models.py`) | cached answers of the catalog service | `GET /license-subsidy` | cache key without the catalog | the license pays for the course and lasts longest |
| Listing (`api/v1/views.py`, `pagination.py`, `filters.py`, `api/tasks.py`) | none; refreshes user_email | pages of the admin, the learner's list | rows move between pages, estimated totals, addresses change hands | nobody is hidden; a license keeps to its user's addresses |
| Expiration (`expire_subscriptions`) | expiration_processed | chunks of licenses to the LMS | partial failure, the 24 hour window, chains of renewals | ended with the last plan; processed means ended |
| Unlinking (`unlink_expired_licenses`) | LicenseEvent rows | pages of learners to the enterprise service | other licenses of the learner, failing calls | only learners without a current license, and all of those |
| Retirement (`retire_old_licenses`, user retirement) | PII of licenses and of their history | batches over changing rows, e-mail refresh | pagination under mutation, crash between row and history | no PII is left |
| Transfer jobs (`models.py`, `admin.py`) | completed_at, processed_results | edit, dry run, `process` | repeated runs, crash after the move | moves are reported; a completed job is final |
| Auto-scaling (`process_auto_scalable_plans`) | number of licenses | increments up to a limit | truncation, concurrent growth | grows while it must; never above the limit |
| Expiry e-mails (two commands) | the two sent-dates of a license | batches to Braze | lost answers, rows that leave the query | once for each, nobody left out |
| Utilization e-mails | Notification rows | task with retries | failure between row and mail | one row, one mail, in order |
| Notifications of learners (`api/tasks.py`) | last_remind_date; aliases and links elsewhere | alias, link, mail tasks | unordered and retried tasks | no mail without alias and link |
| After a revocation (`api/tasks.py`) | LicenseAction rows | audit, unenroll, cap mail | lost and repeated tasks | one row each; enrollments end |
| Bulk enrollment | BulkEnrollmentJob, result file | chunks of learners and courses | chunks that fail | a complete file of results |
| Event tracking (`event_utils.py`, `trigger_event_for_licenses`) | LicenseEvent rows | half-year command, batches to Braze | a query changed by its own records, death of the run | told once, everybody told |
| Permissions, other serializers, API clients, seed commands | none of their own | - | - | not modelled: single-request validation or I/O |

Components interact through the database rows (everything), through the cache
entry (assignment and provisioning share one lock per plan), and through celery
messages (provisioning, post-revocation, notifications).  The nightly commands
share the license rows with each other and with all requests.

## 2. Modules

```
LicenseTable      rows, local memory of requests, License.save
PlanLock          the cache entry
 |- Assign        POST .../licenses/assign/
 |- AutoApply     POST .../auto-apply/
 |- Activation    POST /license-activation/
 |- Revocation    bulk-revoke, revoke_all_licenses_task
 |- Freeze        delete_unused_licenses_post_freeze
      LicensePlan   all of them on one plan; the properties
        MCLicensePlan      TLC
        LicensePlanProofs, AssignmentProofs     TLAPS
Provisioning      (uses PlanLock) saves, synchronous and task provisioning
        MCProvisioning     TLC
        ProvisioningProofs TLAPS
Renewal           renew_subscription, its callers, the auto-apply toggle
        MCRenewal          TLC
        RenewalProofs      TLAPS
Entitlement       abstract: the pool of seats, implemented by LicensePlan
        EntitlementProofs  TLAPS

NightlyTable      license rows with dates, history and PII, plans and days
 |- Expiration, Unlinking, Retirement       the nightly commands
      Nightly       all of them on one table, day by day
        MCNightly          TLC
        NightlyProofs      TLAPS

Reminders, Utilization, Notifications, Aftermath, BulkEnrollment, Tracking
      Outbound      what leaves the system, one part at a time
        MCOutbound         TLC
        OutboundProofs     TLAPS

PlanAdmin         catalogs of plans and agreements
 |- Subsidy       the lookup that depends on them
TransferJobs, AutoScaling, RenewalAdmin, Listing, (PlanAdmin, Subsidy)
      Administration    what admins and their commands do, one part at a time
        MCAdministration   TLC
        AdministrationProofs  TLAPS
```

`LicensePlan` and `Nightly` are compositions whose components write the same
variables, so that every interleaving of them is explored.  `Outbound` and
`Administration` put components side by side that share no variable (apart from
`PlanAdmin` and `Subsidy`, which are composed in `Subsidy`).  Every interleaving of
such components projects to a behaviour of each, and each property speaks of one
of them only; so one part, chosen in the initial state, moves and the others rest,
which loses nothing and keeps the state space a sum instead of a product.

### LicenseTable and the requests

`licenses` is the License table.  A row has the three fields the code's
decisions depend on.  `absent` stands for a uuid that was not created yet and
`deleted` for a row that is gone.  The activation key, the dates and the history
are left out; the order of `assigned_date`, which selects the duplicate to keep,
is a nondeterministic choice.

Every request has a program counter `pc`, the e-mails it works for (`todo`), the
license instances in its memory (`view`) and the counter of the plan instance it
read (`plan_read`).  One step is what can be seen by others at once: a statement
outside a transaction, or a whole transaction's writes at its commit.  Reads of a
transaction are steps of their own, since MySQL does not lock what a plain SELECT
reads.  So `AssignCount`, `AssignPick` and `AssignWrite` are three steps although
they are in one `transaction.atomic`, and `RevokeSelect` and `RevokeCommit` two.

`Saved`, `RevokedRow` and `KeepLmsUser` say what each kind of write does to a row
that changed meanwhile: `save` writes every field and inserts the row if it is
gone; `bulk_update` writes the named fields and skips `License.clean`.

`AcquireRace` and `OutliveLock` open the two windows of the lock: two callers
between the get and the set, and a holder that runs longer than
`ASSIGNMENT_LOCK_TIMEOUT_SECONDS`.  With both closed the lock is what the code's
comments take it for.  The windows are parameters so that what the lock protects
and what the windows break can be told apart.

### Provisioning

Licenses are counted, not named: `allocated` and `unassigned`.  A saver loads the
plan, saves it with every field (`freeze_read` is the timestamp it writes back),
and calls `provision_licenses`.  A task is queued, gets the lock or is deferred,
computes the gap once and creates it batch by batch; `TaskError` is the
autoretry of `LoggedTaskWithRetry`, `TaskCrash` the death of the worker.
`SyncOverlap` opens the third window: a synchronous provisioning, which takes no
lock, overlapping another provisioning.  `asked` is a history variable.

### Renewal

`original` is the prior plan: one license per learner, assigned, activated or
revoked.  `future` holds the licenses of every renewed plan that comes to exist,
`renewal` the SubscriptionPlanRenewal, `auto` the plans that auto-apply.  A
processor is a run of `process_renewals`, a request to the `process` endpoint or
the admin action; they differ in which renewals they accept.  Each reads the
renewal and its plans (the lazily loaded plans are read with the renewal), then
the original licenses, then the licenses of the renewed plan, and writes all in
one transaction, or nothing.  The pairing of `zip` is any pairing, since neither
query has an order.

`Overlap` says whether processors, and requests on the renewed plan and on the
flag, may overlap a processor.  The prior plan never rests: its licenses are
activated and revoked at any moment, also between the read of the original
licenses and the commit, which nothing prevents (ADR 0010 asks for a lock period,
and the code reports it, `is_locked_for_renewal_processing`, without enforcing
it).  `changed` remembers, for each processor, whose license changed since it
read them.  The plan form, which may let several plans auto-apply, and edits of
the renewal are left out.

### Entitlement

What a plan promises: seats are free, held or withdrawn; free seats go to learners
who have none, all seats of a request at once; held seats are withdrawn and in
the same moment replaced by as many new ones.  `LicensePlan!Pool` maps the rows to
seats: an assigned or activated row is held by its e-mail, an unassigned row is free,
a revoked one withdrawn.  `ImplementsPool` says that the endpoints, which take five
statements for an assignment and may fail or die at each, implement it: the
abstract step happens at `AssignWrite` and at `RevokeCommit`; every other one is a
stutter.  It holds while the lock's windows are closed; with one open,
`HeldLicenseNotStolen` fails first.  Next to activations it holds up to the first
one that saves over a license revoked since it was read (`NoStaleSave` in
`EntitlementProofs`): such a save makes a withdrawn seat a held one.

### The nightly commands

`NightlyTable` keeps of a license its plan, status, learner, assigned and revoked
day, and of the rows that django-simple-history copies the e-mails in them.
`source` are the licenses with a source record.  A day passes only after every
command ran (`ran`).  Requests (assign, activate, revoke, user retirement, e-mail
refresh, expiration by hand) come between the commands or, with `Overlap`, between
any two steps of them.

* `Expiration` reads the plans that expired within the last day and have no
  renewal, follows `prior_renewals` to the plans they renewed, and ends the
  enrollments chunk by chunk; a chunk may fail, and the flag is then not set.
  `PriorPlans(p)`, what following the property collects, is the least set that is
  closed under `RenewedInto`; no RECURSIVE operator is needed.
* `Unlinking` pages through activated licenses of plans that expired long enough
  ago, keeps those whose learner has no other active license, calls the enterprise
  service and writes the event row.  The list is evaluated once, so that the rows a
  page records do not shift the next one.  The client does not look at the status of
  the answer, so a refusal is recorded as done (`UnlinkFails`).  `due` remembers the
  licenses the run began with.
* `Retirement` runs the three stages of the command.  `BatchStarts` is the query by
  key after the last key of the previous batch; every license takes three
  steps (row, history, source), and the command may die after each.  User retirement
  and the e-mail refresh are requests on the same rows.

Facts seen while modelling: the expiration window is the last 24 hours only, so a
plan that fails is not tried again; a command that dies between the row and its
history leaves the e-mail in the history, where nothing looks for it;
`clear_pii` leaves lms_user_id, so that a refresh brings the e-mail back;
LicenseAction rows keep learner_email; unlinking and purging become due after the
same 90 days (`unlink_expired_licenses.py:57`, `settings/base.py:434`), so that a
learner who is skipped for a license in another plan stays linked for ever when the
purge clears the row before the other license ends.  For that reason
`RunForgetsNobody` speaks of the end of a run and not of every learner in the end.

### What leaves the system

Braze, Segment, the LMS and the enterprise service are sets of what they accepted.
Celery is a set of jobs that run in any order, are retried a bounded number of
times, and may be lost with their worker.

* `Reminders`: the two commands with their windows, batches, sends and marks.  An
  answer may be lost after the mail was accepted.  The window of the reminder is
  exactly one day, that of the expiration mail several.  `reset_to_unassigned`
  leaves expiration_reminder_sent_date, so a license that is given to somebody else
  is not reminded of again.
* `Utilization`: the command chooses the type of alarm from the highest threshold
  that was passed, the task inserts the Notification row and sends in one
  transaction, and is retried as a whole.  Two tasks at once both find no row
  (`TasksOverlap`).
* `Notifications`: alias, link and mail are three celery tasks; the alias and mail
  tasks are linked to the same one and run in any order, each with its retries.
  The reminder's date is written after the mail, so a failure there mails again.
* `Aftermath`: the audit rows with their idempotency guard, the message that ends
  enrollments, and the mail when the cap is used up, which is sent once for each
  license of the request.  A run that finds the audit row skips the enrollments,
  and the task that ends them swallows its errors.
* `BulkEnrollment`: the job row, the task chunk by chunk, the file, the mail.
  `enroll_all` passes by BULK_ENROLL_REQUEST_LIMIT.
* `Tracking`: the half-year command over pages of a list that was evaluated before
  it records anything, and the Braze task for batches of assignments.  An event
  of a license without LMS user fails on a missing key, is logged and recorded all
  the same.  So is one that `track_event` could not send: without SEGMENT_KEY, or
  when the client raises, it writes to the log and returns (`TrackEvent`; `unheard`
  remembers the licenses of lost calls).  Segment may therefore never hear of a
  recorded license; what the command promises is that it made the call.  A refusal of Braze reaches `logger.exception()` without arguments, whose
  TypeError is not among the errors that are retried.

### Administration

* `TransferJobs`: two jobs between two plans, edited by the form, run dry or for real.
  Reading, the transaction and the save of the job are three steps.  A worker that
  dies between the last two leaves the licenses moved and the job open and without
  results, and two admins overwrite each other's results; `desired_num_licenses`
  is not changed by a transfer.
* `AutoScaling`: counting, choosing the current plan, adding.  Numbers are whole;
  `int()` is the floor, which is zero for a small plan, that then never grows.
* `RenewalAdmin`: requests read and validate in one step and save in another.  The
  endpoint edits processed renewals too, and an update that was read before the
  renewal was processed can write processed back.  Renewals of two plans into
  each other can be created; following them from those plans does not end
  (`models.py:847`), which `ChainsEnd` excludes.  `FutureRenewals` and
  `PriorRenewals` are functions on steps, so that no RECURSIVE operator is needed.
* `PlanAdmin` and `Subsidy`: a PATCH of an agreement stores its default catalog
  unvalidated, and plans take it over; the cache key of a content lookup has the plan
  and not its catalog, so that an answer survives a change of the catalog until it
  times out.  `hadAt` and `heldAt` are history variables for that timeout.
* `Listing`: a walk by offset over rows that change their place.  Assignments and
  activations move rows to the front and are harmless; a revocation or a refreshed
  e-mail during the walk may hide another license, and so may the estimated total
  of a plan that holds more licenses than `desired_num_licenses`.

## 3. Runs

| Run | Expect | What it shows |
|---|---|---|
| assign_revoke | pass | Windows closed, two assigners, one revoker: one license per learner, exclusion, no license stolen, revoked rows untouched, and the whole implements the pool of seats |
| assign_activate | pass | The inductive invariant of assignments next to two activators, and the lock is free again and again |
| unlocked_races | pass | All windows open, assignment, auto-apply, activation and freeze: rows stay coherent |
| revoke_cap | pass | One revoker at a time with a cap of 30%: the cap holds and no license is lost, also when the lock's windows are open |
| provision | pass | Two savers, two tasks, faults, assignments: never more licenses than asked for |
| provision_liveness | pass | One saver, one task: the desired number is reached |
| renewal | pass | One command, one endpoint and one admin action, again and again but one at a time: the inductive invariant (one plan, nobody twice, at most one plan that auto-applies), the agreed size, exactly the right learners but for those whose license changes meanwhile, no harm the second time |
| nightly | pass | Three commands, night after night, requests between them, no faults: every expired plan processed, no learner forgotten by a run of the unlinking and none with a current license unlinked, due data purged and no trace left |
| nightly_faults | pass | The same with failing calls, crashes and requests between all steps: enrollments end with the last plan of a chain, and processed means ended |
| outbound | pass | E-mails, audit rows, results and events: once, in order and complete, under retries, lost messages and dead workers |
| administration | pass | Transfers, auto-scaling, renewal records, catalogs and subsidies, lists |
| lock_acquire_race | violation | The get/set window: two assignments write one license |

A property of a run may be a conjunction of named ones of a module (`MailsInOrder`,
`AlarmsSound`, `RenewalsSound`, ...); each of those has a comment of its own, and
for each `PROJECT.json` names a change of the code that breaks it.

`lock_acquire_race` contradicts a sentence of ADR 0014, which the finding in
`PROJECT.json` quotes.  More disagreements follow from the models; they have no run
of their own and can be seen by changing a constant:

* two auto-apply requests of one learner take a license each (`AutoAppliers` with
  two members, UniqueHolder; `views.py:189`);
* an activation that read a license before it was revoked makes it activated
  again (`Revokers` next to `Activators`, RevokedUnmodified and ImplementsPool;
  `models.py:1428`);
* two processors of a renewal at once create two renewed plans
  (renewal's `Overlap = TRUE`, RenewedOnce; `subscriptions/api.py:98`);
* a provisioning task that finds the plan locked too often is given up, and nobody
  fills the gap (DesiredReached with assignments; `subscriptions/tasks.py:51`);
* a holder that outlives the lock (`OutliveLock = TRUE`, OneAssignmentAtATime);
* two revokers: a license revoked twice (ImplementsPool), an increment of
  num_revocations_applied lost (RevocationCapRespected);
* a synchronous provisioning next to a task (`SyncOverlap = TRUE`,
  NeverMoreThanAsked);
* a license of the prior plan revoked while a renewal is processed is carried over
  (CarriedOverExactly for all learners instead of those outside `changed`;
  `subscriptions/api.py:90`);
* a freeze that deletes a license assigned after it was selected, and a stale
  save of the plan that erases last_freeze_timestamp;
* ExpiredPlansProcessed and NoDataLeftBehind with failing calls and crashes, and
  CurrentLearnersLinked with requests during the commands (`CallsFail`, `Crashes`,
  `Overlap` of nightly).

Hazards that no property of a run forbids, since the code has no guard against them,
are in `PROJECT.json` with a note, or here: auto-apply takes licenses between a count
and a slice, so that `zip` truncates the learners (`views.py:1159`); a provisioning
that began before a freeze creates licenses after it (`tasks.py:100`); the cap is a
ceiling of a product of floats (`models.py:744`); a bulk filter combines its
conditions with `and not all` (`serializers.py`, around 703); the admin action
that reverts licenses to a snapshot may restore retired data.

### Bounds

Two learners and two requests of a kind are what every conflict here needs: a
conflict is between two writers of one row.  `Licenses` has one more license
than the learners hold, so that a choice exists, and two spare ones where
revocation creates new ones.  A revocation needs spare licenses in the model
(`FreshLicenses`), so runs with it stop revoking when `Licenses` is used up;
the database has no such bound.  `MaxDesired = 4` or `5` with `BatchSize = 2`
gives no gap, a synchronous gap, a gap of exactly one batch, and two and three
batches with a partial one.  `MaxRetries = 1` reaches both the retry and the end
of the retries.  `renewal` has two learners, up to three licenses and four
slots, so that the renewed plan can exist before with none, some or too many
licenses, can be filled only in part, and can lose one by revocation.  Licenses, learners and requests of one kind are interchangeable,
which the symmetry sets use in runs without liveness.

`nightly` has four licenses in three plans, one the renewal of the other and a third
that expires with it, one learner, four days, and chunks, pages and batches of one,
so that every command takes several rounds and each of its rows can change between
them.  A second learner would repeat the first: licenses interact only through the
learner they share.  The two ages are equal (`UnlinkAfter = PurgeAfter = 1`), as the
90 days of the code are, so that unlinking and purging meet the same rows in either
order.  `MaxCalls = 2` bounds the requests that come between the commands; the
safety properties are proved for every number of them, of days and of licenses, and
with three requests, on three licenses, the liveness properties hold as well (four
minutes).
`nightly_faults` has three licenses, since requests and faults come at every step.

Outbound and administration bound the requests and the faults of each part
(`Max...`): one failure, which the task may retry, and for the batches of events a
second one, after which the task gives up.  Batches hold one or two items of
up to three.  `Listing` has licenses for a walk of three pages and a plan that grows by
one, two users, so that an address changes hands, and by `LargePlan` an
estimated total for the usable licenses and a counted one for the other lists.
`Subsidy` counts time until an answer of the first moment has timed out.

Deadlock is checked except in outbound and administration: there, requests and
faults are counted, and when the bounds are used up the model stops.  In all other
runs an idle system can receive a request.

### Fairness

`FairSpec`: a worker that serves an assignment continues it until it answers
(`AssignStep`), and the cache enforces its timeout (`LockExpire`).  Crashes may
happen at any step and no request has to arrive.  `FairProvisioningSpec`: a
worker finishes a request that saved the plan, celery delivers a queued task and
its worker runs it, an assignment ends, the cache enforces its timeout.
`provision_liveness` has no faults and no other user of the lock, because with
either the code gives up.

`FairNightlySpec`: cron starts every command every day, a command that runs takes its
next step, and days pass; nothing is assumed of requests.  `OutboundSpec`: celery
delivers a message and its worker takes the next step of the task (a task may fail
instead, as often as the bounds allow), and cron runs the two e-mail commands;
requests, deaths and lost messages are never obliged to happen.
`AdministrationSpec`: cron runs the auto-scaling command.  In both the fairness is on
one action, the progress of the part that moves; the liveness properties say which
failures they do not promise to survive (`breaks > 0`, `b.lost`, `outages > 0`).

## 4. Proofs

All theorems hold for every set of licenses, learners and requests.

* `LicensePlanProofs`: `Typed`, and `HoldersAlwaysCoherent`, which needs nothing of
  the lock.  The inductive invariant is `CoherentInv`: the rows in the memory of
  requests must be coherent too, since they are written later whatever happened
  meanwhile, and `bulk_update`, which combines fields from memory with a field of
  the table, may have only assigned rows in memory.
* `AssignmentProofs`: while no window is open (`NoOpenWindow`),
  assignments exclude each other (`LockInv`).  If moreover only assignments give out
  licenses and nobody takes a license away under an activation
  (`OnlyAssignmentAllocates`), `HoldersUnique` and `NoLicenseStolen`, from
  `AssignmentInv`: what an assignment saw when it trimmed the e-mails
  (`TrimmedInv`) and picked the licenses (`PickedInv`) is still true when it
  writes, because nobody else is in the body of the endpoint.  Revocations and
  freezes may run at the same time: they make no license allocated.
  `AssignmentsSound` states that invariant itself.
* `ProvisioningProofs`: `ProvisioningTyped` and `NeverOverProvisioned`, from
  `ProvisioningInv`: the users of the lock exclude each other, at most one
  provisioning is under way, and what it still has to create fits under `asked`.
* `RenewalProofs`: for any number of processors, while nothing overlaps one
  (`~Overlap`), `RenewalKeepsInv`, and from it `RenewedIntoOnePlan`,
  `RenewalGivesOneLicense`, `RenewalAutoAppliesOne` and the action property
  `ReprocessingIsHarmless`.  `RenewalInv` adds to them that one processor works
  at a time and that what it read of the renewal, the flags and the renewed plan
  is still so when it commits (`ReadsCurrent`); hence the transaction finds no
  license that is held and no link (`CommitFinds`).  Nothing is assumed of the
  prior plan.
  Two more need an invariant of their own next to it.  `RenewedPlansHaveTheirSize`:
  `SizeInv` adds to `RenewedSize` that a license that does not exist is in no plan,
  so that the licenses a commit creates are counted once.  `LearnersAreCarriedOver`:
  `CopiesCurrent` says that the original licenses a processor read are those to
  copy, up to its commit, but for the learners whose license changed since.
* `EntitlementProofs`: `EndpointsImplementPool`, the refinement `ImplementsPool`.  It
  assumes `NoOpenWindow`, no auto-apply and one revoker (`OneRevoker`), each of which
  breaks it (see above), and allows activations, with their clean-up of duplicates,
  next to a revocation.  One behaviour of these is left out, by a premise on the
  behaviour and not on who may act: an activation whose save overwrites a license
  that was revoked since it was read (`NoStaleSave`).  So the theorem says that this
  save is the only way out of the pool.  `PoolInv` adds three things to `SeatsInv`,
  what `AssignmentInv` says of seats: the licenses an assignment has picked are
  still free when it writes (`PickedFree`), what a revocation read is in the table
  and of the same learner when it commits (`RevocableRead`), and a license in the
  hands of an activation is still of its learner, or revoked (`ActivationRead`).
  Then `AssignWrite` is one `Grant`, `RevokeCommit` one `Withdraw`, and each other
  action a stutter.
  Two more theorems say what revocations cost.  `CapacityIsKept` needs only that
  nobody freezes the plan: `SizeInv` says that activations and auto-applies save
  rows that count, and that a revocation read rows that exist, so that the licenses
  it adds make up for those it takes out, even when another one took them out too.
  `RevocationsAreSound` (`CapPremise`: one revoker, one activation at a time, no
  auto-apply, assignments that exclude each other) allows every stale save of the
  activation.  `CapInv` says of every license in the hands
  of an assignment, an activation and the revocation what the others may have done
  to it meanwhile (`HandsInv`): a license that was read as activated still is
  (`ChargedStay`), and one that was read as assigned has never been activated as
  far as the row knows, so that every row revoked after an activation has been
  counted (`SpentCounted`).  That assignments exclude each other follows
  from `NoOpenWindow`, or from there being one; in the run it is one, with
  both windows open.
* `NightlyProofs`: four invariants, each on top of the types of the table and of
  the commands (`Typed`).
  * `NoDataIsLeft`, for `Crashes = FALSE` and with `Overlap` allowed.  `DataInv`: a
    row without an e-mail is `Traceless`, or a process that cleared it stands
    before the statement that does the rest.
  * `EnrollmentsAreSound`, with crashes, failing chunks and overlapping requests.
    `EndsInv` says what the command in progress has collected: plans that have
    expired, chains that are due, and, while no chunk failed, every early license
    of the plan either ended or still in a chunk.  It assumes `RenewedPlansOutlast`,
    that a plan expires no later than the one it is renewed into.  The admin form
    demands this (`forms.py:232`); the serializers demand only that the renewal
    takes effect after the prior plan starts (`serializers.py:1047`), and with a
    renewal made that way the command may mark a prior plan that still runs.
  * `LearnersStayLinked`, for `Overlap = FALSE`.  `LinkedInv`: e-mails of allocated
    rows are known, one process at a time reads and writes e-mails (`Turns`), and
    the page of learners to unlink contains nobody with a license in a current plan.
  * `NobodyIsForgotten`, for `Overlap = FALSE` and any sizes and ages.  `RunInv`: every
    license that was due when the run began is still to come, in the page at hand,
    or done with, whatever the records of earlier pages did to the query.
* `OutboundProofs`: over `OutboundSpec`, all safety properties of the run, and the
  action properties among them: `MailedOnce`, `RunsCoverTheirCount` (the half of
  `ExpiryMailsSent` that is no liveness), `AlarmsAreSound`, `MailsKeepOrder`,
  `AuditIsComplete`, `ResultsAreComplete`, `HalfYearIsTold`.  Each part has its own
  inductive invariant.  What they have in common is a statement about the place a
  task has reached: what it has read, what it has sent and not yet recorded, and
  that this is true of no other task.  `RemindersInv`, for instance, says that a
  license which was mailed is marked unless the batch between send and mark
  contains it, and that everything counted and still due lies ahead of the run.
  `TrackingInv` distinguishes a license that Segment heard of from one whose call
  was lost, and says that a record closes both.
  `PartsRun` takes the parts apart: a step of `OutboundNext` is a step of one part
  and leaves the variables of the others alone.
* `AdministrationProofs`: in the same way over `AdministrationSpec`:
  `MovesAreReported`, `TransfersAreFinal`, `LimitsAreKept` (the safety half of
  `ScalingSound`), `RenewalsAreSound`, `CatalogsOfCustomer`, `SubsidiesAreSound`,
  `AddressesOfOwners` and `WalksAreComplete`.
  * `RenewalsAreSound`: `RenewalAdminInv` keeps, of the rows and of the requests that
    have validated and not yet saved, what makes `FutureRenewals` and `PriorRenewals`
    walks of a finite injective relation; that a walk which began outside it never
    returns (`WalkNeverReturns`) and ends (`WalkEnds`) follows from the finiteness
    of the renewals, with the pigeonhole principle.
  * `CatalogInv` adds the default of the agreement and the catalogs of requests that
    have not saved yet: all are the customer's own or came by an unvalidated PATCH.
  * `SubsidyInv` keeps for every cached answer and every answer on its way that some
    catalog within the timeout justifies it, and that time makes none of the
    recorded moments newer than they are.
  * `AddressInv` adds that the address of a user and the one in his token, which
    may be older, are among those he had.
  * `WalkInv` counts the holders ahead of a license: while rows only move to the front
    their number never falls, so that nobody who was not shown yet gets before the
    next offset.

Each step lemma has one case per action.  `assign_activate` checks `AssignmentInv`,
which contains `CoherentInv`, and `renewal` checks `RenewalInv`; the other inductive
invariants are only proved, and runs check what follows from them.

Where an argument is an induction (over pages, chunks, the links of a chain), it
takes the least number at which the claim fails (`LeastNumber`), since the library's
induction theorems take an operator, which the backends cannot instantiate.
`LeastNumber` itself comes from the library's fact that the order of the numbers is
well-founded, which speaks of a set of pairs.  A recursive function (`FutureRenewals`) is
unfolded from the existence of its graph (`WalkExists`), and the least set of
`PriorPlans` by giving a closed set that contains it.

What the theorems assume of constants is what the modules assume by name, in the
ASSUMEs that TLC evaluates.  `RenewalAdminAssumption` has the ids of renewals as
finitely many numbers above zero, which keys of database rows are.

Only model-checked: liveness, which needs fairness and ENABLED (`LockFreedAgain`,
`DesiredReached`, `ExpiredPlansProcessed`, `DueDataPurged`,
`ExpirationTold` in `ExpiryMailsSent`, `AssignedEventuallyTold`, `RevocationFollowed`,
`JobAnswered`, `AssignmentTold`, and `CurrentPlanScaled` in `ScalingSound`).
`OneAssignmentAtATime` and `RevokedUnmodified` have no theorem of their own: the
first is little more than its premise, the closed windows, and the second holds
only where nobody activates next to a revocation.

## 5. Not modelled, and limits

* Permissions and roles, the parsing of requests, search and custom ordering of the
  lists, the CSV and the staff lookups: they read, and no other request depends on them.
* The API clients: their answers and failures are inputs of the models.
* Fields of plans and agreements that one request writes and no decision in the
  models reads (titles, products, salesforce ids); reporting properties.
* The signal handlers that send one event for a row that was saved.
* The admin action that reverts licenses to a snapshot, and the bulk deletions,
  which operators run while the service rests.
* Migrations, settings, and the seed and data-manufacturing commands.
* Products of floats (`ceil(num_licenses * (revoke_max_percentage / 100))`, the
  percentages of auto-scaling) are computed on integers here.
* The request-local tier of `TieredCache`, which may serve a worker a stale
  entry of its own, is not modelled.

## 6. Plan

Every safety property of a passing run is stated by a theorem, but for the two named
at the end of section 4.  What is left:

1. What holds of assignments next to an auto-apply, told apart from what does not.
2. `NoDataLeftBehind` for crashes, of all rows but those a dead process had begun.
