# NAMO, modelled in TLA+

NAMO collects public procurement notices for several tenants, matches them with
the tenants' filters and delivers what is new as HTML reports. It is one Go
program over one PostgreSQL database and one directory of report files; several
copies of it (the `serve` process, commands such as `generate-report` and
`collect`, web requests) run side by side and meet only in the database and the
directory. This project models that meeting: who may claim, write, complete and
remove what, and what is left behind when one of them stops half way.

## The system and its parts

| Part | State | Operations | Meets the others through |
|---|---|---|---|
| Report lifecycle (`internal/app/postgres_report.go`, `report_runner.go`, `report_delete.go`) | `reports` rows: status, attempts, claim token, claim time, path, deletion | claim due reports, claim manual, retry, reclaim, publish under the claim, finalize, record failure, delete | row locks, schedule lock, advisory lock, file directory |
| Windows of a schedule (`postgres_digest.go`, `migrations/0002`) | `digest_windows`, `digest_window_items`, `schedules.last_success_at` | select, freeze, complete | the report job; formerly the mail digest |
| Report files (`internal/report/files.go`) | the directory | write through temporary file and hard link, remove | runners and deletions |
| Run journal (`report_job.go`, `postgres_report_runs.go`) | `report_runs` | record a run per tenant | the report job |
| Collection lock, pool, trigger, job scheduler (`collection_job.go`, `async_collection.go`, `internal/jobs/scheduler.go`, `postgres_tenant.go`, `postgres_pool.go`) | advisory lock, eight connections, busy flag, failures of a job | run locked, trigger, tick, wait for the lock | everything that writes matches or snapshots |
| Collector and matches (`collector.go`, `postgres_collector.go`, `postgres_web.go`) | notices, filters with revisions, matches, call budget | collect, save, toggle and delete a filter | advisory lock, filter revision |
| Mail digest and deliveries (`internal/store/deliveries.go`, `digest_runner.go`) | `deliveries` with leases | claim, send, mark; compiled, not started by `serve` | windows |
| Accounts (`auth_handler.go`, `onboarding.go`, `postgres_tenant_registry.go`, SQL functions of `0005`, `0009`, `0011` to `0014`, `0017`) | accounts, seats, sessions, companies, invitations | sign up, log in, register, assign, delete, invite, accept, remove | advisory locks of address and company, row locks |
| Procurement client (`internal/procurement/client.go`, `PostgresDailyCallBudget`) | region cache, lookups in flight, `api_daily_usage` | fetch pages, retry, look up, take an allowance | the collector; the database row of the day |
| Matcher (`internal/matcher`) | none | evaluate a rule | collector, filter edits |
| API key file (`internal/config/api_key.go`) | the file | save by temporary file and rename, read | the settings page and every collection |
| Migrations, web pages, command line | ledger; none; none | apply; render; parse | start-up |

What is hard in it: a claim with a 15-minute lease whose owner may only be slow;
a file operation inside a database transaction that may still roll back; a
deletion racing a late publication; a commit whose acknowledgement is lost; one
tenant's failure in the middle of the claims of all of them; a process dying at
any point of this; windows completed out of order after an upgrade; a collection
lock that must never be waited for with a connection in hand; a mail whose lease
runs out while it is sent; a statement that waits for a row and then goes on with
what it read before; SQL functions that check first and lock later; a remote
service that answers pages short or twice; files that must be whole after a power
failure. `PROJECT.json`
lists these under `hazards`, each at the line where it bites.

What makes each part correct:

* reports: one current claim; rows and files agree; what is settled stays so;
  three attempts and no more; everything frozen is settled in the end;
* windows: one open at a time, none over an interval already reported; the
  schedule moves with the window it completes and never backwards;
* collection lock: no deadlock through the pool, the trigger opens again;
* collector: no match of a filter that was edited or removed meanwhile, nothing
  behind the checkpoint that is not stored;
* deliveries: one sender per attempt, every addressee settled once, no window
  left open with nobody to mail;
* accounts: a company keeps an administrator, an address has no account beside an
  open invitation, what was checked still holds when it is acted on, requests do not
  wait in a circle;
* client: the daily allowance, one request per region, complete listings;
* files: what has a name is whole, a report is never replaced.

## Modules

| Module | Models | Checked by | Proved in |
|---|---|---|---|
| `ReportLifecycle` | report lifecycle, windows as the report job uses them, files as atomic operations | `MCReportLifecycle` with `MCReport*.cfg` | `ReportLifecycleProofs`, `ReportClaimProofs` |
| `CollectionLock` | the pools, the advisory lock, collections, what waits for them, trigger, tick, shutdown | `MCCollectionLock` with `MCLock*.cfg` | `CollectionLockProofs` |
| `NoticeCollection` | what a collection fetches, stores and judges, its checkpoint, the edits of filters | `MCNoticeCollection` with `MCCollect*.cfg` | `NoticeCollectionProofs` |
| `MailDelivery` | windows, recipients, deliveries with leases, and the jobs that send them | `MCMailDelivery` with `MCMailDelivery.cfg`, `MCMailNoop.cfg` | `MailDeliveryProofs` |
| `DeliveryLedger` | what the mail digest promises, without claims, leases or processes | refined by `MailDelivery` (`ImplementsLedger`) | `MailDeliveryProofs` |
| `Accounts` | accounts, seats, companies, invitations, sessions and the locks of the SQL functions | `MCAccounts` | `AccountsProofs` |
| `ProcurementClient` | listings, retries, lookups, region cache, daily allowance | `MCProcurementClient` | `ProcurementClientProofs` |
| `DurableFiles` | publication of a report and of the API key on a file system that may lose what was not synced | `MCDurableFiles` | `DurableFilesProofs` |

The modules meet in the collection lock. `ClaimReport`, `ClaimNoop` and
`ClaimManualReport` of `ReportLifecycle` are one transaction under it, which is
`write` of `CollectionLock`; a run of `NoticeCollection` is `collect` of it, and
its `SaveFilter` and `EnableFilter` are `write` again. That the lock excludes what
it should is proved in `CollectionLock` and taken as the variable `lock` in
`NoticeCollection`, which adds what happens when its session is lost. Nothing of a
collection but the snapshot's items is seen by a report, so the modules are not
composed. `FileStore.Write` and `Remove` are single steps of `ReportLifecycle`
that succeed or fail; `DurableFiles` opens them up. The lookup budget of
`NoticeCollection` and a failing `Fetch` of it stand for what `ProcurementClient`
does with a request.

### ReportLifecycle: state

`row[r]` is the row of report `r`: a scheduled report is named by its tenant and
the index of its due time (the unique index of `0007_report_delivery.sql`), a
manual one by a model value. `token` is `claim_token`; tokens are numbers drawn
from `nextToken` in place of random UUIDs. `path` tells apart the placeholder a
row is inserted with, the path of its file and the empty path of a deleted row.
`window`, `items` and `lastSuccess` are the window's status, whether its snapshot
has an item, and `schedules.last_success_at`. `file` is the directory. `lock[r]`
is the row lock where it is held across a file operation, that is inside
`WithReportClaim` and `deleteReport`. `pc`, `work`, `queue` are where a process
is in `ReportRunner`, the `ReportWork` it holds and those it has still to do.
`unlinked` is a history variable: the files a deletion removed before its
transaction came to an end.

Time is kept only where the code asks for it. `window_end_at` is the Go clock's
reading at the start of the run, which lies between the due time it was frozen
for and the next one, so the index of the due time stands for both and
`lastSuccess` compares as `last_success_at` does. Whether a lease is over is
membership of its token in `expired`; a run that read the clock before it waited
judges leases by what had expired then (`nowExpired`), `ReclaimReport` and
`loadReportSchedules`, which use the database's clock, by what has expired now. So
selection and upsert of one claim judge a lease by two clocks, as in the code.

`Mailed` is the history of an upgraded installation: how many windows of each tenant
the mail digest completed before the service wrote reports. They have items and no
report, and the report job takes them up, the newest first. The claim of a window
proposes a row that begins at `last_success_at`; the `CHECK` of `0007` refuses the row
when the schedule has passed the window's end, before `ON CONFLICT` is looked at. That
is `StartsInTime`, a guard of every claim, so that such a window leaves a run nothing
but `ClaimError`; `Stranded` says that a tenant has one.

### ReportLifecycle: actions

| Action | Code |
|---|---|
| `StartRun` | `ReportRunner.Run` up to `ClaimDueReports`, with its reading of the clock |
| `ClaimNothing`, `ClaimNoop`, `ClaimReport`, `ClaimRefused` | the transaction of one tenant: no window selected; window completed without a report; report claimed; the `ON CONFLICT` row is not claimable |
| `ClaimError` | a tenant fails, by an error or because its window does not start in time: `ClaimDueReports` returns no work, earlier commits stay |
| `ClaimsDone`, `NextWork` | the loop over the claimed work |
| `ClaimManualReport`, `RetryReport` | `RunManual`, `Retry` |
| `LockClaim`, `WriteFile`, `ReleaseClaim`, `PublishFails` | `WithReportClaim` around `FileStore.Write`, and its failure before or after the write |
| `AttemptFails` | a stale claim or HTML that cannot be built |
| `FinalizeReport`, `FinalizeUnacknowledged`, `FinalizeFails` | `finalizeReport`: committed; committed with the answer lost; failed |
| `FinalizeReportFailure`, `FailureNotRecorded` | the failure is recorded, or is not |
| `ReclaimReport`, `GiveUp` | the next of three attempts, or none |
| `LockForDeletion`, `RemoveFile`, `CommitDeletion` | `deleteReport` |
| `Stop` | a process dies, a request is cancelled, a deletion ends with an error: its transaction rolls back, its claims stay |
| `LeaseExpires`, `DueArrives` | time |

A transaction that touches no file is one step. Its locks last no longer than
the step; the lock order of `FinalizeReport` (report, then schedule) and
`ClaimDueReports` (schedule, then report) can make PostgreSQL abort one of them,
which is `FinalizeFails` or `ClaimError`. A tenant has the one schedule that
signup creates and the code offers no way to add another.

### CollectionLock: state

`pc[p]` is where a process is. `held` is the set of connections in use, each a
pair of its user and what it is for: the `session` of a collection, which keeps
the advisory lock, or a `tx`. `lock` is who has the advisory lock. `busy` and
`wake` are the flag and the channel of one place of `asyncCollectionTrigger`,
`collectDue` says that `Scheduler.nextCollection` has passed, `stopping` that the
context of `serve` is cancelled.

The processes are those goroutines of `serve` that share its pool (the scheduler
`Ticker`, the trigger's `Loop`, `Editor` requests that save or toggle filters or
ask for a report, `Reader` requests that only use a connection), `Command`
processes such as `collect-once` with a pool of their own, and `Admin` requests
that press the button. The tick is both: it collects, then snapshots the windows
of the report job under the lock.

### CollectionLock: actions

| Action | Code |
|---|---|
| `Acquire`, `GotLock`, `LockRefused` | `RunLocked` up to the answer of `pg_try_advisory_xact_lock`; the refusal rolls back and releases |
| `NeedConnection`, `OpenTx`, `CloseTx` | a statement of the collector's repository: ask the pool, use, return |
| `RunEnds` | `Run` returns with or without an error; `COMMIT` and `Release` |
| `BeginTx`, `TryCollectionLock`, `CollectionBusy`, `TryAgain`, `EndTx` | `withTenant`, `tryCollectionLock`, `retryCollectionBusy` with its 50 ms timer |
| `Cancel` | a wait or a statement ends with an error: cancelled context, database away, command killed |
| `Tick`, `CollectionDue` | `Scheduler.Tick` and the time of the next collection |
| `Trigger`, `SendWake`, `SendCancelled` | `asyncCollectionTrigger.Trigger`: the flag under the mutex, the send after it |
| `TakeWake`, `RunDone`, `LoopEnds` | its loop; a missing API key ends the run at once |
| `Shutdown` | the context of `serve` is cancelled |

A collection refused by a taken lock still goes on to the report job, as `Tick`
joins the errors of both. A request that finds the flag set returns without a
change and is no action.

### NoticeCollection: state

`source` is the procurement system, which is not part of the repository: of each
notice its version (every revision is a new one), the time it was posted, whether
the list shows it by now and whether the list says its region. `stored` is the
`notices` row: the version stored, the region as the version it was read with (0
when blank) and `region_lookup_complete`. `lastSuccess` is
`collection_state.last_success_at`.

`rule`, `rev` and `enabled` are the `filters` rows. `rev` is `updated_at`, 0 when
there is no row; `nextRev` issues the values, so two edits never have the same
one, as the microseconds of `now()` differ between two transactions on one row in
practice. `match` is the set of `matches` rows, each with the rules, version and
region its `reasons` were made of, so that a row that was not made anew can be
told from one that was.

`pc`, `snap`, `judge` and `mem` are one `Collector.Run`: its place, the filters it
loaded (with rules and revision), those by which the current notice has still to
be judged, and its other variables (clock and start of the request, category,
fetched batch, active notices, lookups used). They are variables of their own
rather than one record because the proof speaks of `snap` and `judge` alone.
`settled` and `since` are history. `settled` is `"alone"` from the begin of a collection
while no other is at work, `"yes"` once it has succeeded with its lock, and `"no"` as
soon as another begins beside it or one fails. `since` is where the first collection
that succeeded began to ask.

### NoticeCollection: actions

| Action | Code |
|---|---|
| `BeginRun` | the lock, the clock and `StartOf` of `Collector.Run` |
| `EnabledFilters` | the load of all enabled filters with their revisions |
| `Fetch`, `StoreNotice` | one category of `collectionCategories` in whole minutes (`requestPage`), then one transaction per notice with `mergeStoredRegion` |
| `ActiveNotices`, `NextNotice` | `loadActiveNotices` and the loop over it, in any order |
| `LookupFound`, `StoreEnriched`, `LookupEmpty`, `LookupFails` | the region lookup: found and stored by a second transaction, known to have none, failed or out of budget |
| `JudgeMatch` | one filter: `upsertMatchRevision` or `deleteMatchRevision`, if the filter is still `Eligible` |
| `FinishCollection`, `RunFails` | success moves the checkpoint to the clock the run began with; an error or a crash leaves it |
| `LoseSession` | the session of the lock breaks, the run goes on |
| `SaveFilter`, `EnableFilter` | under the lock, with `refreshFilterMatches` in the same transaction |
| `DisableFilter`, `DeleteFilter` | without the lock; the matches go with the filter |
| `Publish`, `List`, `Tick` | the procurement system and the clock |

### MailDelivery: state

`window`, `addressees` and `items` are the rows of a window: its status, its
frozen list of recipients and whether its snapshot has an item. `status`,
`attempts`, `token` and `leased` are the `deliveries` row of a window and a
recipient; `leased` stands for `claimed_at` within 15 minutes, and the token is
counted up by every claim where the code draws a new UUID. `pc`, `win`, `todo`,
`cur`, `curToken` and `curAttempts` are one `DigestRunner.Run`: its place, the
window and recipients of its works, and the reservation in its hand. `seen` and
`seenLease` are the snapshot of the statement that completes an empty window.
`delivered` is history: the attempts whose mail the server accepted.

### MailDelivery: actions

| Action | Code |
|---|---|
| `DueDigestsPending`, `DueDigestsNew` | `DueDigests`: the pending window, or a new one for the newest due time; the works of a tenant are dropped when another tenant fails |
| `ClaimClosed`, `ClaimTaken`, `ClaimGivesUp`, `ClaimDelivery`, `ClaimFails` | `DeliveryRepository.Claim`: window closed; delivery of another or final; third attempt abandoned; claimed, with the answer heard or lost; rolled back |
| `Send` | the mail server accepts or refuses; an error may hide that it accepted |
| `FinalizeSent`, `FinalizeFailure`, `FinalizeRefused` | the two finalizations with their fence (`Fenced`), or `ErrDeliveryNotClaimed` or an error |
| `NoopSnapshot`, `CompleteNoop` | `completeNoopDigestWindow`: its snapshot, and what it does once it has the window row |
| `EndRun`, `Crash` | the end of a run |
| `DueTime`, `LeaseExpires` | time |

`CompleteScheduleWindow` is no action: `Claim` and the finalizations call it in
their transaction. `Claim` and the finalizations lock the window in a statement
before they read deliveries, so each is one step; only `completeNoopDigestWindow`
locks and reads in one statement.

`DeliveryLedger` has three actions: a window is opened with its addressees, one
addressee is settled (sent or dropped), a window is cancelled. The mapping is
`Phase` and `Outcome`: an addressee is owed the mail while the window is pending
and the delivery is neither sent nor out of attempts.

### Accounts: state

`users`, `email`, `tenantOf`, `role` are `public.users`; `tenants`, `invite`,
`inviteTo`, `expired` and `session` are companies, invitations and sessions.
`emailLock` and `tenantLock` are the two advisory locks, `rowLock` the row locks
that a function keeps between two of its statements. `pc`, `actor`, `target`, `ten`,
`addr`, `grant` and `want` are a request: its place in handler and SQL
function, and its arguments. `hadAdmin`, `disturbed` are history: which companies have
had an administrator, and whose administrators the platform administrator has
interfered with. Account identities are
numbers up to `MaxId` because `0017` locks rows in the order of their ids; an identity
whose row is gone is used again, once no request speaks of it.

### Accounts: actions

| Action | Code |
|---|---|
| `StartSignup`, `LockEmail`, `SignupCheck`, `SignupInsert`, `SignupFails` | `signup_create_account` (`0011`), then `SaveSession` |
| `Login`, `EndSession` | `handleLogin` and `SaveSession`, logout and expiry |
| `StartPlatform`, `RegisterTenant`, `SetAccountAccess`, `DeleteAccount` | the platform administrator's functions of `0012` to `0014` |
| `StartRemove`, `RemoveStart`, `RemoveLock`, `RemoveCheck`, `RemoveMember` | `tenant_remove_member` (`0017`): the rows its `FOR UPDATE` finds, each lock, the check, the update |
| `StartInvite`, `InviteCheck`, `LockTenant`, `LockEmail`, `InviteClose`, `InviteInsert` | `onboarding_invite_member` (`0009`) |
| `StartAccept`, `LockTenant`, `LockEmail`, `AcceptInvitation` | `onboarding_accept_invitation` (`0005`), which takes its locks and then always fails (see below) |
| `InvitationExpires` | 48 hours |
| `CreateAdmin` | the `create-admin` command, which takes no lock |
| `DeadlockDetected` | PostgreSQL ends one of the transactions that wait in a circle |

Every statement sees what is committed when it starts (READ COMMITTED), so a
function is split at each lock it waits for. `InviteMember` has no page at this
commit; it is modelled because the function and the service are there.

### ProcurementClient: state and actions

`calls` is `api_daily_usage`; `sent` is history, the attempts that really went out.
`regions`, `regionKeys`, `regionCalls` and `lookups` are the fields of the shared
`Client` that its mutex guards. A caller has its place, operation, key, attempt
and result, and for a listing the page, the total of the first page, what it has
collected (how often each notice) and the pages seen. `list` is the service's list;
`first` and `moved`
are history: the list at the first page, and whether something was published in
front of it since.

| Action | Code |
|---|---|
| `LookupHit`, `LookupJoins`, `LookupRefused`, `LookupLeads` | what `LookupRegion` decides under the mutex |
| `RegionArrives`, `WaiterReturns`, `WaiterGivesUp` | the end of a lookup with `cacheRegionLocked`, the closed channel, the cancelled waiter |
| `StartList`, `PageArrives` | `List`: page size, short and repeated pages, malformed items, last page, `MaxPages` |
| `Take`, `TakeFails`, `Send`, `Retry`, `RequestFails` | `request`: the allowance is taken before every attempt |
| `Publish`, `Midnight`, `Crash`, `Return` | the service's list, the day, a new process, the caller goes on |

### DurableFiles: state and actions

`name` says which file the report path and the key path stand for now, `disk`
which they would stand for after a power failure; `written` and `synced` count the
pieces of a file that were written and that would survive; `temps` are the
temporary names. A process has its place, its call, the body it wants to write and
its two open files. `removed` is history.

| Action | Code |
|---|---|
| `StartWrite`, `Inspect`, `InspectMissing`, `CompareHash` | `FileStore.Write` up to the temporary file; a file that is there must have the same hash |
| `CreateTemp`, `WriteChunk`, `Sync` | the temporary file of `Write` and of `Save` |
| `Link`, `CollisionGone`, `Clean`, `CleanFails` | the hard link, what follows when it fails, the removal of the temporary name and the sync of the directory |
| `StartSave`, `Rename` | `APIKeyStore.Save` |
| `StartRemove`, `Unlink`, `StartRead`, `Read` | `FileStore.Remove`, `Open`, `APIKeyStore.Read` |
| `Fails`, `Crash`, `PowerFailure`, `Return` | an error with its deferred `Remove`, a dead process, a dead machine |

## Runs

`Tenant`, `Scheduler`, `Worker` and `Manual` are sets of model values; the limit
of three attempts is the code's own. Two bounds are the model's: `MaxDue` due
times pass, and `RetryBound` is the token from which `RetryReport` issues no
more claims (a retry starts the attempts over, so the number of claims would
otherwise be unbounded). Every other source of claims is bounded by the three
attempts. Deadlock checking is off because a system in which no due time is left
and every row is settled has nothing to do, and a service that was shut down has
nothing to do either.

`CollectionLock` needs no bound: its states are finite. `MaxConns` is 2 in place
of the code's 8, the fewest with which a collection can run at all; a pool is
used up by two processes, which makes every way to be stuck shorter. The proofs
hold for every number from 2 on. In the instance the tick is the writer that waits
for the command's collection; the proofs cover edits beside it.

The bounds of `NoticeCollection` are `MaxTime`, `MaxVersion` and `MaxRev`; nothing
is posted in the last minute of the model's time, which no request could cover.
`Overlap` stands for the ten minutes and `Lookback`, longer than `MaxTime` in the runs,
for the seven days of a first collection; with a shorter one a notice older than that is
never asked for, so `MatchedInTheEnd` is about notices within it, while
`NothingOutOfReach` speaks of what was posted from `since` on and is proved for every
`Lookback`. That a posted notice is listed within `Delay`,
and `Delay` is at most `Overlap`, is an assumption on the procurement system, the
one the code makes by going back ten minutes. A lookup budget of 0 or 1 in
place of 10 lets it run out at the first or second notice.

`MailDelivery` is bounded by its due times; the three attempts of the code bound the
rest. `Accounts` has two identities beside the administrator's, which are used again,
so that accounts come and go for ever. `MaxSessions` is one session at a time: a session
is only looked at when a request starts, so that others may log in before the next
request does. It has two invitations, so that one may follow an expired one of the same
address. An invitation of another company for the same address ends `InviteClose` in the
model and the `INSERT` after it in the code, by the unique index; the transaction has
the same outcome.
`ProcurementClient` has days of two calls, requests of two attempts, a cache of one
region and a list of up to three notices on pages of one, one of which does not parse.
A listing that begins with two notices asks for two pages, and the list may grow between
them at either end; one that begins with three meets `MaxPages`. A page that comes short
is an empty one here; that part of a longer page is refused too is in the proof. `DurableFiles` has one
file for each of its two calls and one that is published.

| Run | Instance | Shows |
|---|---|---|
| `report_race` | two jobs, an administrator, one due time | claims are single and counted, files and rows agree, a generated report has settled its window, nothing settled is undone |
| `report_manual` | two requests, one manual report | no file of a deleted report comes back, without a window behind it |
| `report_windows` | one job with crashes, two due times, the first completed by mail, fairness | one open window, the schedule follows the windows, an open window and a begun report are settled, or have no attempt left, or a mailed window is stranded |
| `report_abandoned` | one job, an administrator, fairness | **violated**: see below |
| `lock_pool` | `serve` with a reader and an administrator; a command; fairness | the pool is never stuck, nobody leaves a connection or the lock behind, the lock excludes, no request blocks in `Trigger`; a collection ends, the trigger opens again, and after cancellation the pool empties for good |
| `collect_exact` | one collector, two notices with revisions, one of them expiring, lookups on a budget, edits, also during a collection that has lost its session | no match outlives the rules it was made with; regions are not older than their notices; after a collection that kept its lock and ran beside no other the matches are exactly those of the filters |
| `collect_reach` | one collector, one notice, five moments, minutes of two, failures at every step, fairness | what the checkpoint leaves behind is stored; a wanted notice is matched in the end, whether its region can be looked up or not |
| `mail_delivery` | two jobs, one addressee, one window, fairness | one sender per attempt, a sent row was sent, the detailed model implements `DeliveryLedger`, and the window is settled |
| `mail_noop` | the same | **violated**: see below |
| `accounts` | two requests, two addresses, two invitations, two accounts and the administrator, one company | no account beside an open invitation, what a request found out holds until its insert, a company keeps an administrator, no circle of waits but one |
| `client` | two callers, one of which also lists, two days, fairness | the allowance, single flight, complete listings, every call returns |
| `files` | two calls at a time, two contents | whole files, truthful writes, no leftovers, no replacement |

Two jobs and one administrator are enough for every pair of actors that meet
over one row, and one due time gives up to six claims of it (a retry starts
no claim after the third token, and three attempts follow each). With two due
times a window can be open while a newer one waits. That the older of two is reported
last takes a second runner since the `CHECK` of `0007`, another job or a retry by hand,
and so is not reached by the one job of `report_windows`: that the schedule does not move
back then (`Later`) is in `ScheduleFollows`, which is proved for any number of jobs,
requests and windows. A job whose tenant fails leaves
the claims it made before for no one, which is the state a crash (`Stop`) after the
claim leaves behind.

Two digest jobs over one delivery are every pair of a sender and one who takes it
over, and of a sender and one who completes the window. The allowance is only
promised for the days so far together: an attempt charged before midnight may go
out after it.

The circle that `SomeoneProceeds` excepts: a member joins the company after the
`FOR UPDATE` of `0017` has found its rows, so that its row is first waited for at
the update, out of order. PostgreSQL then ends one of the two requests.
`CompanyKeepsAdmin` excepts companies the platform administrator took an
administrator from, who is free to do so, and companies it gave one in the middle of
that one's removal of a member: when the `FOR UPDATE` of `0017` finds the actor in no
company it locks nothing of it, and if the platform seats it before the check, two
administrators can pass their checks without the locks that order them and remove each
other. Three accounts and 38 steps are needed for it; the proof of `CompanyKeepsAdmin`
showed it (see below).

The five moments of `collect_reach`, with minutes of two and an overlap of two, put a
request before, in and after the minute a notice was posted in. Sessions are lost in `collect_exact`
only, where edits then meet a running collection. With a lost session a second
collection can run beside the first and the first may put older content back
behind the second one's checkpoint: the code does not keep `NothingOutOfReach` in that
case, nor exact matches after two collections that ran beside each other, and no
document says it does (see `hazards`). So no run has two collectors; the proofs are for
any number, `NothingOutOfReach` for sessions that are not lost, `MatchesExact` for
collections that ran beside no other, `MatchesBelong` and `RegionNotStale` without
condition.

That a pending window with addressees owes a mail to one of them, so that it cannot
be left open with nobody to mail, is an invariant of `DeliveryLedger` and follows
from `ImplementsLedger`. `TypeOK` is part of a run where it bounds what the code
bounds (`report_race`); in the other modules it is where proofs start.

Symmetry is used over interchangeable processes in the safety runs only.

### What is assumed of scheduling

`Fairness` says: a process that is running takes its next step; `serve` starts
the report job again (`runScheduler` ticks it every minute); leases run out; and
neither the claim of a tenant nor the two steps of a deletion, tried again and
again, fail for ever. `Stop` and `ClaimError` carry no fairness, yet may happen
for ever: strong fairness is used for the claim and the deletion because each
error only ends one try of something that is tried again. Without it a database
that refuses every transaction refutes every liveness property. The fairness of a claim
asks for nothing where the code cannot claim: a window that does not start in time
disables the action (`StartsInTime`), every run ends in `ClaimError`, and
`WindowSettlesOrParks` has to except that state.

`FairSpec` of `CollectionLock` says: who waits for a connection gets one when
connections keep coming free (pgx serves its waiters in order, hence strong
fairness), a collection and a transaction come to an end, timers fire, and the
scheduler and the trigger's loop run. Requests, commands, errors and the shutdown
carry no fairness, with one exception: once the context of `serve` is cancelled, a
wait under it ends (`Turn`, and `Cancel` of a writer that polls).

`FairSpec` of `NoticeCollection` says that collections are started again and
again, as the scheduler does, and that no step fails at every try: the strong
fairness of each step, for `Fetch` of each category, is against `RunFails`, which
may come at any step and as often as it likes. Lookups may fail for ever.

`Fairness` of `MailDelivery` says that the job is started again, that a lease runs
out, that a send ends, and that reading the pending window, claiming and completing
an empty window, tried again and again, do not fail for ever. Nothing says that a
mail is ever accepted or a finalization recorded: three attempts settle the window
without.

`Fairness` of `ProcurementClient` is weak fairness of a caller's steps: the HTTP
client's timeout and the timers end every one of them. It does not say which answer
comes. A waiter is not helped by its own context (`WaiterGivesUp` is not fair); it
returns because its leader does.

No property says that a waiting edit gets the lock: it polls, and collections
that follow each other closely can starve it, in the code as in the model.

### What disagrees with its documentation

`docs/implementation/report-delivery-design.md:88` says that a window whose
process ended in the state `generating` is taken back automatically. Every
statement that takes a claim back asks for `attempts < 3`, `RetryReport` asks
for `failed` and `deleteReport` for a terminal status. A process that dies in
its third attempt leaves a row nothing moves, and the pending window keeps the
schedule from freezing a later one. `report_abandoned` shows it; the property
`WindowSettlesOrParks` of the passing runs is what the code does keep.

`TestPostgresReportSchedulesRecoverCompletedDigestWindowWithoutReport`
(`internal/app/postgres_report_test.go:178`) expects completed windows without a report
to be taken up, and `loadReportSchedules` selects them, the newest first. The `INSERT`
of `claimScheduledReport` proposes `window_start_at = last_success_at`, and
`0007_report_delivery.sql:19` demands that this is not after `window_end_at`; PostgreSQL
tests the proposed row before it looks at `ON CONFLICT`. Once the schedule has passed the
end of such a window, because two of them were left or because the older one's lease ran
out after a newer window was finalized, its claim fails at every tick, and
`ClaimDueReports` then returns no work for any tenant. The test answers the selection
from a stub and never runs the statement. `report_windows` reaches this state: without the
disjunct `Stranded` of `WindowSettlesOrParks`, TLC answers with a behaviour that ends in
`StartRun` and `ClaimError` for ever. With it the property holds, and
`StrandedByMail` proves that only windows completed by mail can be stranded: in an
installation without any (`Mailed` is 0) no run fails for this reason.

`onboarding_accept_invitation` (`0005_invitation_race_upgrade.sql:182`) has an output
column `email` and looks at line 223 for `lower(email) = v_email` in `public.users`.
plpgsql takes such a name for ambiguous when the statement runs (error 42702), as the
header of `0011_signup_column_qualification.sql` says of the signup functions, which it
repairs; the acceptance is defined again nowhere. So every acceptance of an invitation
that is still available fails and writes nothing, and until the invitation expires its
address can neither accept it nor sign up. The integration tests
(`internal/app/postgres_release_integration_test.go:947` to 1040) expect one acceptance
to succeed; they need a database to run. The model follows the code: `AcceptInvitation`
takes the locks and ends. What `accounts` shows holds with such acceptances, and would
have to be checked again once the function is repaired.

`digest_runner.go:43` says that `CompleteNoop` leaves a window to a later tick when
a delivery of it has an active lease. `completeNoopDigestWindow` locks the window and
looks for leases in one statement under READ COMMITTED: when the lock has to wait
for a `Claim` of the same window, the statement goes on with the new version of the
window row but with deliveries as they were before the wait. It does not see the
lease that `Claim` has just committed and completes the window. The sender's
finalization is then refused, and a delivery that was inserted by this claim stays
`sending`. Two jobs see the same window with and without notices when the last open
notice expires between their reads. `mail_noop` shows it; `ImplementsLedger` shows
what is kept: the addressee counts as dropped once and for all. `serve` does not
start the mail job at this commit.

A further behaviour worth knowing, about which no document says otherwise: the
advisory lock is also taken by filter edits and report snapshots, so a collection may
be refused with "collection is already running" (`collection_job.go:13`) when none
runs, and the trigger's loop drops that answer.

## Proofs

The first two proof modules hold for all sets of tenants and processes, all numbers of
due times and retries, under `ConstantsAssumption` (schedulers and workers are
different, a tenant-due pair is not a manual report, `NoProc` is no process,
there is a due time) and `NoWorkAssumption`.

`ReportLifecycleProofs` proves

* `TypeCorrect`. `TypeOK` is not inductive: a process with a claim in hand must
  really have one, so `TypeInv` adds that `work[p]` is a `Work` wherever the
  process is between a claim and its end.
* `GeneratedSettles`, `CompletedReported`, `OnePending`, `ScheduleFollows` from
  `WindowInv`. A row exists only for a frozen window, so a generated row finds a
  window to complete; `CompletedBehind` (completed windows lie at or before the
  last success) and `PendingAhead` (the open one lies after it, alone) are each
  needed to keep the other when windows complete out of order.

`ReportClaimProofs` proves

* `OneOwner`, `AttemptsCounted`. `TokenOK`: tokens in rows and in hands are
  smaller than `nextToken`, and those in different hands differ.
* `StrandedByMail`, from `WindowInv` and the settled deletions: an open window and a new
  one lie ahead of their schedule, and a completed window that this service froze has
  its report or lost it to an administrator, so no run selects it.
* `DeletedFileGone`, `GeneratedFileKept`, `SettledForGood`. `FileInv`: a process
  in a locking step holds the lock of its report and nobody else does (`LockOK`);
  under the lock the row still has the claim it was locked for (`PublishOK`) or
  the terminal status (`DeletingOK`); a process about to finalize with the
  current claim has its file in place (`FileReady`), which is what survives the
  unlock between publication and finalization, because only a new claim could
  let anyone else touch the file and it would change the token.

A lemma per kind of step (`IssueStep`, `SettleStep`, `LockingStep`, `CommitStep`,
`StopStep`, `QuietStep`) keeps the case split over actions to one citation each.

`CollectionLockProofs` holds for every number of connections, commands, requests
and administrators under `LockAssumption` (the kinds of processes are different
and a pool has two connections or more). It proves

* `LockTypeCorrect`: `PlaceOf` gives the places of each kind of process; the
  argument is one lemma about what follows a collection and one per kind of step.
* `LockIsExclusive` and `LeavesNothing` from `LockInv`: connections and the lock
  are where the process that has them works (`SessionWhere`, `TxWhere`,
  `LockWhere`), and whoever works under the lock has it. Neither direction is
  inductive alone.
* `PoolNeverStuck`: by `LockInv` whoever is blocked with a connection in hand is
  the one collector that has the lock, with its session (`BlockedHolder`). A
  used-up pool has two connections or more in use, so some other holder can go on.
* `TriggerNeverBlocks` from `OneToken`: the flag stands for exactly one of a
  request about to send, the token in the channel, the loop at work.

`NoticeCollectionProofs` holds for any number of collectors, filters, notices and
categories, under `CollectionAssumption`. It proves

* `MatchesOfTheirFilters`, with sessions lost or not. `MatchesBelong` alone is not
  inductive: a collection writes a match with rules it read long before. `BelongInv`
  adds `RevisionsOK` (revisions in use are smaller than `nextRev`, an enabled filter
  has one) and `SnapsOK` (what a collection has loaded of a filter, if its revision is
  the filter's, is the filter's rules). A revision thus determines the rules, and
  `Eligible` compares revisions.
* `CollectionTypeCorrect` from `TypeInv`, which adds what a run has in hand at each of
  its places. The actions are then described once by what kind of step they are
  (`Acts`, and the lemmas `Kinds`, `EditKinds`, `OutsideKinds`), without record updates;
  the proofs that follow use these kinds only.
* `RegionsAreFresh` from `RegionInv`: no copy of a notice, be it stored, fetched,
  active or in hand, is newer than the procurement system's, so a region that is looked
  up now is as new as whatever it is stored with. This survives lost locks and
  collections that overwrite each other.
* `MatchesAreExact` from `ExactInv`. While a collection is alone and has its lock
  (`Sole`), its loaded filters are those of the database except for ones disabled or
  deleted since (`KnowsFilters`), what it has loaded of notices is what is stored
  (`ActiveFresh`, `CurFresh`), and every enabled filter and active notice is either
  still to be judged or exact already (`ToJudge`). When nothing is left to judge,
  everything is exact, and edits keep it so.
* `NothingFallsBetween`, for `SessionLoss = FALSE`, from `ReachInv`: a notice that will
  be out of reach when the run succeeds (`Due`) is listed by now, because `Delay` is at
  most `Overlap`, and is stored, in the fetched batch or of a category still to be
  fetched (`Coming`). `MinuteGrows` is the arithmetic of whole minutes. The hypothesis
  is needed: with a lost session the code does not keep the property (see above).

The proofs changed the model twice. `settled` used to say only that a collection had
succeeded, which a second collector with a lost lock can make false; it now tells a
collection apart that no other ran beside. `NothingOutOfReach` used to depend on a
`Lookback` longer than the model's time; it now speaks of what was posted since the
first successful collection began to ask.

`DurableFilesProofs` holds for any number of calls, temporary files and chunks, under
`ConstantsAssumption` of `DurableFiles`. It proves

* `FilesTypeCorrect`, `AlwaysWhole`, `ReportNeverReplaced` and `NothingLeftOver` from
  `FileInv`. `PublishedWhole` says nothing of a file before it has a name, so
  `TempOK` adds that a temporary file is seen by nobody while it is filled, is whole
  once its call may publish it, and is of one call only; `ReadOK` adds what a reader
  may have open.
* `WritesTellTheTruth` from `TruthInv`, which follows a `Write` from the outcome of
  its link or of its comparison (`PlaceOK`) to its answer; `CallOK` says which call
  can be at which place.

`MailDeliveryProofs` holds for any number of runners, recipients and due times, under
`ConstantsAssumption` of `MailDelivery`. It proves `MailTypeCorrect`, `OneSender` and
`SentWasSent` from `HoldInv`. `HandOK` is what makes them inductive: the reservation in
a runner's hand is one of the attempts its row has counted, so a new claim, which
counts one more, makes an attempt that nobody holds; the mail of a runner about to
finalize as sent has left; and a delivery without a row has no attempts, which keeps a
claim from counting a fourth. Steps that claim nothing are one lemma (`QuietKeeps`).
`MailImplementsLedger` is the refinement: every step of `MailDelivery` is a step of
`DeliveryLedger` under the mapping or changes nothing of it. It needs `LedgerInv`, which
adds `RowsOK` (windows are of due times that have passed, deliveries of windows, and a
pending window with addressees has one that is not final) and `WorksOK` (works,
reservations and the snapshot of a completion are of the runner's window).

`ProcurementClientProofs` holds for any finite number of callers and every page size,
limit and budget, under `ConstantsAssumption` of `ProcurementClient`. It proves

* `ClientTypeCorrect` and `OneRequestPerRegion`. `LeadOK`: `regionCalls` names exactly
  the callers that ask, each under its key, and whoever waits waits under a key
  somebody asks for.
* `ListingsAreComplete` from `ListingInv`: while nothing was published in front of the
  list, a listing at page `p` has collected exactly the first `(p - 1) * PageSize`
  notices of the list at its first page that are well formed. `out` counts notices
  instead of being a sequence, which is all the property asks of it.
* `AllowanceIsKept` from `AllowanceInv`: what has gone out, and what is charged and has
  not gone out yet, is paid for by the allowances of earlier days and the calls of
  today. `AllowanceHolds` alone does not know of the attempts that are charged.

`AccountsProofs` holds for any number of accounts, addresses, companies, invitations and
requests, under `ConstantsAssumption` of `Accounts`. All of it rests on `BaseInv`: types,
which request can hold which lock at which place (`LocksOK`), and what the arguments of
a request are there. It proves

* `AccountsTypeCorrect`.
* `NoCircleOfWaits`: companies are waited for before addresses and rows in the order of
  their ids, so whoever holds the largest row that is waited for would have to wait for
  a larger one; a request at its update, which waits out of order, is the exception.
* `AddressesTakenOnce` and `ChecksStillHold` from `AddressInv`: a request about to insert
  still holds the lock of its address, so that what it found out about it is still so
  (`FoundBy`), and no address has two open invitations (`PromisedOnce`).
* `CompaniesKeepAdmin` from `AdminInv`: a request at its update has the lock of its own
  row and is an administrator still (`GuardedBy`), and it does not remove itself. The
  property as it was first stated excepted only companies that lost an administrator to
  the platform, and this invariant failed for it at `SetAccountAccess`; TLC then found the
  interleaving with three accounts, and `disturbed` adds exactly the step it turns on to
  the exception.

Left to TLC are the liveness properties `WindowSettlesOrParks`, `CollectionEnds`,
`TriggerReopens`, `PoolDrains`, `MatchedInTheEnd`, `WindowSettles` and `CallsReturn`,
because the prover has no rules for fairness and `ENABLED`, and the two properties that
are violated. Every other property of a run is proved.

## Not modelled

* Windows with status `failed` that migration `0002` may have left; nothing in
  the report code reads or writes them.
* In `ReportLifecycle`, delivery leases that `completeNoopDigestWindow` waits for:
  `serve` creates no deliveries. `MailDelivery` has them.
* The statements of one transaction see the database at one moment. A deletion
  that commits between `claimScheduledReport`'s look at `deleted_at` and its
  `INSERT` makes the claim a no-op, as the `WHERE` clause repeats the test; the
  next run completes the window.
* An unusable path (`reportRelativePath`) ends the run before the failure is
  recorded; this is `AttemptFails`, `FailureNotRecorded`, `GiveUp`.
* Contents: which matches a snapshot holds, HTML, file names, error texts.
* Accounts that are removed with all their rows.
* The delays of `Scheduler` (`collectionRetryDelay`, the time between
  collections): a collection is due or not.
* A crash of `serve` itself in `CollectionLock`: PostgreSQL ends its sessions and
  the service starts from `Init`. The crash of a command is `Cancel` or an end of
  its run.
* Transactions of the report job after its snapshot; they use one connection each
  and are those of a `Reader`.
* Rules that depend on the day (`DeadlineWithinDays`): what a rule says of a notice
  depends on the notice's content alone in `NoticeCollection`.
* Source warnings, `job_runs` and the counters of a collection.
* `matches.created_at` against the interval of a window. A filter edit whose
  transaction began before a report run read its clock, and which gets the collection
  lock after that run's snapshot, writes matches that lie in no window. This is so in
  the code and no document says otherwise; it is listed under `hazards`.
* In `MailDelivery`, the normalization of delivery keys of older releases, several
  schedules of a tenant, the run journal and the text of mails.
* In `Accounts`, `InviteTenant` (kept for operator tooling), passwords, cookies and
  CSRF tokens. The authority of an inviter is checked before the locks are waited
  for, in the model as in the code.
* In `ProcurementClient`, the parsing and sanitizing of answers and the lengths of
  waits. `Take` reads the day and charges it in one step, while the code computes the
  day just before the statement: a midnight between the two changes nothing of the row
  that is charged and may as well come after it. `Collector.Run` looks regions up one
  after another, so `SingleFlight` and `CallsReturn` are about what the client promises
  to concurrent callers, which its own tests exercise, and not about this caller.
* In `DurableFiles`, path checks and file modes. Temporary names that a crash or a
  refused removal leaves behind are forgotten where that happens; `NoLeftovers` speaks of
  calls that end with an answer, and nothing in the code cleans up after the others. That `Save` does not sync the
  directory is in the model (`Rename`): a power failure may bring back the old key.
* `Matcher` and `latestDigestDue`, which are pure functions without state; the
  migrations, which run in one transaction under one lock; the report run journal,
  which nothing but the status page reads; templates, request parsing, configuration
  and wiring.

## Plan

The parts of the system that keep state and meet others are modelled, and the safety
properties of the runs are proved for every value of the constants. What is left is to
state more:

1. `DeliveryLedger`: its own invariant, that a pending window with addressees owes a mail
   to one of them, as a theorem of the abstract module, from which `MailDelivery` has it
   by the refinement.
2. `NoticeCollection`: what a lost session can undo at most, as a property instead of an
   exception.
3. `CollectionLock` and `NoticeCollection`: the variable `lock` of the second as a
   refinement of the first.
