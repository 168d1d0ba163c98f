# travel-web-api in TLA+

`travel-web-api` is the private backend between the browser applications
(`travel-web`, `travel-admin`) and the generation service `hermes-travel`. It is
a FastAPI application over PostgreSQL (READ COMMITTED, row locks), an HTTP
client for hermes-travel, a RabbitMQ consumer that keeps a projection of
hermes-travel's jobs, and a Redis cache of read-only views. This directory holds
its TLA+ model, the TLC configurations that check it on small instances, and the
TLAPS proofs that hold for every instance.

Source paths below are relative to the application package (`src/` of the
repository).

## 1. Inventory

| Component (source) | State it keeps | Operations | Hard behaviour | Correct when |
|---|---|---|---|---|
| Quota ledger and trip state (`quota/service.py`, `db/models.py`) | `user_trip`, `trip_quota_entry`, `quota_grant`, `quota_adjustment` | `reserve_trip`, `settle_trip`, `save_upstream_acceptance`, `mark_upstream_uncertain`, `update_active_status`, `quota_snapshot` | a count is read in one statement and the row it permits is written in a later one; settlements do not take the lock reservations take | the balance is never overdrawn, one active trip per user, the entry follows the trip, nothing is settled twice |
| Trip submission, status, streams (`trips/service.py`, `trips/router.py`) | nothing beyond the rows; a stream keeps its owner and trip across awaits | `submit_trip`, `job_status`, `job_stream`, result, artifacts, places | retries of one request, an answer lost after acceptance, late answers, a stream that breaks | a retry never starts a second job, a unit is kept while a job may succeed, one `interrupted` event at most |
| Trip reconciliation (`trips/reconciliation.py`) | `reconciliation_attempts` | `reconcile_bounded` | a batch claimed in one transaction and worked on later; an exception in the middle | at most five attempts, no lost unit |
| Hermes client (`integrations/hermes.py`) | none | `create_trip`, `job_status`, `stream_job`, admin reads | which failures leave the outcome open | "may have been accepted" is never reported as "was not sent" |
| Account closure (`account/closure.py`) | deletes or anonymises every row of a user | `close_account` | older snapshots elsewhere; lock order against logins and the projection | nothing of an erased user comes back |
| Authentication (`auth/service.py`) | `email_otp_challenge`, `user_session`, `app_user`, `invitation` | send and verify codes, registration, sessions | counting sends and guesses, a crash around the mail, two registrations at once | a code is used once and guessed five times at most; one account per address and invitation |
| Invitations (`invitations/service.py`, `admin/invitations.py`) | `invitation`, batches | consume, generate, disable, export | disabling while it is consumed | consumed once, never after it is disabled |
| Profile (`profile/service.py`) | `app_user.display_name`, quarantine of old names | change, check | two users and one name; a name in quarantine | no two users share a name; a released name waits fifteen days |
| History (`history/service.py`, `history/cursor.py`) | `archived_at` of trips | list by cursor, read, archive | pages over a moving window | a page is never repeated or skipped |
| Admin users and quota (`admin/service.py`, `admin/auth.py`, `admin/audit.py`) | `quota_adjustment`, audit rows, status and role | `mutate_user`, `create_quota_adjustment`, reversal | stale actor, two reversals, a negative delta against a reservation | an adjustment is reversed once, the balance stays above zero, each mutation is audited |
| Admin idempotency (`admin/idempotency.py`) | `admin_idempotency` | claim, complete, replay | two requests with one key | the effect happens once and both get its answer |
| Projection stream (`admin/projection.py`, `admin/projection_consumer.py`) | stream state (next sequence, applied watermark, paused), event log, job projections | apply event, heartbeat, pause, repair, snapshot | redelivery, gaps, poison messages, a crash between two acknowledgements | events applied once and in order, a paused stream resumes only when repaired, an erased identity is never linked again |
| Job links (`admin/projection.py`, `quota/service.py`, `account/closure.py`) | `user_id`, `association_*` and `identity_erased_at` of a job row | written with every snapshot, by the acceptance and by the closure | READ COMMITTED: a select misses what is not committed yet | a link says what the trip says; an erased identity is never linked again |
| Projection backfill (`admin/projection_sync.py`) | sync checkpoint and job rows | backfill, reconcile | a page fetched before an event is applied, two processes on one checkpoint | never overwrites newer state; what it passed has its row |
| Admin read views (`admin/reports.py`, `admin/hermes_router.py`, `admin/guide_cache.py`) | a Redis cache | reads | a stale cache | - |
| Owner bootstrap (`admin/bootstrap.py`) | role of one user | run once by an operator | - | one owner |
| Application (`app.py`, `config.py`, `db/session.py`, middleware, logging) | the connection pool | start-up, request boundary | a request holds one pooled connection while it opens a second | requests that hold connections do not all wait for one another |

How they interact: a browser request becomes one asyncio task, which runs
transactions through the session factory and, between them, awaits hermes-travel.
Polls, streams, the submission itself and the reconciler all move the same trip
to its end. The admin and closure requests change the same users. The projection
consumer is a task of every process that enables it, started after the optional
start-up backfill (`app.py:49-57`) and never restarted when it returns; it links
its job rows to trips. There is no in-process shared state: what can interleave
is the transactions, and what can be stale is whatever a task remembers across
an await. Where two transactions take the same locks in different orders,
PostgreSQL rolls one of them back.

The hazards of each component, with the line where each bites, are listed in
`PROJECT.json`.

## 2. Modules

| Module | Role |
|---|---|
| `QuotaLedger` | what the ledger promises, as atomic guarded steps |
| `TripQuota` | trips, entries, workers, locks and upstream jobs: the detailed model, its properties and the mapping to `QuotaLedger` |
| `MCTripQuota` | values and symmetry for TLC |
| `TripQuotaProofs` | theorems about `TripQuota` |
| `ProjectionView` | what the projection promises: a log absorbed in order, rows that only get newer |
| `ProjectionStream` | source, broker, consumers, operator and the stored stream state; its properties and the mapping to `ProjectionView` |
| `MCProjectionStream` | values and symmetry for TLC |
| `ProjectionStreamProofs` | theorems about `ProjectionStream` |
| `TripOutcomeProofs` | further theorems about `TripQuota`: how trips end |
| `SignIn` | codes, logins, registrations and closures, one row lock per step |
| `MCSignIn`, `SignInProofs` | values and symmetry for TLC; theorems |
| `AccountRows` | the rows that the requests about accounts share |
| `AdminConsole` (extends `AccountRows`) | what administrators do: keys, users, quotas, invitations, audit, bootstrap |
| `DisplayNames` (extends `AccountRows`) | renaming, quarantine, default names |
| `Accounts` (extends both) | console, names and closure composed; their properties |
| `MCAccounts`, `AccountsProofs` | requests, values and symmetry for TLC; theorems |
| `BalanceProofs` (extends `AccountsProofs`) | further theorems about `Accounts`: balances, adjustments, types |
| `JobLinks` | events, backfill, reconciliation, acceptance and closure on the links of job rows |
| `MCJobLinks`, `JobLinksProofs` | values for TLC; theorems |

### TripQuota

The state is what the database and hermes-travel keep, plus what each task
remembers:

* `account`, `limit`: `app_user.status` (CLOSED once the row is deleted) and the
  sum of grants and adjustments.
* `trip[t]`: the `user_trip` row: owner, request id, status, whether
  `hermes_job_id` is set, and `reconciliation_attempts`. The job id itself is a
  function of the trip, because `upstream_request_id` is the idempotency key of
  the create call.
* `entry[t]`: the status of the `trip_quota_entry`.
* `lock[u]`: who holds the `app_user` row FOR UPDATE in a transaction that is
  modelled in two steps.
* `job[t]`: what hermes-travel knows of the trip. NONE, SENT (a request got no
  answer and may still arrive), REFUSED, or the status of the job.
* `calls[t]`: how many create calls were begun, a history variable that
  distinguishes one call from several.
* `task[w]`: program counter and locals of one asyncio task.

A transaction that holds only the row lock of a trip is one atomic step: all it
reads and writes is under that lock. `reserve_trip` and
`create_quota_adjustment` decide on a *count of rows* under the lock of the
user, and settlements of that user's trips do not take that lock, so these two
are split: `ReserveDecide`/`ReserveInsert` and `AdjustDecide`/`AdjustInsert`.
Every await on hermes-travel ends a step. `Die` ends a task anywhere: an
exception, a cancelled request, a closed stream or a crash of the process; the
open transaction is rolled back and a create request in flight may still arrive.

| Code | Actions |
|---|---|
| `reserve_trip` | `ReserveRetry` (the request id exists and is unbound), `ReserveDecide`, `ReserveInsert` |
| `HermesClient.create_trip` and its errors | `CreateAccepted`, `CreateRefused` (CITY_NOT_SUPPORTED), `CreateUnsent` (connect errors), `CreateUncertain` (any other failure), `CreateGarbled` (a JSON body that is not an object) |
| `_submit_reserved` after the call | `SaveAcceptance`, `MarkUncertain`, `SettleLocally` |
| `job_status`, `apply_job_status` | `FetchStatus`, `ApplyStatus` |
| `job_stream`, `_owned_sse` | `StreamOpen`, `StreamEvent`, `ApplyStatus` |
| `reconcile_bounded` | `ReconcileClaim`, `ReconcileItem`, then the actions above with role `batch` |
| `create_quota_adjustment` | `AdjustDecide`, `AdjustInsert` |
| `mutate_user` (disable, restore) | `SetStatus` |
| `close_account` | `CloseAccount` |
| hermes-travel (external) | `HermesStep` |

Each definition marked *Fault* beside another one is what a plausible bug would
turn that definition into; it is used nowhere, and exists so that every property
can be shown to notice something.

Left out: the text of results and errors, timestamps and telemetry (nothing
decides on them), units other than 1 per trip (the code writes 1), the request
hash (a retry with another hash is refused and changes nothing), and reads that
end a request without a write.

### QuotaLedger and the mapping

`QuotaLedger` has no task, lock, job or crash: `Hold` needs a free unit and no
other held unit, `Settle` charges or returns a held unit for good, `Adjust`
never makes the balance negative, `Close` erases. `TripQuota` maps the row and
the entry of a trip to FREE, HELD, CHARGED, RETURNED or ERASED, and
`ImplementsLedger` says that every step of the model is one such step or none.
The reads of `ReserveDecide` map to a stutter and `ReserveInsert` to `Hold`, so
the refinement is the claim that the decision is still right when it is written.

### ProjectionStream

The state is what the projection tables and RabbitMQ keep, plus what each
consumer is doing:

* `log[n]`: the job and steps that event `n` of the outbox of hermes-travel
  changes. The snapshot an event carries is stood for by its number, because the
  code compares `source_version` and nothing else of it.
* `version[e]`: `source_version` of the row of a job or step.
* `events[n]`: the row of `admin_projection_event` and its payload hash, reduced
  to SENT, REPAIRED (valid, another hash) or NONE.
* `applied`, `expected`, `stream`, `confirmed`: the columns of
  `admin_projection_consumer_state`; `confirmed` is -1 until a heartbeat makes
  it INITIALIZED.
* `queue`, `active`, `dead`: the quorum queue (messages with their holder and the
  two delivery counters), its single active consumer, and the dead letters.
* `task[c]`: where `_handle_message` stands and the message it works on.
* `repair`: the event of a `repair_projection_event` call between its checks and
  its transaction.

Transactions that read the state row FOR UPDATE are one step each. The
duplicate check of `apply_projection_event` is made before that lock, so it is a
step of its own (`ReadEvent`), and so is the check of the operator
(`RepairRead`). Each answer to the broker is a step of its own too. A lost
connection returns the message while its handler runs on, so a second handler
may meet the first one's transaction; the answer of the first is then lost
(`AnswerLost`).

| Code | Actions |
|---|---|
| hermes-travel's outbox (external) | `Commit`, `PublishAgain` (at least once), `Heartbeat` |
| backfill and reconciliation, their effect on a row | `StoreSnapshot` |
| RabbitMQ and processes (external) | `Deliver`, `Disconnect`, `Crash`, `Restart` |
| `apply_projection_event` | `ReadEvent`, `ApplyEvent`, `BlockEvent` |
| `apply_projection_heartbeat` | `ApplyHeartbeat`, `BlockHeartbeat` |
| `_handle_message` | `HandlerFails`, `PoisonRetry`, `Pause`, `PauseFails`, `Ack`, `Nack`, `Reject`, `AnswerLost` |
| `repair_projection_event` | `RepairRead` (ends there as DUPLICATE when the event is recorded), `RepairApply` |

Left out: the association of a job row with its trip and user (`JobLinks`),
freshness (computed from the clock on read), the text
of snapshots, and the publisher's order: the outbox publishes new events in
order, and old ones again at any time.

### ProjectionView and the mapping

`ProjectionView` has no queue, handler or pause. `Commit` appends to the log,
`ApplyNext` absorbs the next event into every row it changes that is older, and
`Refresh` moves one row to a newer snapshot of the log. Log, watermark and
versions are variables of both modules, so the mapping is the identity; what the
refinement says is that nothing else ever moves them: no duplicate, late
heartbeat, pause or repair changes a row except as the next event.

### SignIn

The state is the rows, who has locked each, and the requests:

* `account[u]`: `app_user`: its status, address and the invitation it redeemed.
* `invitation[i]`: USABLE or REDEEMED. Disabling an invitation is modelled in
  `AdminConsole`, against a redemption in one step.
* `challenge[c]`: `email_otp_challenge`: purpose, address, user, invitation,
  attempts; PENDING, SENT or USED; `recent` during the resend cooldown.
* `session[s]`: the user of a live `user_session` row, or nobody.
* `lock[x]`: the request that holds a user, an address (the advisory lock of
  `email_normalized`), an invitation or a challenge.
* `task[w]`: program counter and locals of an HTTP request; `seen` is the
  attempt count it read.
* `clashed`, `enrolled`, `spent`, `guesses`: history.

A transaction takes its locks one step at a time and writes in its last step. A
lock that is taken makes the step wait; two requests that wait for each other
are a `Knot`, and `DeadlockVictim` rolls one of them back.

| Code | Actions |
|---|---|
| `send_auth_code`, `_enforce_send_limits` | `RequestCode` (with `MaySend`), `InsertChallenge`, `MarkDelivery` (also after a mail that failed) |
| `get_current_auth` | `Admit` |
| `send_closure_code` | `RequestClosureCode`, then `InsertChallenge` |
| `verify_auth_code` | `ReadCode`, `WrongCode`, `RightCode` (the address lock and the lookup behind it) |
| its login branch | `LogIn`, `CommitLogin` |
| its registration branch, which redeems the invitation | `Register`, `CommitRegistration` |
| `close_account` and its code | `CloseAccount`, `ReadClosureCode`, `RefuseClosure`, `EraseAccount` |
| `revoke_cookie_session`, expiry | `EndSession` |
| `mutate_user` | `DisableUser`, `RestoreUser` |
| time | `Tick` |
| crash, cancelled request, PostgreSQL | `Crash`, `DeadlockVictim` |

Left out: the limits per client and in total (they count the same rows as the
limit per address), hashes, and the text of mails.

### AccountRows, AdminConsole, DisplayNames, Accounts

One state, three parts. `AccountRows` declares it: `account`, the idempotency
`claim` of each key, the `quota_adjustment` written under it (`ledger`), the
invitation `batch`, the `quarantine` of names, whom the permanent rows name
(`trace`: audit, claims, adjustments, batches, and the URL path of a denial), the
last audited state of each user (`logged`), locks, and clients. A client has one request, which it may send
again whenever the previous one has ended, answered or not: this is what the
idempotency keys are for. A stored answer (`claim`) keeps what `response_json`
does: the target and its state (`Views`), and for a batch that no codes are in it.
`effects` and `told` remember what was applied and answered under a key, and how
many of the answers disclosed raw codes: the first answer of `CreateBatch` does,
the one it stores for a replay does not.

| Code | Actions |
|---|---|
| `get_current_admin`, `resolve_admin_context`, `require_capability` | `AdmitAdmin` |
| `claim_admin_idempotency` (replay, conflict, first) | `ClaimKey` |
| `complete_admin_idempotency` | `Complete` in the commit of each write |
| `mutate_user` | `LockUserTarget`, `MutateUser` |
| `create_quota_adjustment`, reversal | `LookUpAdjustment`, `LockUserTarget`, `AdjustQuota` |
| `admin/invitations.py` | `CreateBatch`, `LockInvitations`, `DisableInvitations`, `LookUpRevealed`, `LookUpCode` |
| the audit row of a disclosure | `Reveal` |
| `audit_admin_failure` after an `AdminOperationError` | `Refuse`, then `RecordRefusal` |
| `bootstrap_configured_owner` | `BootstrapOwner` |
| `update_profile`, `rename_display_name` | `AdmitRename`, `ReadSelf`, `LookForOwner`, `Rename` |
| `create_user_with_default_display_name` | `PickDefault`, `CreateUser` |
| `RENAME_COOLDOWN_DAYS`, quarantine period | `EndCooldown`, `EndQuarantine` |
| `close_account` (without its code and trips) | `AdmitClosure`, `CloseAccount` |
| trips, logins, redemptions (the other modules) | `Spend`, `OpenSession`, `RedeemCode` |

`GET` requests have no action, and neither have refusals before the first
statement (a malformed or reserved name).

### JobLinks

The state is, per job, the trip (`trip`: bound, erased, `association_version`),
hermes-travel's version of the job and its id in the source listing (`job`,
`source`), the columns of the projection row that link it (`link`), and the
`checkpoint` of the backfill. An acceptance, an event, a page of the backfill, a
reconciliation and a closure are transactions that lock one row per step and
write in the last; a select sees what is committed when it runs, so an
acceptance and a first snapshot may each miss the row of the other.

| Code | Actions |
|---|---|
| `save_upstream_acceptance` | `AcceptTrip`, `AcceptLink`, `AcceptCommit` |
| `apply_projection_event`, its state row | `Consume` |
| `_apply_job_snapshot` (`_lock_user_trip`, the job row, its foreign key, the upsert) | `ApplyTrip`, `ApplyLink`, `ApplyCommit` |
| `run_projection_backfill`, TRIP_JOB | `ReadCheckpoint`, `FetchPage`, `OpenPage`, then the three above |
| `reconcile_projection` | `FetchSource`, `CompareRows`, then the three above |
| `close_account` | `CloseUser`, `CloseTrips`, `CloseCommit` |
| reservation, settlement, hermes-travel | `Reserve`, `Settle`, `HermesStep` |
| exception, deadlock victim, crash | `Crash` |

Left out: the TRIP_STEP phase (steps have no association; their rows are in
`ProjectionStream`) and the report row of a reconciliation (nothing reads it but
an administrator).

## 3. Runs

| Run | Instance | Properties | Shows |
|---|---|---|---|
| `last_unit` | 1 user, 2 trips, 2 request ids, 2 workers, grant 1, adjustments of -1 and +1 up to a limit of 2, garbled answers | `NeverOverdrawn`, `OneTripEach`, `EntryFollowsTrip`, `DecisionStands`, `ImplementsLedger` | two submissions, or a submission and an adjustment, race for the last unit, whatever hermes-travel answers |
| `retries` | 1 trip, 2 workers, one reconciler attempt, `FairSpec` | `TypeOK`, `SubmittingIsUnbound`, `ChargedOnlyForSuccess`, `SoleCallRelease`, `SettledForGood`, `ErasedForGood`, `BoundTripSettles` | a submission, its retries, polls, streams and the reconciler on one trip, two at a time, with crashes and late answers; an owner who keeps polling sees it end |
| `blind_release` | 1 trip, 2 workers | `NoBlindRelease`, violated | finding 1 |
| `garbled_answer` | 1 trip, 1 worker | `SoleCallRelease`, violated | finding 2 |
| `stream` | 2 consumers, 2 events, 2 queued messages, 2 attempts, 1 lost connection or crash; new and republished events may be poison | `TypeOK`, `RecordedPrefix`, `ViewCoversPrefix`, `NoEventLost`, `PausedStandsStill`, `HeartbeatsInStep`, `ImplementsView` | the projection is a gap-free image of the source whatever is redelivered, paused or repaired; only the repair of the next event ends a pause, and a repair of one that is applied (DUPLICATE) changes nothing |
| `stream_progress` | 1 consumer, 2 events, 3 queued messages, new events may be poison, `FairSpec` | `EverythingApplied`, `PoisonLeaves` | bounded retries end, and with repairs everything is applied |
| `heartbeat_behind` | 1 consumer, 1 event, poison heartbeats | `RefusedHeartbeatIsAhead`, violated | finding 3 |
| `sign_in` | 2 users, 2 addresses, 2 invitations, 2 codes, 1 session, 2 requests, limit of 2 codes, 1 attempt | `TypeOK`, `InvitationOpensOneAccount`, `RegistrationsNeverClash`, `CodeSpentOnce`, `GuessesAreBounded`, `LiveSessionsAreActive`, `ClosedLeavesNothing` | sends, guesses, registrations, logins and closures, two at a time, against administrators, crashes and deadlock victims |
| `accounts` | owner, administrator, user and newcomer; 3 keys, 1 batch of one code, 4 names, 2 clients | `TypeOK`, `KeyAppliesOnce`, `AuditTellsTheTruth`, `BalanceNeverNegative`, `ClosedTargetIsForgotten`, `AdminsTouchOnlyUsers`, `NamesAreNotInherited`, `DisabledKeepsName` | any two requests, each repeated at will, against logins, trips, redemptions, the bootstrap and closures. A key is applied once, all its successes name the same target and state, and the codes of a batch are disclosed once at most (`KeyAppliesOnce`); adjustment and audit rows about a closed target are erased (`ClosedTargetIsForgotten`) |
| `orphaned_actor` | the same | `ErasedActorIsForgotten`, violated | finding 4 |
| `job_links` | 1 user, 2 trips, a job of two versions and one of one, pages of 1, 2 workers | `TypeOK`, `LinksTellTheTruth`, `BackfillCovers`, `ErasureIsFinal` | every pair of writers of a link, in every order of their locks |
| `missed_link` | 1 trip, 2 workers | `BindingCorrects`, violated | finding 5 |

Why these bounds are enough. Two tasks are needed for any race over one lock,
and for a stale answer to meet a newer one; what holds for more tasks is what the
theorems say, which cover every safety property of `last_unit` and `retries`.
Two trips per user are
needed for the balance and for the unique indexes, and a third would only repeat
the second. `MaxLimit` bounds adjustments, `MaxAttempts` replaces the configured
five (the code only compares with it), `calls` is counted to two because the
properties only ask "one or more". `CHECK_DEADLOCK FALSE` is set because an instance does stop when its
trip ids are used up and its accounts are closed; so do those of the other
modules, when codes, requests or jobs are used up. A wait of two transactions
for each other is no deadlock of the model, because one of them is rolled back.

Fairness in `FairSpec`: an owner keeps polling a bound trip and the request
eventually gets an answer (strong fairness of `FetchStatus` per trip), a request
is not killed every single time before it stores the answer (strong fairness of
`ApplyStatus` in a polling worker), a task that has something to do continues or
dies, an open stream ends some day (all requests have timeouts and connections
close), and a job that runs ends. Nothing is assumed of submissions, retries or
the reconciler: no process of the repository schedules `reconcile_bounded`, so a
trip that was never bound can stay SUBMITTING until its browser retries it; this
is documented as a retry cap with operator follow-up, and no property claims
more.

Bounds of the stream runs. Two consumers are what a failover has: the one that
lost its connection and the one that took over. Two events make a gap, a
duplicate of an applied event and a repair of the next one; two queued messages
let a republished event stand before or behind a new one, three let a heartbeat
stand between them. Two attempts stand for the configured number, which the code
only compares with. `Steps` is empty in these instances: a step is a row like
that of its job, except for the foreign key in `StoreSnapshot`; a separate check
with one step, one consumer and poison of all three origins found no error
either, and the theorems hold for any steps. `EverythingApplied` and
`PoisonLeaves` were also checked with a third event and with two consumers at a
queue of one message.

Fairness in `FairSpec` of the stream: the broker delivers, a handler goes on
(weak fairness), the transactions and the pause do not fail every time they are
tried (strong fairness of each of them), a stopped consumer is started again by
whoever runs the process, because nothing in the repository does, and an
operator repairs the event a paused stream waits for, with the payload that the
outbox would publish again (`Repairs` is SENT). With a rewritten payload a
republished original has another hash, is poison, and pauses the stream anew; a
heartbeat that was queued before it is then finding 3, so no liveness is claimed
for that case. Poison heartbeats are left out of `stream_progress` for the same
reason.

Bounds of `sign_in`. Two requests make every race of two transactions, and two
codes, invitations and addresses let them differ or collide. One wrong guess
brings a challenge to its limit, so that two concurrent guesses meet the
boundary; two codes bring an address to the limit of its window. One session is
enough to be opened, ended and opened again. The symmetry exchanges requests,
codes, invitations, and users together with their addresses.

Bounds of `accounts`. The requests in `MCAccounts` contain, for every action,
one that an administrator makes of an ordinary user; the owner's reach an
administrator, and two keys of the owner reverse one adjustment. The adjustments
of -1 and +1 and a grant of 1 bring a balance to zero and back. Two clients run
any two of the requests, and each may send its own again.

Bounds of `job_links`. Two jobs and pages of one make the backfill stop between
them; a job of two versions has an event that is older than the row. The
same instance was also checked with two users (2.1 million states) and with two
versions of both jobs (5.7 million states), without an error; they are not kept
because they take minutes and say the same.

No fairness is assumed in these three: their requests end by themselves or
crash, and what they promise is safety.

## 4. Findings

1. `trips/service.py:111`: a create call that fails to connect settles the trip
   FAILED and releases its unit, although an earlier or concurrent create call
   of the same trip (a browser retry, the reconciler) may have been accepted, or
   even be bound already. `docs/architecture-and-security.md:361-362` says: "do
   not blindly release while an upstream job may still succeed." The unit is
   given back while the job succeeds: the user gets a plan for nothing, and the
   trip reads FAILED. With a single create call the statement holds
   (`SoleCallRelease` in run `retries`).
2. `integrations/hermes.py:161`: a 2xx create answer whose JSON is not an object
   is raised with the default `acceptance_uncertain=False`, unlike the invalid
   JSON and schema errors next to it, so even a single call releases the unit of
   an accepted job. `docs/implementation-checklist.md:278` says: "Release the
   reservation only when pre-acceptance failure is known."

3. `admin/projection.py:341`: a heartbeat is refused unless its watermark equals
   the applied one, so one that is *behind* is refused like one that is ahead,
   and `projection_consumer.py:109` returns it to the queue as "heartbeat is ahead
   of the contiguous watermark". A heartbeat queued before an event that a repair
   applies is behind for good; returned messages keep their place, so nothing
   after it is delivered any more.
4. `admin/idempotency.py:75`: a claim stores the actor that was read before its
   transaction; the column has no foreign key, and nothing locks the actor's row.
   `close_account` sets the actor of the claims it sees to null
   (`account/closure.py:180`), and neither sees nor waits for one that is not
   committed yet. The write of an administrator who closes the account at the same
   time therefore leaves a claim that names the erased identity.
   `docs/database-and-quota.md:253` says of the column: "current actor; null
   after identity erasure".
5. `admin/projection.py:202`: while the binding of a trip is not committed, a
   snapshot of its job finds no trip, and waits for none. It may insert an
   unlinked row that the acceptance did not see, or write "unlinked" over the link
   the acceptance has just committed. When it was the last version of the job,
   nothing corrects the row: a reconciliation compares versions only.
   `tests/integration/test_v020_projection.py:187`
   (`test_event_before_binding_is_corrected_by_binding_transaction`) asserts at
   line 229 that the row is "linked" after the binding, which holds when the two
   transactions follow each other and not when they overlap.

`SubmittingIsUnbound`, `ChargedOnlyForSuccess`, `SettledForGood` and
`ErasedForGood` hold in spite of the first two, every safety property of the
stream in spite of the third, those of `accounts` in spite of the fourth, and
`LinksTellTheTruth` in spite of the fifth: an unlinked row claims nothing.

## 5. Proofs

### TripQuotaProofs

It proves, for every set of users, trips, request ids and
workers, every grant and every set of integer adjustments:

* `TypeCorrect`, `EntryFollowsTripHolds`, `OneTripEachHolds`, `BalanceHolds`,
  `DecisionStandsHolds`: the invariants of `last_unit`, and `TypeOK`;
* `LedgerIsImplemented`: `Spec => ImplementsLedger`.

The assumption is `ConstantsAssumption` of `TripQuota`: trips are finitely many
(units are counted), the placeholder `Nobody` is nobody, the grant is a natural
number and the deltas are integers.

The argument. None of the invariants is inductive alone. `TypeInv` adds to
`TypeOK` that the locals of a task fit its program counter (`WellFormed`): a
task about to write a trip has one whose row exists. On top of it `LedgerInv`
joins `EntryFollowsTrip`, `DecisionStands`, `OneTripEach` and `NeverOverdrawn`.
`DecisionStands` is the strengthening: between the reads and the writes of a
locked transaction the account stays open, no trip of the user becomes active or
takes the request id, and the units in use only shrink.

1. `StepKinds`: whatever the 22 actions do, a step is *quiet* for the ledger,
   *settles* one active trip, or is `ReserveInsert`, `AdjustInsert` or
   `CloseAccount`. That `Settle` always meets a RESERVED entry is where
   `EntryFollowsTrip` is used.
2. `LockStep`: a worker at a decision keeps its lock, and every other writer
   under a lock writes for another user.
3. `UsedShrinks`, `InsertTakesOne`, `CloseFreesAll`: what each kind does to the
   number of units in use.
4. `EntryStep`, `OneTripStep`, `BalanceStep`, `DecisionStep`: one lemma per
   conjunct, by the kinds of 1.
5. `StepRefines`: the same five kinds map to a stutter, `Settle`, `Hold`,
   `Adjust` and `Close` of the abstract ledger.

### ProjectionStreamProofs

It proves, for every set of jobs, steps and consumers, any number of attempts,
any kinds of poison and repair, and any bounds on events, queue and losses, all
seven properties of run `stream`: `StreamTypes`, `RecordsPrefix`,
`CoversPrefix`, `LosesNoEvent`, `StandsStillWhilePaused`,
`KeepsHeartbeatsInStep` and `StreamImplementsView`. The assumption is
`StreamAssumption` of `ProjectionStream`.

The argument. `Types` adds to `TypeOK` that messages, handlers and the operator
only speak of events that were committed; without it a handler could record an
event beyond the log.

1. `RowsStep`: as far as the rows go, a step is *quiet*, *stores* a newer
   snapshot, *records* the event the stream waits for, or *confirms* a heartbeat
   at the watermark. That a handler's event is still the expected one is checked
   under the lock, so a duplicate, a late handler and a repair all fall under one
   of the four.
2. `RowsInvariant`: the four kinds keep `RecordedPrefix`, `ViewCoversPrefix` and
   `confirmed <= applied`. Pauses, heartbeats and the refinement follow from the
   same case split.
3. `NoEventLost` needs `HeldIsHandled`: the message a consumer holds is the one
   its handler works on, and when the handler is about to acknowledge an event,
   the event is applied. This is where the duplicate check before the lock
   matters: it acknowledges only what `RecordedPrefix` says is applied.
   `KeptIsNoLoss` covers the steps that remove no message, `RemovalLosesNothing`
   the acknowledgement and the rejection.

### TripOutcomeProofs

It extends `TripQuotaProofs` by all safety properties of run `retries`:
`SubmittingIsUnboundHolds`, `ChargedOnlyForSuccessHolds`,
`SettledForGoodHolds`, `ErasedForGoodHolds` and, under the assumption that
accepted answers can be read (`~GarbledBodies`, without which finding 2 refutes
it), `SoleCallReleaseHolds`.

The argument. `OutcomeInv` joins `LedgerInv` with `Answers`: what a task still
has to apply is true. An acceptance belongs to a job that exists, a refusal to
one that was refused, a terminal status is the final status of its job, and the
trip of a poll or a stream is bound. It is inductive because a job never takes
its acceptance or its end back (`JobStays`) and a binding is never undone.

1. `RowSteps`: a step leaves a trip alone, tries, inserts, moves, ends or erases
   it (`RowStep`). The cases say what `Settle` and `Advance` really allow, so
   `SettledForGood` and `ErasedForGood` follow from them.
2. `AnswersStep`: the task that moves gets a true answer (`OwnAnswer`), and the
   answers of the others stay true.
3. `SoleCallStep`: as long as a trip has one create call, one task at most makes
   it, and the job has not begun before it is sent. A second call ends the claim
   for good, which is why `calls` need not be counted beyond two.

### SignInProofs

All seven properties of run `sign_in`, from `SignInAssumption`. The inductive
invariant `IInv` is `TypeOK`, what a request knows of the rows it has locked
(`Shape`, `Holds`), and how the rows and histories agree (`Rows`). The argument
is the one the code relies on, lock by lock: no step of another request writes a
row it has not locked or found unlocked (`Keeps`, `OthersHold`), so every write
finds what was read. Then `RegistrationsNeverClash` says that the unique
constraints are never the ones to decide, and `LiveSessionsAreActive` that a
disabling cannot slip between the check of a login and its session.

### AccountsProofs

`KeyAppliesOnceAlways`, `AuditIsTrue`, `ClosedIsForgotten`,
`AdminsTouchOnlyUsersAlways`, `NamesAreNotInheritedAlways` and
`DisabledKeepsNameAlways`, from `AccountsAssumption`. The invariant joins the
shapes of variables and locals, what a request knows under its locks (`Shape`,
`Knows`), and that keys, ledger, audit and users agree (`Fit`). Writes are alike
in what they do to their key, which is proved once for all of them
(`Completing`). That all successes under a key say the same is `AnswersFit`: what was
said is in the row of the key, and codes are disclosed by the request that made
the row, so not again. The name of a rename needs no lock of its own: a name that was
held when the request began is found held, or, when it was given up in between,
found in quarantine, because the two lookups come in this order.

### BalanceProofs

It extends `AccountsProofs` by the two properties of run `accounts` that need
arithmetic, and by two statements that no run lists:

* `AccountTypes` and `BalancesHold`: `TypeOK` and `BalanceNeverNegative`;
* `AdjustmentsTellBalanceAlways`: the `balance_after` of an adjustment, kept in
  an append-only row, is the balance that its commit leaves;
* `ReversalsCancelAlways`: a reversal is of a made adjustment of the same user
  and of the opposite number of units, so that the `RuntimeError` in
  `create_quota_adjustment` is never raised.

`AccountsAssumption` says for them that the keys are finitely many (a sum over
them is meant), that the grant is a natural number (`ck_quota_grant_positive_units`)
and that the delta of a request is an integer.

The argument.

1. `quota_snapshot` is a sum over the adjustments of a user, in the model the
   fold `MapThenSumSet`. The induction theorems of the library are out of reach,
   the least element of a well-founded order is not: `SumsExist` shows that the
   recursive function behind the fold exists on a finite set, from the least
   number up to which it would not, and `SumsInsert` that one more element
   adds its delta in whatever order the fold takes the others, from a least set
   that would refute it. What the rest needs is `TotalInt`, `TotalAgrees` and
   `TotalInsert`.
2. `Typed` is what `TypeOK` says beside the `Shapes` of `AccountsProofs`.
3. `Solvent` follows a balance from the check to the commit. A balance that is
   only known not to be negative is not inductive: an adjustment that passed its
   check would be applied to another balance. So a task at `apply` knows that
   what it read is the balance still (`Checked`), which is where the lock of the
   user is used: whoever spends, adjusts or closes for this user needs the same
   row (`OthersChecked`). An unclaimed key has no adjustment, so that
   the one that is written is new to the sum (`BalanceAdjusted`).
4. `Backed` follows an adjustment from `LookUpAdjustment`, which holds no lock,
   to the commit of its reversal. The rows are append-only but for a closure,
   which takes those of its user; the lock on the target orders the two, and a
   reversal that comes second finds its target gone.

### JobLinksProofs

All four properties of run `job_links`: `LinkTypes`, `RowsTellTheTruth`,
`PassedIsCovered`, `ErasedForGood`, and the invariant `LinksInvariant` they
follow from, for every set of users, trips and workers, any page size and any
number of versions. The assumption is `LinksAssumption` of `JobLinks`: the
placeholder is nobody, a job has a last version, and a page is not empty.

The invariant `IInv` joins `TypeOK`, what a worker knows (`Knows`) and how the
rows fit together (`Fit`). None of these parts is inductive without the others.

1. `Knows` says what each transaction has locked, what it has read under these
   locks, and, for a page of the backfill, that every job of the page is still
   to be applied or has its row locked. `OthersKnow`
   is the use of the locks: a step of another worker changes no row that
   a worker relies on.
2. `Fit` says of a trip that its version counts its binding and its erasure,
   of a row that what it says of its owner is what the trip says (`RowFits`),
   and of the checkpoint that every job it has passed has a row. A first
   snapshot and an acceptance may miss each other's row; `RowFits` survives
   because a snapshot that finds its trip unbound writes no owner, and who
   writes an owner, or takes one away, has the trip locked.
3. `Reading` and `Writing` split the steps: one that writes no row has only its
   own task to keep right, one that does ends its transaction. `PageCovers` is
   the step of the checkpoint, `ErasedRows` what a closure leaves.
4. `ErasedForGood` needs `ErasedStays`: no snapshot, repair or acceptance takes
   the mark of an erased identity from a row; what the row then says follows
   from `RowFits`.

### Only model-checked

* `BoundTripSettles`, `EverythingApplied` and `PoisonLeaves`: liveness under
  fairness is beyond the prover. All other properties of the passing runs are
  proved.
* The five violated statements: their counterexamples are the result.

## 6. Plan

In this order; what is done is marked.

1. **Done** `TripQuota`, `QuotaLedger`, `TripQuotaProofs`.
2. **Done** `ProjectionView`, `ProjectionStream`, `ProjectionStreamProofs`.
3. **Done** `SignIn`, `SignInProofs`.
4. **Done** `AccountRows`, `AdminConsole`, `DisplayNames`, `Accounts`,
   `AccountsProofs`.
5. **Done** `JobLinks`, its runs.
6. **Done** `TripOutcomeProofs`.
7. **Done** `JobLinksProofs`, `BalanceProofs`.
8. The relay of a job stream: an interrupted stream is told once, and never after
   a terminal event (`trips/router.py:205`).

### Not modelled, and why

* History and archive: pages are read-only, and archiving is one conditional
  update of a column that nothing else decides on.
* Admin read views: read-only SQL and relays of upstream answers; their cache
  only ages.
* Normalisation of display names and addresses, cursors, payload schemas: pure
  functions on strings. Names and addresses are members of sets.
* Configuration, logging, header and origin checks: no state.
* The connection pool: whether requests that hold one connection and open a
  second one wait for each other depends on its size and on how many requests
  are served at once, which no model here has.
* The TRIP_STEP phase of the backfill: a step that is newer than the job pages
  fails on its foreign key, and the run is repeated.

What the models show but no property claims:

* After the last reconciliation attempt an unbound trip waits for its browser
  (`trips/reconciliation.py:38`); this is documented as operator follow-up.
* An acceptance that is saved late sets a RUNNING trip back to PENDING until the
  next poll (`quota/service.py:277`).
* Two sends may pass the limits together (`auth/service.py:57`).
* A process that dies between the mail and SENT leaves a code that is refused
  (`auth/service.py:157`); another one can be asked for.
* A reversal is looked up before its key is claimed (`admin/service.py:369`), so
  its retry may be told 404 where a replay is due, once the target has closed.
* Revealing an address writes an audit row about a user it has not locked; the
  row may name one who has just closed the account.
* `docs/database-and-quota.md:489-491` says that Account Closure removes or
  de-identifies idempotency and audit references to the user. It does so in the
  columns. The stored answer of a key keeps the public id of its target
  (`admin/service.py:221`, `admin/service.py:326`), and `account/closure.py:179-183`
  erases the actor of the key only; likewise the audit row of a denied request
  keeps the URL path it was made of (`admin/auth.py:105`), which may contain that id.
  In `Accounts` the `answer` of a claim and `trace.path` do name closed users; no
  race is needed. `ClosedTargetIsForgotten` speaks of adjustment and audit rows.
* The telemetry of an erased trip is still written by a late answer
  (`quota/service.py:357`).
* The product document (`docs/product-scope.md:242-243`) and `close_account`
  differ on the configured owner: the code has no check of its own. The bootstrap
  and a closure of the owner are both steps of `Accounts`.
