# Formal models of thtwaat-core-api

This directory holds TLA+ models of the backend in `src/app` and `src/scripts`
(FastAPI, SQLAlchemy on Postgres, Redis, one worker and one scheduler process),
TLC configurations that check them on small instances, and proofs that TLAPS
checks for every value of the constants.

    tlc -workers 2 -config BillingRaces.cfg MCRazorpayBilling.tla
    tlapm WebhookOutbox_proofs.tla

Line numbers below refer to the repository; `PROJECT.json` gives, for every
definition that models code, the lines it stands for.

## 1. The system

| component | state it keeps | operations | who it talks to |
|---|---|---|---|
| **Outgoing webhooks** `webhooks/`, `monitoring/queue.py`, `openai_compat/notify.py`, `scripts/worker.py` | `webhook_deliveries` (the outbox row), `webhooks`, three Redis keys: job list, delayed ZSET, dead list | record + enqueue, promote due jobs, redrive stuck rows, pop, POST, back off, dead-letter, dashboard retry, admin retry/cancel | producer (API request), worker, operator and customer share rows and lists; the endpoint is remote |
| **Razorpay billing** `payments/webhooks`, `payments/subscriptions`, `payments/invoices`, `payments/billing_extras.py` | `billing_webhook_events` (claims), `subscriptions`, `invoices`, `companies.plan`, `companies.credits_balance` | webhook claim + handlers, order verification, cancel, reconcile; checkout and plan changes | Razorpay (webhooks in, API calls out), browser, scheduler |
| **AI gateway credits** `ai/service.py` | `ai_requests`, `companies.credits_balance` | reserve under the row lock, call the provider, settle, record, refund | provider, billing (which adds to the same balance) |
| **Chat completions** `openai_compat/` | idempotency records, rate windows and response cache in Redis; log and usage rows | begin, complete, abandon, expire a key; two rate windows; JSON, buffered and true streams with a fallback chain | providers, usage meter, outgoing webhooks |
| **Static-site deployments** `static_sites/` | `static_site_deployments` (version, status, `is_current`), upload idempotency keys, containers, the vhost's two targets | upload, push, rollback, pipeline, supersede, fail and restore | worker, orchestrator, virtual host |
| **Preview deployments** `static_sites/preview_service.py` | one row per pull request with a generation, directories and containers per generation | open/synchronize, close, deploy, tear down, expire | GitHub webhooks, worker, scheduler, virtual host |
| **Domains and certificates** `domains/`, `ssl/` | `company_domains` (status, ssl status, DNS check, expiry, content), the vhost file | register, verify, order, renew, activate, bind, delete, auto-progress, expire | DNS, ACME, deployments, worker, scheduler |
| Stripe billing, same files as Razorpay | the same tables | webhook claim + handlers | Stripe |
| GitHub connection | OAuth states, installations, delivery claims | connect, receive webhooks | GitHub, static sites, previews |
| Authentication `auth/` | refresh tokens, reset tokens, MFA backup codes | login, refresh, revoke, reset, verify | - |
| Usage metering `usage/` | counters per company and period | record, check limit | AI gateway, billing |
| Agent platform `agent_platform/` | agents, knowledge, calls | CRUD, chat, voice | language models, telephony |
| Orchestrator `src/orchestrator` | Docker's own | build, start and stop a site's container | static sites, previews |
| Coding agent `coding_agent/` | none | mint a short-lived token | - |
| Scheduler `scripts/scheduler.py` | - | ticks: reconcile, sweep previews and domains, purge keys, retention | every component above |
| CRUD and UI | users, companies, RBAC, apps, store, studio, front ends, SDKs | single-row operations | - |

The components in bold are modelled. They meet at four places: Razorpay's grants and the AI
gateway's debits on one balance (composed in `AICredits`); deployments and the domain
manager on one `company_domains` row and its vhost (each side is in the other's model, as
`Bind` of `DomainManager` and as the vhost of `StaticDeploy` and `PreviewDeploy`); the job
queue, shared by webhooks, deployments, previews and domains; and the scheduler, whose
ticks are actions of the module they act on.

What is hard in it:

* **Two stores, no transaction over both.** The outbox writes Postgres, then
  Redis, then Postgres again; the worker takes a job out of Redis for good before
  it works on it. Each write may fail alone and the process may die in between.
* **Commit-by-commit handlers.** A billing webhook commits its claim, the
  subscription row, the invoice, the plan, the balance and the mark one after the
  other. A deployment's pipeline commits its row at every stage. Razorpay redelivers;
  the browser verifies the same payment; the scheduler reconciles the same row.
* **Reads used later.** Redrive acts on rows it read as a batch; the grant adds to a
  balance it read without a lock; a deployment checks that it is the newest and binds
  afterwards; a certificate order takes seconds on a row loaded before it.
* **Claims that expire.** A request may outlive its idempotency record, and what it then
  writes may be somebody else's.
* **Cleaning up after failure.** Failing a deployment stops a container, gives
  `is_current` back and rewrites a row: of what, and whose, depends on the step it
  failed at.
* **What a lock or an open transaction waits for.** Handlers are coroutines that query
  synchronously: waiting for a row stops the event loop of its whole process.
* **Budgets.** Attempts are counted in the job, in the row and in the redrive; rate
  windows, a company's runtimes and its credits are limits under concurrency.

`PROJECT.json` lists the hazards one by one at their lines, with the properties
that would catch them; section 5 adds those that no property covers.

What makes the components correct, in short: a delivery's status tells the truth and an open
delivery never stays open; a payment is invoiced once and credited once and an acknowledged
event has been carried out; credits are neither made nor lost, and a request's row says what
became of them; one idempotency key runs one request at a time, keeps and bills one answer and
replays it; what nginx serves at the site's hostname is up, is the deployment the API reports
and is not an older one by a race; a preview never goes backwards, leaves no container behind
and is torn down when its pull request closes; a domain gets, keeps and renews its certificate
and its vhost serves what was last bound to it.

## 2. Modules

Each component has a module, an `MC...` module for its instances (with the symmetry set, where
a run uses one), and a `..._proofs` module with the theorems; `PaymentLedger` is the abstract
specification of billing, and `Sums` has the facts about sums that the credits' proofs use. No
module uses a RECURSIVE operator. The operators marked `Mutant:` are deliberately broken forms
of the definition that follows them; no specification uses them. They are there so that each
property can be seen to fail when the code does something else.

In every module `Fault(kind)` is the only way a failure happens: `FaultKinds` says which
kinds an instance explores and `MaxFaults` how many strike.

### WebhookOutbox

One step is one Redis command, one committed row update or one HTTP POST.

| model | code |
|---|---|
| `row[d]` (`status`, `attempts`, `stale`) | `webhook_deliveries`; `stale` says `updated_at` is older than `WEBHOOK_OUTBOX_STALE_SECONDS` |
| `hook` | the `webhooks` row; `"deleted"` leaves `webhook_id` NULL |
| `producer[d]` | position in `enqueue_webhook_dispatch`: record, push, mark |
| `jobs`, `delayed`, `dead` | the Redis list, ZSET and dead list |
| `pc`, `hand`, `todo` | each worker's (and retry request's) position, the job in its hand, the redrive batch |
| `Record`, `PushFirst`, `MarkFirst` | `openai_compat/notify.py` |
| `PromoteTake`, `PromotePush` | `promote_due_jobs`: ZREM, then RPUSH |
| `RedriveQuery`, `RedriveRow`, `Push`, `Mark`, `RedriveDone` | `redrive_stuck_deliveries` |
| `RetryRead`, `Push`, `Mark` | the dashboard's `retry_delivery` |
| `RetryDead`, `CancelJob` | queue administration |
| `Pop`, `AckAttempt`, `Post`, `AckDelivered`, `Bury`, `AckDead`, `Delay`, `AckFailed` | `process_job` for `webhook.dispatch`, `_handle_webhook_failure` and the loop's own handler |
| `Tick`, `SetHook`, `WorkerCrash`, `ProducerCrash`, the `Fault` branches | time, the customer, process death, a Redis or Postgres command that fails and is swallowed |

Abstractions. A row update is one step, although the code reads and commits without a
row lock. The delayed set's ready times are dropped: a delayed job may be due at any
time. A stale failed row is taken to be due (`next_attempt_at` past), since the longest
back-off before the last attempt is far below the stale limit. The redrive's batch limit
is replaced by the bound `MaxJobs` on live copies, which also bounds the dashboard's
retry: an action is not taken when the bound is reached. The URL, the payload, the
signature and the log columns are left out. The other job types of the worker do not
touch this state.

### PaymentLedger and RazorpayBilling

`PaymentLedger` is the promise: a payment is invoiced at most once and credited at most
once, after its invoice. `RazorpayBilling` is the code, one step per commit, for one
company with one subscription row.

| model | code |
|---|---|
| `remote`, `orders`, `emitted` | Razorpay (external): the subscription, one-time orders, the events it sends; the payments of the cycles in `Reported` are sent as `payment.captured` too, besides `subscription.charged` |
| `acked` | events answered 200; Razorpay sends any other again, in any order and at any time |
| `claimed`, `processed` | `billing_webhook_events` rows and their `processed` flag |
| `row` | the `subscriptions` row: status, period end (as a cycle), cancel flag, payment and order ids |
| `plan`, `balance` | `companies.plan`, `companies.credits_balance` |
| `invoices` | `invoices`, under the unique index on the payment id |
| `pc`, `ev`, `fresh`, `seen` | a request's position, its event, `created` from the invoice insert, the balance it read |
| `rec` | `reconcile_razorpay_subscriptions`: select, fetch, apply, downgrade |
| `Receive`, `InsertClaim` | `claim_webhook_event`, before and after its insert |
| `UpdateRow` | the handler's first commit, one disjunct per event type; a subscription's captured payment may come without the notes that name the company (`Unnamed`) |
| `CreateInvoice`, `SyncPlan`, `GrantRead`, `GrantWrite`, `Downgrade` | the calls that follow, in their order |
| `MarkProcessed`, `MarkFailed` | the last commit; the 500 path |
| `StartVerify` | `verify_razorpay_payment`, which then shares the steps from `UpdateRow` on |
| `CreateOrder`, `CancelSubscription` | `create_razorpay_order`, `cancel_subscription` |
| `StepRaises` (`Swallow`, `Abort`), `HandlerCrash`, `RecCrash`, the fault branches | an exception, which a webhook's plan sync and grant log and answer 200, and every other step answers 500; a dead process, a failed claim insert, a failed remote cancellation |

`BodyEventIds` says whether the webhook's body has `event_id`: with it every event has
its own claim key, without it the key is the payment's or the subscription's id
(`router.py:225-232`). `MarkFailed` may or may not reach the database, since the
session may be broken. The history variables are `granted`; `applied`, the events whose
handler reached the mark with every step done (a handler that swallowed a failure marks
from the step `logged`, and its event is not applied); `swallowed`, the events that
were answered 200 although their claim, plan sync or grant failed; and `dropped`, the
payments whose handler stopped between the new invoice and the grant (`Drop`).

Abstractions. A cycle's number stands for its period end, its payment and its amount. Any
200 to an event stops its redelivery. The subscription row and its mandate exist when the
run starts. Signatures, e-mails, coupons, amounts and logging are left out.

### AICredits

One company's balance, the calls that reserve and settle on it, and the billing grant that
writes it without a lock.

| model | code |
|---|---|
| `balance`, `holder` | `companies.credits_balance`, in stored units; the call whose transaction holds the row (`SELECT ... FOR UPDATE`) |
| `Scale`, `Nearest`, `Stored` | costs are counted in units `Scale` times finer than the column's four decimals; `Write` rounds what a debit, a settlement or a refund stores, half away from zero as PostgreSQL does |
| `Loop`, `hung` | the calls and grants served by one API process, on one event loop; it waits for a lock that only it can release |
| `pc`, `seen`, `upfront`, `actual` | a call's position, the balance it read, its estimate, its cost |
| `row` | its `ai_requests` row; created with the column's default, `SUCCESS` |
| `Lock` / `AcquireRow` then `Debit`, `Settle`, `Refund` | the two halves of each balance update: the locking read, the commit |
| `Close`, `Hang` | a refused call keeps its transaction, and the row, until `get_db` closes its session; another one on the same loop may ask for the row first |
| `Create`, `Call`, `Record`, `Reply`, `FailRow` | the request row, the provider with its retries and fallbacks, `update_request`, the response schema, the failure row |
| `GrantRead`, `GrantWrite` | `_grant_plan_credits` of the billing code, in `Decimal` |
| `Crash`, the `Fault` branches | the death of a call's process with all that it serves (open transactions roll back), a database error (the session is unusable afterwards), a provider that fails, a response the schema rejects |

The handlers are coroutines that query synchronously. A request's lock and commit have no
`await` between them, so on one loop the row is free whenever another coroutine runs, but for
the refusal: `raise HTTPException(402)` leaves the transaction of `FOR UPDATE` open
(`ai/service.py:114-116`), `get_db` is a generator whose `close()` runs in a thread once the
loop gets to it (`database/database.py:19-29`), and a coroutine that asks for the row first
blocks the loop. Image and compose file run one uvicorn process without workers, and no lock
timeout is set. `settled`, `short`, `writes` and `lapses` are history variables: settlements
committed, the sum by which calls cost more than they reserved, the rounded writes, and
whether a grant wrote over a change it had not read. The error of the float arithmetic itself,
some 1e-16 of a balance, is left out beside the rounding of the column. The per-minute
limiter, retrieval and the usage meter (whose failure is swallowed) are left out.

### ChatCompletions

`POST /v1/chat/completions` with an `Idempotency-Key`, for one tenant and one key (records
of different keys never meet). Requests may be served by different API processes, so each
Redis command, commit and provider call is a step.

| model | code |
|---|---|
| `lock` | the key's record in Redis: absent, in progress, or completed with a response |
| `used`, `cached` | the tenant's two rate windows; the response cache |
| `streaming` | `STREAM_ENABLED` and the provider: off, buffered or true SSE |
| `pc`, `body`, `answer` | a request's position, its body (what `request_hash` compares), the response it has in hand |
| `chain`, `voices` | the fallback providers a stream may still try, and those whose frames its client has seen |
| `Begin`, `Load`, `Claim`, `Reload` | `begin_or_lookup`: GET, SET NX, GET again |
| `Enforce`, `Admit` | the two windows of the rate limiter, the prompt guard and the cache |
| `Run`, `Infer`, `Log`, `Meter`, `Keep` | the JSON and buffered paths: execution, provider call, log row, usage rows (with the quota's own 429), the response cache |
| `Resolve`, `Frame`, `StreamFails`, `StreamEnds`, `StreamLeft`, `Finalize` | `stream_engine.py`: choosing a provider, a frame, failing over or breaking, the client leaving, the log at the end |
| `Store`, `Abandon` | `complete` and `abandon`, which write and delete unconditionally |
| `Cancel`, `Crash`, `Expire`, `CacheExpires`, `WindowEnds` | a generator cancelled by the server, process death, the TTLs |

`Meter` has three outcomes. The usage rows are committed; or some failure is swallowed, with
all, some or none of them committed; or `check_quota`, asked again after the provider has
answered (`usage/service.py:316-320`), finds the month used up by this or the tenant's
other requests and its 429 goes through to the router, which releases the key.

`metered`, `wasted` (executions whose answer was thrown away: a failed log, a refusing
quota), `whole`, `truncated` and `lapses` are history variables; `lapses` says how the key
lost its hold: its record aged after its request had ended, was overtaken while the
request still ran, or a request went on without it. Plan look-up, response headers, provider
health, embeddings and the model list are left out.

### StaticDeploy

The deployments of one site. Every upload, push and rollback is a process that runs once; a
retried upload is another one with the same key.

| model | code |
|---|---|
| `rows[p]` | the `static_site_deployments` row process `p` created: status, version, `is_current`, artifact, runtime fields |
| `root`, `proxy` | each hostname's `static_root_path` and `runtime_proxy_target`: what its vhost serves |
| `Hosts`, `FreeHost`, `Custom`, `HostOf` | the hostnames; an upload asks for the free subdomain or a custom domain, a push goes where the newest completed row went (`Carried`), a rollback where its target did |
| `running` | the containers, which belong to the site, named after the row that started them |
| `key` | the upload's idempotency record: absent, fresh, or older than 24 hours and not yet purged |
| `jobs`, `worker` | `static_site.github_deploy` jobs and the push the worker took |
| `pc`, `mem` | a process's position and its local variables |
| `UploadBegin`, `PushBegin`, `RollbackBegin` | `deploy_upload`, `create_github_deployment`, `rollback` up to their first write |
| `Clear`, `Version`, `Insert` | `create_deployment`: clear `is_current` (whose row locks last until the commit), the next version, the insert |
| `Claim`, `Discard`, `KeyExpires`, `KeyPurged` | the idempotency key and the row of the loser |
| `Enqueue`, `WorkerTake` | the job of a push; its failure; the worker's loop |
| `RunStart`, `Env`, `Build`, `Check`, `Limit`, `Start`, `RecordRow`, `Bind`, `Finish`, `Stop` | the stages of `_run_pipeline`, with the supersede checks |
| `Fail`, `Restore`, `Rewrite` | `_fail`: fail the row, stop its container, make the newest completed row current (the vhost is not switched back) |
| `Raise`, `Promote` | a database error reaches the worker, which delays the job; the delayed set's return to the list |
| `Crash`, the `Fault` branches | a dead process; failed builds, starts, binds and enqueues; a hostname whose resolution raises; a start that succeeds after its timeout |

`happened`, `runs`, `seen`, `bound` and `home` are history variables: the mishaps that
properties excuse, the pipelines started under the key, the newest version a process saw
when it checked, who switched a vhost last, and the hostname the deployments have gone
to without a break since its vhost got the container it proxies to.

Hostname and container do not go together in the code. A deployment chooses its hostname,
but the container it stops in the end is that of the site's newest completed row
(`service.py:449`, `580-584`), whichever hostname proxies to it. `ServedIsUp` is
therefore about `home` alone. A hostname the deployments have left is served by a container
the site no longer keeps: with a property of every hostname in place of `ServedIsUp`, TLC
finds an upload to the free subdomain, a Next.js upload to a custom domain after it, and the
first one's vhost proxying to the stopped container, without any fault. A static deployment
back to such a hostname does not help, for `set_static_root` leaves the dead proxy target
in place; only a container started for it again does. The stages that only save progress and the
contents of environment variables and artifacts are left out.

### PreviewDeploy

One pull request's preview. Generations number its directories and containers. A webhook
handler is a coroutine without an await, so one runs at a time in the API's process; but the
worker is another process, and may commit between the handler's read of the row
(`preview_service.py:140`) and its commit (206). These are two steps.

| model | code |
|---|---|
| `row`, `expired`, `pr` | the preview's row (generation, status, container, path, torn down), its `expires_at`, the pull request |
| `domain`, `root`, `proxy` | the preview's hostname and what its vhost serves |
| `running`, `dirs` | containers and directories by generation |
| `jobs`, `delayed` | deploy jobs (which pin a generation) and teardown jobs (which pin none), and those to be retried |
| `hook` | what the handler has read: was the row torn down, was it queued |
| `Advance`, `AdvanceCommit`, `Close` | opened/synchronize/reopened: the read, the commit with its job; closed and the owner's manual teardown (which runs in a thread, beside any handler) |
| `Tick`, `Sweep`, `Promote` | expiry, the scheduler's sweep, the delayed set |
| `Take`, `Begin`, `Progress`, `Build`, `Guard`, `Start`, `RecordContainer`, `Bind`, `Ready`, `Cut` | `run_preview_deployment`: its two staleness guards, the container, the vhost, the old generation's removal |
| `TeardownStop`, `TeardownUnbind`, `TeardownClose` | `teardown` |
| `Raise`, `Crash`, the `Fault` branches | the job is retried, the job is lost, a stage fails |

`mem[w]` keeps the row as the session's identity map has it: `Guard` compares what was
last refreshed, and `Progress` is the commit that refreshes it. `Advanced` is
what the unit of work writes: `torn_down_at` is cleared only if it was read set, and
the status is left alone if it was read queued. `happened`, `strays`, `shown` and
`overtaken` are history variables; the last says that a teardown came between a
handler's read and its commit, which leaves a row that is queued and torn down at once.
`shown` is the generation of the vhost's last switch. That is what a visitor sees unless a static
generation followed a Next.js one: the proxy target stays and is preferred, the row
goes on naming the old container, and `Cut` spares it. `ServedIsThere` speaks of `proxy` and
`root`, not of `shown`. The limits on previews per company are left out.

### DomainManager

One hostname from registration to a renewed certificate. Requests and the worker hold
objects of their own sessions; nothing is locked, and a save writes the columns that differ
from the loaded ones (`Merge`).

| model | code |
|---|---|
| `row`, `content`, `expiry` | the `company_domains` row (status, ssl status, DNS check, certificate); its two columns `static_root_path` and `runtime_proxy_target`; `ssl_expires_at` seen from today |
| `Directories`, `Containers`, `Bound`, `Preferred` | what may be bound; binding a container clears the directory, binding a directory leaves the container (`ssl/manager.py:228-247`); the vhost prefers the container (`nginx_gen.py:184-189`) |
| `vhost` | what the nginx file serves |
| `jobs`, `job` | `domain.auto_progress` and renewal jobs, and the one in the worker's hands |
| `pc`, `mem`, `op`, `seen` | a session's position, its object, its operation, the content it is about to write |
| `Verify`, `Found`, `Missed` | the DNS check, made by a person or by the worker |
| `Order`, `Request`, `StartRenew`, `Issue` | `request_ssl`, `SslManager.request` and `renew`: the mark, the ACME order and its outcome |
| `Reread`, `WriteVhost`, `Activate` | `_activate`: read the content again, write the vhost, save the certificate |
| `Bind`, `Rewrite` | a deployment pointing the hostname at its content, which requests a certificate or rewrites the vhost |
| `Ask`, `Delete`, `ReadStatus`, `Age` | the portal's calls; the expiry flag; time |
| `Tick`, `Pop`, `Return`, `Raise`, `Crash` | the scheduler's hourly tick, the worker's loop and its retries, a dead process |
| `RaiseGone` | a save of a row that has been deleted: SQLAlchemy's `StaleDataError` |

`crossed` and `lag` are history variables: a session whose content another binding has
replaced, and a vhost that missed a binding by a race or a crash. `Hidden` names the directory
that was bound over a container and is not served. `Age` takes a
certificate past its end only when nothing more is under way, since the code renews weeks
before. With `Free` the hostname is one of the platform's own subdomains, registered as
verified. The operations team's `mark_ssl_issued`, the simulation mode, the CORS origin
cache, quotas, the primary flag and the update of a hostname's agent are left out.

## 3. Runs

| run | instance | shows |
|---|---|---|
| `OutboxFaults` | 1 delivery, 1 worker, 1 retry request, budget 2, 2 live jobs, 1 operator action, 1 fault; the webhook may be disabled, enabled and deleted | statuses are truthful (`DeliveredIsHonest`, `DeadIsJustified`), attempts are written ahead (`WrittenAhead`), only an operator exceeds the budget (`OverBudgetIsManual`) |
| `OutboxLive` | 1 delivery, 1 worker, 1 live job, 2 faults; the webhook may be switched off and on | a recorded delivery is settled in the end (`EventuallySettled`) |
| `BillingRaces` | 2 requests, 1 cycle, 1 one-time order, event ids, no fault | the refinement of `PaymentLedger` and `AckedIsApplied` in every interleaving of commits with each other and with reconciliation |
| `BillingFaults` | 1 request, 1 cycle whose payment is reported twice, 1 order, event ids, 1 crash, exception or failed claim | `AckedIsApplied` through failures and retries, a charge's credits included |
| `BillingLive` | 1 request, 2 cycles, the first one's payment reported twice, no event ids, 1 lost cancellation | every charge is credited unless its payment's captured event has taken its claim (`EveryChargeCredited`), reconciliation takes the plan away from a subscription that ended although its event was dropped (`DroppedIsRepaired`), and only then (`DowngradeIsFinal`) |
| `BillingCreditsLost` | 1 request, 1 cycle whose payment is reported twice, event ids, 1 crash or exception | *violated* (`ProcessedIsCredited`): the invoice is committed, the grant fails, and the retry grants nothing |
| `CreditsRaces` | 2 calls and a grant of 1 stored unit in one process, a balance of 2, costs in halves of a unit (`Scale = 2`): estimates of 3 or 6, actual costs of 0 or 5; 2 faults of 4 kinds | no credits appear or vanish but by rounding (`Conserved`), none are spent that are not there (`NoOverdraft`), rows agree with the balance (`RowTells`), every call ends or the process hangs (`EveryCallEnds`) |
| `ChatRaces` | 3 requests, a JSON, a streamed and a refused body, 1 request a minute and 2 a day, 2 providers, a quota that may be used up, 1 fault of 6 kinds | one request per key at a time (`OneInFlight`), one answer kept and billed (`BilledOnce`), faithful replays (`ReplayIsFaithful`), stored answers are kept (`StoredIsKept`), a key in progress has a reason (`LockIsHeld`) |
| `DeployRaces` | 2 uploads under one key, one to the free subdomain and one to a custom domain, 1 push, 1 rollback, static and Next.js sources, 2 runtimes, 1 fault of 10 kinds | one pipeline per key (`OneRunPerKey`), an older deployment yields (`OlderYields`), what serves the site's hostname is up (`ServedIsUp`) and reported (`CurrentIsBound`), no container without an owner (`Accounted`) |
| `PreviewRaces` | 1 worker, 2 generations, 2 closes, 2 jobs, 2 faults of 8 kinds | a preview never goes backwards (`GenerationsAdvance`), what is served exists (`ServedIsThere`), nothing is left behind (`NoOrphan`), nothing hangs unless a teardown overtook a webhook (`NeverStuck`), a closed one is torn down (`ClosedIsTornDown`) |
| `PreviewFailure` | 1 worker, 2 generations, 1 failing build | *violated* (`PreviousStaysUp`): the failing generation stops its predecessor's container |
| `DomainRaces` | 1 request, the worker, 1 directory and 1 container, 1 try per job, 1 fault of 3 kinds | the vhost serves what was bound while a certificate was on order, a directory over a container apart (`PickedUp`), a domain goes live (`EventuallyLive`), a certificate is renewed before its end (`RenewedInTime`) |

### The bounds and why they are enough

*Outbox.* Deliveries share nothing but the lists and the worker, so one delivery and two
copies of its job show every conflict over a row. Two attempts contain a first, a last
and a retried one. `MaxJobs = 2` admits an original and a redriven copy at once; in
`OutboxLive` one copy is enough, because what is asked is that a row *without* a
job gets one. Two faults lose, for example, both the job and its redriven copy.

*Billing.* Two requests are the webhook and its duplicate, two different events, or a webhook
and the browser's verify call. One cycle already has five event types and the charge, and in
`BillingFaults` the same payment as a captured event; the second cycle of `BillingLive` adds a
charge after a failed one, a lapsed period that is not the last, and a payment that is
reported once beside one that is reported twice. Two requests over two cycles have about nine
million states, beyond a run of a few minutes; the properties proved do not depend on it.

*Credits.* Two calls and a grant are every pair of writers of the balance, and one loop is
what is deployed. The balance of 2 stored units is 4 fine ones: it covers the lower estimate
once; the lower one twice, or the higher one, only with the help of the grant or of what the
other call gave back. Odd estimates and costs are rounded when they are stored, and a call
costs less or more than its estimate. Two faults strike one call twice (a rejected response and a failed refund) or both
calls. The theorems hold for every `Scale` and every division into processes.

*Chat completions.* Three requests are a first one, a retry that races with it and one that
comes later; at most one holds the key, so more only repeat the second's part. Limits
of 1 and 2 let each window refuse. One fault at a time, of every kind.

*Deployments.* Two uploads under one key race for it, and one of them leaves the hostname of the
other; the push brings the worker and the
queue; the rollback goes back over either. Static and Next.js sources and a limit of two
runtimes make the container limit bite. The four processes have every order of their steps.

*Previews.* The deployment runs one worker (`docker-compose`), and the theorems say where
that matters. Two generations are a preview and its replacement, and a job that pins
either may be current or stale; two closes tear a preview down, and once more after it was
reopened, or between a webhook's read and its commit; two jobs are a deploy that overtakes
or is overtaken by a teardown. The theorems cover any number of each.

*Domains.* The worker and one person's request are two sessions on one row; its content is
none, a directory, a container or a container over which a directory was bound, in every
order. One try per job is the strict case for liveness: after it only the sweep helps. The
instance has a custom hostname; set `Free = TRUE` in the `.cfg` for a platform subdomain. The
theorems cover both.

The proofs remove these bounds for every safety property they state.

`CHECK_DEADLOCK FALSE` in the billing, credits, chat, preview and domain runs: a
subscription may be over with every event answered, all calls may have ended, a preview
may be torn down, a deleted hostname may have no jobs. In the outbox and deployment runs
deadlock is checked (the worker always loops; `AllDone` marks the only legitimate end).

### Fairness

*Outbox.* `WF(WorkerStep)`: the worker is a `while True` loop, restarted by the container
runtime. `SF(PromoteTake)`: a delayed job's ready time passes, and a worker that
keeps polling finds it. `WF` for a producer or retry request already started, and for
`Tick`, wall-clock time. Nothing is assumed of `Record`, of the customer or of the
operator. `EventuallySettled` has the premise that the webhook does not stay disabled:
redrive skips inactive webhooks (`webhooks/outbox.py:276-281`).

*Billing.* `WF(Work(h))`: a request that has started runs to its end. `SF(Receive)` for
charge events only: Razorpay sends an event again until it is answered 200, though a
request may be busy each time. `WF(Reconcile)`: the scheduler ticks. Nothing is assumed of
the other events, which is the point of `DroppedIsRepaired`.

*Credits.* `SF(Serve(c) /\ NoFault)`: a handler goes on as long as its loop does not hang, and
PostgreSQL grants a row lock in turn although others take it in between. `WF(GrantWrite(g))`.
Nothing is assumed of a request's arrival, of faults or of crashes.

*Previews.* `WF` for the worker's step, the delayed set, time and the scheduler's sweep.
Nothing is assumed of the pull request and its handlers, of faults or of progress commits.

*Domains.* `WF(Tick)`: the scheduler is a loop. `SF(Pop(j))`: the list is first in, first
out, though the worker is busy in between. `WF(Step(p))`: whoever has started goes on.
`SF(Found(Worker))`: a DNS record that is looked for again and again is published in the
end. The liveness properties promise nothing once a person takes the domain up again (`AtWork`):
whoever asks for a check again and again can fail the domain each time.

## 4. Proofs

Every theorem holds for any values of the constants that satisfy the module's named assumption
(`OutboxAssumption`, `BillingAssumption`, ...): any number of processes, requests, generations
and faults. Each invariant that a passing run checks is stated by a theorem; where a theorem
has further hypotheses (`AckedIsApplied`, the previews' one worker), they are those of the
code path or of the run. Each inductive invariant was checked by TLC on small instances before
it was proved. The step proofs have one lemma per action or group of actions; a step that
leaves an invariant's variables alone is dispatched by one lemma of its own.

### WebhookOutbox_proofs

`TypeCorrect`, `Honest` (`DeliveredIsHonest`), `Justified` (`DeadIsJustified`), `Ahead`
(`WrittenAhead`) and `Budgeted` (`OverBudgetIsManual`). None of the four properties is
inductive. `Inv` adds to `TypeOK`:

* `HandHeld`: at which steps a process holds a job;
* `ProcSafe`: a worker about to write `delivered` has had a 2xx; a worker on its way to
  `dead` was refused or has used the budget up; a job in hand is within the budget
  or manual;
* `RowSafe`: the two statements about rows, and the numbers redrive may compute;
* `QueueSafe`: jobs in the list, the delayed set and the dead list are within the budget.

The lemmas on the row updates (`MarkQueued`, `MarkAttempt`, `Settle`) and on the bags are
stated once.

### RazorpayBilling_proofs

`TypeCorrect`; `CreditsOnce`: no payment is credited twice; `ImplementsLedger`:
`Spec => LedgerRefined`, the refinement of `PaymentLedger`; `DowngradesAreFinal`:
`Spec => DowngradeIsFinal`.

`CreditsOnce` rests on `LedgerSafe`: a request whose `fresh` flag is up owns a payment that
is invoiced and not credited (`FreshOwns`), no two requests own the same one
(`FreshAlone`), only such a request is at a grant step (`GrantsFresh`), and a payment
without an invoice has no credit (`CreditedOnce`). The unique index makes `fresh`
exclusive, and nothing else is needed: the argument holds whatever is claimed twice,
retried, reopened or lost. `ImplementsLedger` is the same invariant, step by step.
`DowngradesAreFinal` rests on `EndSafe`: a halted or cancelled event that was sent, is in
a request's hands or was fetched by reconciliation means that Razorpay's subscription is
over, and that never changes back.

`AckedIsApplied` says of every event answered 200, once no request is at work, that it has
been carried out: its handler did every step and, for a charge, the payment's credits have
been granted, whoever invoiced it. Two exceptions are named, since the code answers 200
in both. The event's own claim, plan sync or grant failed, and the failure was swallowed
(`swallowed`); or the request that invoiced the payment stopped before its grant (`dropped`),
so that whoever comes next takes the payment for credited. Even so it is
false in general, and two theorems say when it is true. Both assume that events have
claim keys of their own (`BodyEventIds`; otherwise the second lifecycle event
of a subscription is answered as a duplicate of the first, and a charge as one of its
payment's captured event), and cover any set of payments that are reported twice. They rest on
`PaidSafe`: a payment that is invoiced has been credited or dropped, or the
request that invoiced it is about to credit it.

* `AckedAppliedInTurn`: with one request at a time, through any number of crashes,
  exceptions and failed claims. `TurnSafe`: a request about to insert its claim finds no
  other, so only a processed event is called a duplicate; an unfinished claim is taken over.
* `AckedAppliedInRaces`: with any number of requests at once, without crashes and
  exceptions. `RaceSafe`: whatever is claimed or answered has been carried out, its claim
  failed, or a request that holds it is still on its way.

With both races and crashes the property fails: the duplicate is answered while the
request that holds the claim dies.

### AICredits_proofs

`TypeCorrect`; `LockedReadsAreFresh`: what a call has read under the row lock is the balance;
`OverdraftIsBounded` (`NoOverdraft`); `RowsTellTheTruth` (`RowTells`). `OverdraftIsBounded`
rests on `FreshRead` and on `Funded`: the balance, and also whatever a grant has read and may
still write back, is short by no more than calls have cost beyond their estimates and half a
stored unit for each rounded write. `RowsTellTheTruth` rests on `Behind`: what a call past its
settlement has behind it.

`CreditsAreConserved` (`Conserved`): the balance is the start plus the grants less what each
call owes, to within half a stored unit for each rounded write, for any `Scale`.
`Settlement` says at which steps a call has settled; the lemmas on `Nearest` and `Stored` that a
write is off by half a unit at most; the step lemmas that a step takes from the balance what
it adds to its call's debt, short of that. `Balance` is `Conserved` with the debts
as one sum. A sum over a set is a recursion in an arbitrary order, and the library's
induction rules take a predicate the provers cannot instantiate; `Sums` proves by minimal
counterexamples (`WFMin` over the subsets of a finite set) that such a sum is defined, that
the order makes no difference, and that changing one term changes it by the difference
(`SumChanges`). For this `Calls` and `Grants` are assumed finite, of any
size: a service has answered finitely many requests at any moment.

### ChatCompletions_proofs

`TypeCorrect`; `Monologue`: a client never sees frames of two providers in one stream;
`KeysAreHeld` (`LockIsHeld`), `Exclusion` (`OneInFlight`), `AnswersAreKept` (`StoredIsKept`),
`OneBill` (`BilledOnce`), `ReplaysAreFaithful` (`ReplayIsFaithful`). The key's three theorems
rest on one invariant, `Held`: the record has the body of the request that set it, that
request is at work or ended in one of the ways that release nothing, and, unless the key lost
its hold, whoever is past the claim is the one that set it. `OneBill` has two parts.
`Spending`: what is metered is an execution whose answer was kept (`Kept`: not `wasted`).
`Billed`: while the key has never lapsed, the one answer kept is the record's, and only
metering, caching and storing it are left. Of the provider's calls it promises nothing: one
whose log failed or whose quota was used up is made again. `Answers` says that whatever the
record, the cache or a request about to answer holds was produced by an execution of the same
body.

### StaticDeploy_proofs

`TypeCorrect`; `KeyRunsOnce` (`OneRunPerKey`), because the pipeline that was started is the
record's (`KeyHeld`); `NewerWins` (`OlderYields`). The last rests on `OrderInv`: as long as
nothing has failed or been discarded, versions are unique and without gaps and the newest
row is current (`Versions`), jobs and the vhost refer to rows that exist (`Referred`), and
each process's version follows those that were there when it read them and is not below
what it saw at its check (`Control`). Without gaps, the unique index on
`(site_id, version)` is what refuses the second of two inserts that read the same top.

`ContainersAnswered` (`Accounted`) needs no such bound on what happens: it holds with any
number of faults, retries and rollbacks, short of a start that was reported too late. Its
invariant `OwnInv` says of each process what it has in memory and what its row says of its
container at each step (`Owned`), that each job is a queued push's and there once
(`QueueHeld`), and that each running container is named by a live row or held by a process
(`Answered`); the job run again is where the two could part.

`ServedStaysUp` (`ServedIsUp`), for the hostname the deployments go to (section 2), rests on
`ServeInv`. As long as no vhost update was lost, no rollback overlapped, nothing served has
failed and no row was built again: a rollback is at work alone (`Alone`) and reuses only the
container of a deployment that completed (`Reused`); a deployment's own container is the only
one it holds, and the row it replaces has completed (`Poised`, `Refers`); and whoever is past
its switch has moved the site's hostname off the container it is about to stop, or taken the
site to a hostname of its own (`Switched`). A step of another process cannot undo that: what
it stops is its own unfinished container, which nothing proxies to, or a completed row's after
its own switch.

`CurrentIsServed` (`CurrentIsBound`) is the hardest of them, since currency and vhost are
written by different processes at different times. Its invariant `CurrentInv` says, while
none of the named mishaps has occurred and nobody has crashed:

* versions are unique and without gaps (`Numbered`), and whoever clears the currency of an
  unfinished row clears that of the older ones too (`Whole`, `Clears`);
* at each step, what the process's row has come to (`Fate`): a row that is current, or
  past the switch, is no newer than the one served; a row that failed while served still
  owes its restore; and what a restore is about to make current was served (`Due`);
* everyone who is served, or may yet switch the vhost (`Heirs`), has given way to nobody, or
  to a row as new that is current, is about to be again, or failed and will restore
  (`InCharge`); or nothing is current and nobody is at work on a row (`Bare`), which is how
  a failed first deployment leaves the site.

At rest only the served one can be an heir, so the newest current row is the one served.

### PreviewDeploy_proofs

`TypeCorrect` for any number of workers. For one worker, as deployed:
`ContainersAreNamed` (`NoOrphan`), `NewerIsShown` (`GenerationsAdvance`), `ServedIsUp`
(`ServedIsThere`). `Owning` says what the worker holds and has put in place at each of its
steps; `Ordered` that the vhost's generation is behind the job's, which is behind the
row's; `Pointing` where the vhost points after each step.

### DomainManager_proofs

`TypeCorrect`; `BindingsArePickedUp` (`PickedUp`), for custom and platform hostnames. The
theorem is for any directories and containers, in any order of binding: the vhost serves
the one bound last, except for a directory over a container, where it serves the container
(`Hidden`). The invariant is `HostInv`: a session whose content was replaced is about to write
(`Marked`), any other that is about to write holds the row's content (`Current`), a
certificate that is there or about to be saved goes with the right vhost or with a binding
about to write it (`Shown`), and only requests bind (`Binders`). Steps that leave the vhost
alone are covered by what `Aside` and `Lasting` say of them.

### Only model-checked, and what is excused

Liveness is beyond the prover: `EventuallySettled`, `EveryChargeCredited`,
`DroppedIsRepaired`, `EveryCallEnds`, `NeverStuck`, `ClosedIsTornDown`, `EventuallyLive`,
`RenewedInTime`. Everything else that a passing run checks is proved as well.

Other limits of what is asserted. `EveryChargeCredited` excuses a charge whose claim, plan
sync or grant failed and was answered 200 all the same (`swallowed`), and one answered as a
duplicate of its payment's captured event, which need not have granted the credits
(`Shadowed`); it is asserted without crashes (`BillingCreditsLost` shows why). `EveryCallEnds`
excuses the hanging process (`hung`), `NeverStuck` the row a teardown overtook (`overtaken`),
`PickedUp` the hidden directory; `ServedIsUp` is silent about hostnames the site has left.
`DroppedIsRepaired` promises that the plan becomes free, not that it stays so: a charge
handler that stalls across the cancellation and the reconciliation may put the paid plan back.
Properties that excuse a mishap (`happened`, `strays`, `lapses`, `lag` and those above) name
it, and the step that records it is the only one that does: each excuse is a behaviour of the
code that the property would otherwise report.

## 5. What the models found

Violated runs, each against what the repository says of itself:

* `BillingCreditsLost`: a failure between invoice and grant loses the credits of a
  charge for good; the comment at `subscriptions/service.py:1011-1013` wants the grant
  exactly once per payment.
* `PreviewFailure`: `_fail` stops the container the row names
  (`preview_service.py:521`), which until the new generation has recorded its own is
  the previous one's, still behind the vhost; the comment at 277-280 says that it stays up.

Seen while modelling, and visible in the models' steps and excuses:

* *Outbox.* A failing second copy turns `delivered` into `failed` or `dead`.
  `retry_delivery` lets a delivery of a deleted webhook through
  (`webhooks/service.py:237`). `outbox.py:97` reads and writes `attempts` without a lock.
* *Billing.* Without `event_id` all lifecycle events of a subscription share one claim key; a
  claim insert that fails for any reason is answered as a duplicate (`billing_extras.py:97`),
  and so is a charge whose payment's captured event came first (`router.py:227-231`), which
  loses the credits when that one carried no notes; a failed plan sync or grant is logged and
  answered 200 (`router.py:493-507`); reconciliation that dies between UNPAID and the
  downgrade leaves a row it never selects again; two overlapping grants lose one; two
  checkouts both pass the live-mandate guard (`subscriptions/service.py:749`).
* *Credits.* A call refused for want of credits keeps the row locked until its session is
  closed; if another coroutine of the process asks for the row first, the process hangs
  (`ai/service.py:114-116`). Costs below half of 0.0001 are not charged at all, since the
  balance is rounded (`companies/model.py:96`).
  A response the schema rejects refunds a settled call a second time; a new
  `ai_requests` row says SUCCESS before anything has happened.
* *Chat completions.* A refusal (429, or 400 before a stream) and a disconnect keep the key in
  progress for its 24 hours; a claim whose reply is lost counts as unclaimed
  (`idempotency.py:94`); true streams are logged and not metered
  (`openai_compat/service.py:409`); the month's quota is checked after the provider has
  answered, and its 429 makes the retry call the provider again (185-186); a truncated stream
  is stored and replayed as the answer.
* *Deployments.* An expired key that is not yet purged still refuses the claim and the loser
  fails on its own deleted row (`static_sites/service.py:219`); the runtime limit counts rows,
  not containers (`repository.py:152`); a delivery claimed before a failing handler is lost
  (`github_webhook_router.py:138`); the container to stop is chosen before the new one starts
  (`service.py:449`), and from the whole site: a deployment to another hostname takes the old
  one's container from under its vhost; both vhost targets may be set at once
  (`ssl/manager.py:228-229` keeps the proxy target, 270-271 calls them "mutually exclusive"),
  and then the container is served. Two cases came up in proving. A push whose last write
  fails after it has completed is built again: of two uploads that chose it as the one they
  replace, the first stops its old container and the second its new one, as the vhost is
  switched to it. A push that fails on its second run, after its first had switched the vhost,
  stays served while `_fail` finds no other completed row and the API reports an older,
  provisioning one.
* *Previews.* The next generation is read without a lock (`preview_service.py:185`), and
  `torn_down_at` is cleared only if it was read set (189): a teardown committed between
  that read (140) and the commit leaves a row that is queued and torn down, which its job, the
  sweep and a close all pass over until the next push; the
  first binding's failure is swallowed (448); a delayed teardown removes a reopened
  preview (532); a failed enqueue leaves the row queued until the sweep
  (`github_webhook_router.py:408`).
* *Domains.* A failed renewal is marked "for scheduler to retry later"
  (`ssl/manager.py:156`) and nothing selects it again; a binding between the activation's
  read and its save is not picked up; `renew_attempts` is never reset, so
  `auto_renew_due` passes over a hostname after five attempts in its life;
  `mark_ssl_issued` may leave a LIVE domain with a pending certificate; each process
  keeps its own CORS origin cache (`domains/service.py:38`).

## 6. Not modelled, and the plan

What is left, in order of use:

1. **RazorpayCheckout**: two checkouts past the live-mandate guard, composed with
   RazorpayBilling; plan changes and resume.
2. Row updates of WebhookOutbox split into read and commit.
3. **StripeWebhooks**: the same claims, with credits granted on each active event.
4. Reset tokens, backup codes and OAuth states (single use); usage meters and
   their limits; the agent life cycle; studio's build and deploy jobs.

The share of the code that is modelled stays small, about one line in seventeen. The rest is
largely what a model checker has little to say about: CRUD over single rows (users,
companies, RBAC, apps, store, marketplace), text and code generation (studio's factories and
front-end generators, the largest files), request and response schemas, aggregation for
dashboards, user interfaces and SDKs, calls to language models, and Docker, nginx, ACME and
DNS themselves, which appear as the environment of the modules above. `PROJECT.json` gives
the reason per component.
