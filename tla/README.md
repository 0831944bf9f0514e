# Verification of the W7S core Worker

TLA+ specifications of `w7s-core`, the Cloudflare Worker that deploys and runs
the applications of W7S, with the TLC configurations that check them on small
instances and proofs of their main theorems for every instance (TLAPS).

All modules are translated from the TypeScript under `src/src`. Paths below are
relative to that directory unless they start with `docs/`.

## 1. The system

Everything the Worker remembers is in one KV namespace (`DEPLOYMENTS_KV`:
get, put, delete, list; no compare-and-swap, no transaction), in R2
(`STATIC_ASSETS`), in the dispatch namespace that holds the applications'
scripts, in the databases and queues it creates for them, and in the account
service that bills. The same Worker runs in many isolates at once; an isolate
serves many requests, switches between them at every `await`, and is discarded
without notice. So every component below is concurrent with itself, and the
hard behaviour is nearly always a read that is stale by the time it is acted on.

| Component | State it keeps | Operations | What makes it correct |
|---|---|---|---|
| **Metadata cache** `storage/deployments.ts` | KV records; per isolate a `Map` per kind with TTL and 1024 entries; edge cache entries with max-age | load (memory, edge, KV), store, eviction | an overwritten value is answered for a bounded time; the Map stays within its capacity |
| **Deploy pipeline** `api/deploy.ts`, `billing.ts` | scripts, assets, manifests, record, look-up mappings, credit reservation | reserve, validate, publish, claim, store, replace mappings, attach, capture / refund | what is live was published; a finished deploy is exactly what was asked for; charged iff live |
| **Storage provisioning, Worker upload** `deploy/storageProvisioner.ts`, `queueProvisioner.ts`, `isolatePublisher.ts` | managed resource records; `_w7s_migrations` in D1; class records; the script and its migration tag | create once, migrate, upload | code runs on the schema and the classes it was deployed with; a retry succeeds |
| **Cleanup** `cleanup.ts` | hourly lock | delete unreferenced manifests, scripts, expired states, old rollups | nothing referenced is deleted |
| **Custom domain mappings** `storage/deployments.ts`, `deploy/customDomains.ts` | per hostname a root mapping, an aggregate list and one record per path; a cache of the root mapping | plan claims, store, replace, resolve (exact, then wildcard) | one deploy does not lose or resurrect another's route |
| **Request routing** `worker.ts`, `runtime/router.ts`, `runtime/static.ts` | none | resolve host and path, serve or dispatch | the most specific deployment answers; a Worker that has run is answered for |
| **Email** `runtime/emailDelivery.ts` | none | ask the gateway app, forward to the workspace | mail is accepted iff it was taken |
| **Binding tokens, RPC, AI** `deploy/tokens.ts`, `api/rpc.ts`, `api/ai.ts` | token hashes in records, token mappings | authorise a caller, forward | a call is let through for whose it is, and a live deployment's calls are |
| **Queues** `api/queues.ts`, `runtime/queueDelivery.ts` | queue mappings; the platform's queue | send, deliver, ack / retry | each message ends, and for a reason |
| **Schedule dispatch** `runtime/scheduleDelivery.ts`, `cron.ts` | schedule mappings; a lock per schedule and minute | invoke, lock, dispatch, settle | due schedules are dispatched once a minute, losses are reported |
| **Workflows** `api/workflows.ts`, `workflowLimits.ts`, `runtime/workflowDelivery.ts` | a key per active instance (TTL) | create, deliver with retries, clear | at most the allowed number is active; slots are returned |
| **Burst limits** `rateLimits.ts` | a counter per metric, scope and window | check and count | no more than the limit per window |
| **Daily limits** `usageLimits.ts`, `usageEnforcement.ts` | none of its own (reads the rollups) | check | work stops when the budget is spent |
| **Usage rollups** `usage.ts` | daily rollup per app, owner and environment | record | counts do not exceed what happened |
| **App suspension** `appLimits.ts` | suspension state per app, cached in memory and at the edge | suspend, load, expire, clear | suspended apps stay suspended until their time and resume after it |
| **Usage collector** `cloudflareUsage.ts` | hourly usage records, hourly lock | collect, suspend, resume | the collector agrees with the enforcement |
| **Notifications** `notifications.ts` | chat subscriptions; a mark per message told (TTL) | subscribe, notify, report a stage | everyone is told, and once |
| Manifest, archive, GitHub authentication, logs, agent and status API, landing pages, local runtime | (see PROJECT.json) | parsing, I/O, reports | – |

Interactions: the router loads records and manifests through the metadata
cache; the pipeline stores them through it, after provisioning and uploading
what they refer to; schedules, queues, workflows, mail and RPC all load the
target's record, check the limits, and dispatch; the limits read the rollups
that requests record after they ran; the collector suspends apps that the
router, the pipeline and the APIs then refuse, and notifies their chats;
cleanup deletes what the pipeline published and nothing references any more.

## 2. Modules

| Module | What it is |
|---|---|
| `StaleRegister` | abstract: a register whose answers are at most a bound old |
| `MetadataCache` | the two cache layers over KV; implements `StaleRegister` |
| `DeployPipeline` | deploy requests of one app, from reservation to capture |
| `AppResources` | what deploys of an app create at Cloudflare: resources, migrations, classes, scripts, sites |
| `PlatformCleanup` | the hourly cleanup beside those deploys; composes with `AppResources` by extending it |
| `CustomDomains` | the three stored forms of routes under concurrent deploys, claims and resolution |
| `RuntimeRouting` | a public request, or a mail, from the middleware to its answer while deploys, suspensions and moved routes change what it reads |
| `AppCalls` | calls, messages and deliveries between apps while one of them is redeployed |
| `ScheduleDispatch` | platform invocations, schedule locks and dispatches |
| `WorkflowAdmission` | creation, marking and retried delivery of workflow instances |
| `BurstLimits` | the counters of the short-window limits, in three scopes |
| `DailyLimits` | daily rollups, the hourly collector and the suspension of an app |
| `Notifications` | notices, subscriptions and the marks of what was told |
| `AnsweredRequests`, `WorkflowInstances`, `DailyUsage` | the state of `RuntimeRouting`, of `WorkflowAdmission` and of what `DailyLimits` accounts for, with the invariants promised of it |
| `ServingProofs` | theorems about `RuntimeRouting` and `MetadataCache` |
| `DeployPipelineProofs`, `PlatformCleanupProofs`, `AppCallsProofs`, `NotificationsProofs` | theorems about the module they are named after |
| `RoutingProofs` | theorems about `CustomDomains` |
| `BackgroundProofs` | theorems about `ScheduleDispatch` and `WorkflowAdmission` |
| `LimitsProofs` | theorems about `BurstLimits` and `DailyLimits` |
| `MC*` | the constants TLC uses, with a `.cfg` each |

Three components are two modules each, one of the state and what is promised of
it and one of the operations that change it. A proof module about two components
extends one of them and the state of the other, whose operations are an instance
with a name (`R!Spec`, `W!Spec`, `D!Spec`), since both call their initial states
and steps `Init` and `Next`; so the invariant of the theorem is the very one that
the run checks.

### MetadataCache

`memory` and `order` are an isolate's `Map` (a JavaScript Map keeps insertion
order, and eviction takes the first key), `edge` is `caches.default`, `kv` the
namespace. A call of `loadDeploymentRecord` / `loadStaticSiteManifest` or
`storeX` is a `pc` that moves from await to await: `LoadFromMemory` or
`LoadMissesMemory`, `EdgeHit` / `EdgeMiss`, `FillFromEdge`, `KvGet`,
`FillMemory`, `FillEdge`; a store enters with `KvPut` and joins the load at
`FillMemory`. `KvFails` is a get or put that rejects, a failing edge cache is a
miss or a put that does not happen, `Recycle` discards an isolate. The two kinds
have a `Map`, a TTL and a loader of their own and the same code; one instance is
one kind. The puts of one key are numbered, so a value is one particular put,
and `retired` remembers when it was overwritten.

`Latency` bounds how long a call waits between the moment the outside world
answers and the moment its continuation runs. Nothing can be said of staleness
without it: a load that read KV and then sleeps for an hour caches an
hour-old record.

### DeployPipeline

`pc[d]` is the await request `d` is suspended in; one action per await of
`handleDeployRequest`. Writes that the code awaits together
(`Promise.all` in `storeDeploymentRecord` and in every `replace...Mappings`)
are put in `inFlight[d]` and take effect one by one in any order (`Land`), also
after one of them rejected (`WriteFails`) and the request has answered 500, and
also after the isolate died (`Dies`). The three `replace...Mappings` calls are
one loop over `stage`: list and delete what is stale, then put what is wanted. A
branch that does not own the environment's hostnames replaces only those with
its prefix (`pruned`). The account service is external: a reservation is
idempotent by its key, only a reservation that is merely reserved can be
refunded, and a refunded one cannot be captured.

Scripts, assets and manifests are keyed by commit, except the script of an app
with Durable Objects (`StableName`). `scripts[n]` names the request whose
upload (and whose tokens) the script holds. What the pipeline treats as one
step, provisioning and custom domains, is taken apart by the next two modules.

### AppResources and PlatformCleanup

A deploy works through its resources in order (`rest`): it looks for W7S's
record (`LoadRecord`), then at Cloudflare (`Find`), creates (`Create`) and only
then records (`Record`); a queue then gets its consumer. For a database it asks
the journal file by file (`Select`), executes what is missing (`Execute`) and
inserts the row (`Insert`). The classes of Durable Objects are looked up in
W7S's records and then in the script's migration tag; `Upload` succeeds only if
Cloudflare accepts the migration that results (`Accepted`), which is where a
wrong idea of what exists becomes a refusal. `Stop` ends a deploy at any step,
with or without the effect of the call it was in.

`journal` is what W7S recorded and `applied` what the database has really
executed, in order and by whom; the histories `torn` and `halted` name the gaps
between a deploy's effect and its record. `Pasts` are states that earlier
deploys can have left: those that recorded what they created, one at a time, with
cleanups between them that swept scripts, though not the current one. What earlier
deploys that overlapped or died would have left is reached by the deploys of the
model itself.

`PlatformCleanup` adds `cleanup.ts` step by step for scripts and sites: the lock,
the references, the listing, then for each entry its record, the deletion of what
it stands for and the deletion of the entry.

### CustomDomains

`kv` has the keys of all three forms: a hostname's root mapping, its list of
routes, and one record per route. A deploy plans its claims hostname by hostname
(`Claim`), then visits the keys of each form and retains or removes
(`Visit`, `PassOver`), and merges its routes into the list it reads (`Merge`);
all writes are in flight until they land, in any order and also after the
deploy has failed. `met` remembers which deploys overlapped: also one that has
failed is busy as long as its puts are in flight. `cached` is the set of root mappings that some isolate or the
edge may still answer: filled before the put it anticipates, as the code does,
by requests that are served (`Fill`), and emptied by `Expire`. `Resolved` is `resolveCustomDomainRoute`. The history
`owner` is what a hostname would have had deploys taken effect at once.

Root-only mappings of older versions, the parsing of declarations and the
attachment of zone routes (`DeployPipeline` has that step) are left out; a
resolution reads its keys in one step. A failing TXT lookup is permissive for
plain hosts and refuses for wildcards, as in the code.

### RuntimeRouting

A request `r` has a `pc` for each read of the code: the routes (by the custom
domain middleware and again by the router), the record of a candidate, its
suspension, then the manifest's asset, the Worker and the index page. On the
platform's own hosts the candidates come from the path, each environment before
production; on a custom domain they come from its routes, and there the Worker
runs before the site is asked. `Change` (a deploy, a suspension, a moved route)
may come between any two steps; `seen` remembers every state of builds, suspensions and routes since the
request began. An app is deployed and suspended in each environment by itself. A mail is first shown to the Worker of the gateway app, whose
verdict then becomes a posted request.

### AppCalls

A deploy uploads a script with new tokens, stores the record with their hashes
and the token's mapping in parallel, and replaces the mapping of its queue last.
A call resolves its caller by headers or by the token's mapping, compares the
token with the record that is then stored, loads the target, checks who may
call, suspension and limits, and acts: it runs the target, sends to its queue
or runs a model. `Start` hands messages to a delivery, which reads the queue's
mapping and the record it names one by one, dispatches, and acknowledges or
throws; a delivery may die at any step.

### ScheduleDispatch

`task[i][s]` is one element of the `Promise.allSettled` of invocation `i`:
`get` and `put` are the two halves of `acquireScheduleLock`, `load` and
`dispatch` those of `dispatchSchedule`. The scheduled time of an invocation is
any moment up to now (the platform is late) and its list of mappings is any set
(a deploy may be replacing them). `Die` ends an invocation at any step.

### WorkflowAdmission

`step[c]` is where `handleWorkflowCreate` is: list the markers
(`ListActive`), compare (`EnforceActiveLimit`), create, put the marker (`Track`),
ask for the status. `run[i]` is the instance on Cloudflare Workflows: its step
is attempted until it returns or has failed `MaxAttempts` times, and then the
`finally` block deletes the marker (`Clear`). Calls that fail may have taken
effect (`CreateFails`, `TrackFails`, `ClearFails`); requests may share an id,
which is a client's retry; `Expire` removes a marker at any time, since its TTL
is configured independently of how long an instance runs.

### BurstLimits

One metric of one environment. `counter[k][w]` is the KV key of a scope in the
window `w`; repositories whose names differ in punctuation alone have one slug in
keys (`SlugOf`) and share them. A request gets its three counters in parallel (`left[r]` holds the
scopes that are not answered yet, `ReadCounter` answers one), compares all of
them (`Refuse`, `Admit`) and then puts the three sums in parallel
(`PutCounter`). A call that fails (`ReadFails`, `PutFails`) fails the request,
but the other puts still land. `DailyBlocks` is the daily check in front, which
stops before any counter is touched, `PassExempt` the exempt organizations. The
histories `admitted`, `met` and `lost` say what was let through, which requests
were in flight together, and whose put failed.

### DailyLimits

A runtime request is checked against the stored suspension (`Enforce`,
`ClearExpired`), served (`Answer`), and only then counted: `RecordGet` and
`RecordPut` are the read-modify-write of the day's rollup in
`recordUsageEvent`, `Check` the look at the limits that follows, `Suspend` its
consequence. The collection of an hour (`Lock` ... `Judge`) stores what
Cloudflare measured, sums the hourly records of the day, gets the rollup,
replaces its Cloudflare metrics, puts it back and suspends the app or clears its
suspension. Both put the whole rollup, so each can undo the other's half.
`CleanupGet` and `CleanupDelete` are the retention job. Two metrics are enough
to tell the two writers apart: `requests`, which only requests increment, and
`resource`, which only the collector replaces. `recorded` (a history) and
`hourly` say what was really used. A suspension's `of`, the day whose rollup was
over its limit, is not stored by the code; only properties read it.

### Notifications

A notice is a deploy's answer, a suspension, failures of a collection, a stage
that the deploy action reports, or a `/start` of the bot. It may link a chat
first (`Link`), then sends to the managers at once and to the subscribers after
listing them and reading each subscription (`List`, `Get`, `Post`). A letter is
one message to one chat in one role: read its key, send, send again without
markup if Telegram refuses, put the mark. `Kept` is what `dedupePart` keeps of
what a key says, which may be the same for two texts or two apps; `Expire` removes a mark at any time. A status code is part of what
a text stands for.

## 3. Runs

| Run | Question | Instance |
|---|---|---|
| `metadata_cache` | how old can an answer be, does the Map keep its bounds | 2 keys, 1 isolate, 2 calls, capacity 1, TTL 1, latency 1, clock to 4, 1 overwrite |
| `deploy_pipeline` | what do two requests leave behind | 2 requests, 6 plans, 2 commits |
| `platform_cleanup` | on what does code run, what does a failed deploy or a cleanup leave to the next | 2 deploys, 5 plans, 3 pasts, one cleanup |
| `custom_domains` | which routes survive concurrent deploys | 2 deploys of 3 apps, 6 plans (16 pairs), 2 initial registries, a hostname, its wildcard, a foreign hostname |
| `runtime_routing` | whose answer does a client get | 1 request of any kind, 3 apps, 2 environments, 7 builds, 1 change |
| `app_calls` | for whom is a call let through, what becomes of a message | 2 apps, a redeploy of one, 2 calls or messages, 1 delivery, 1 retry |
| `schedule_dispatch` | what does the lock promise, does every due schedule settle | 2 invocations, 2 schedules, lock expires |
| `workflow_admission` | does the limit hold, does every instance end | 2 requests, 2 ids, limit 1, 2 attempts |
| `burst_limits` | what do unlocked counters promise | 2 requests of 1 or 2 units, 4 repositories of 2 owners, two with one slug, 2 windows |
| `daily_limits` | can the rollup count too much or suspend unjustly | 2 requests, 2 collections, a day of 2 hours and the next |
| `daily_suspension_lasts` | does a daily suspension last | 1 request, 1 collection: **violated** |
| `notifications` | is everyone told, and once | 3 notices, 2 chats, 2 environments, 9 scenarios |

Why the bounds are enough.

- *Cache*: a value gets old by passing KV, the edge cache and memory with every
  wait at its longest; that takes one call per layer and a clock of
  `2 * Ttl + 3 * Latency - 1` = 4, at which an answer that is one unit too old
  first exists. Eviction needs one key more than the capacity. Isolates share
  nothing but the edge cache, and a recycled isolate meets its own old edge
  entry as a second one would.
- *Pipeline*: every hazard is between two requests of one app (the same commit,
  another commit, the stable script), and the plans cover each kind of target
  and mapping and one that is rejected; a third request adds no new pair.
- *Resources and cleanup*: the same, and a retry after a halted deploy is the
  second of two. A new app has nothing to clean up and an old one's resources are
  not touched by the cleanup, so `NewOrSwept` checks them apart, and sweeps
  scripts and sites in turn.
- *Routes*: a root, a path below it and the wildcard that covers them are all the
  resolution distinguishes; two deploys, of the same or of different apps, in the
  pairs that compete for a hostname or for the wildcard (`RelevantInit`). What a
  request caches (`Fill`) differs from what KV answers only when that is replaced,
  so the run caches it when its replacement is in flight.
- *Routing*: one request, as requests share nothing. One change: an answer
  takes its candidate, build, suspension and routes from reads at different
  moments, and one change between any two of them already gives the parts of an
  answer different ages. The builds give a Worker each kind of answer, with and
  without a site that has the path. `RelevantInit` leaves out initial states that
  differ in what the kind of request never reads.
- *Calls*: a caller, a target, and one redeploy of either, before, beside or
  after the call. `Matters` and `Relevant` omit combinations whose parts do not
  meet (a deploy after the last thing that reads it, a second message while the
  first is only sent).
- *Schedules*: a duplicate needs two invocations; the clock covers two minutes
  and a lock that expires between them.
- *Workflows*: with a limit of one, two requests race, or the second retries the
  first or comes after it.
- *Burst limits*: lost updates and refusals are between two requests, which
  share all counters, only an owner's, or none (`RelevantInit`); those that share
  all have limits of their own. Limits of one to three with one or two units reach
  a limit exactly and pass it.
- *Daily limits*: a day of two hours has a collection within the day and one
  after it; with limits of one, one request reaches the limit and two exceed it.
- *Notifications*: a repeated notice needs two, and a link before it a third.
  `Relevant` links a chat before what it is to be told of and treats chats, whose
  letters share no key, one by one.

The theorems of section 5 hold for all bounds.

### Properties

Each is stated, with the behaviour it is about, where it is defined. In short:

- `ImplementsStaleRegister`: every answer was current at most
  `2 * Ttl + 3 * Latency - 2` ago. For deployment records (TTL 5 s) that is
  10 s and the waits; for manifests (60 s) two minutes. The comment in
  `deleteMetadataEdgeCache` relies on it ("short TTLs prevent long-lived stale
  routes"). The factor two is real: the edge entry's age is not taken into
  account when memory is filled from it. `MapBounded`: capacity and insertion
  order of the Map.
- `LiveTargetsPublished`: the record points only at things that exist.
  `RunningScriptIsRecorded`: a script named by commit is the recorded upload,
  so its tokens are the ones whose hashes are stored, unless another request
  deploys that commit (a re-publish replaces the script's tokens before its
  record). `SettledDeployIsExact`: a success with no request beside or after it
  leaves its record, script, tokens and mappings, whatever earlier requests
  left. `ChargedIffDeployed`: no credit is captured for a commit that never went
  live; no success is reported without a capture.
- `SchemaBeforeCode`, `AppliedInOrder`, `AppliedOnce`: what D1 migrations
  promise when deploys overlap and end anywhere. `RecordedClassesExist`: W7S's
  idea of an app's classes is right until a cleanup deletes the script.
  `RefusedForAReason`: the only ways in which a deploy that is tried again is
  refused, a sweep that left the records of classes behind among them. `CurrentTargetsSurvive`: the cleanup
  deletes nothing live, except what a deploy beside it took up again.
- `UncontestedRouteIsServed`, `SerialDeploysAreExact`, `OnlyClaimedRoutes`,
  `HostStaysReserved`: lost updates of the list do not lose or invent routes as
  long as the record per route decides. `WildcardsAreNotReplaced`: in which ways
  only a wildcard can change hands.
- `EffectsAreAnswered`, `MailIsTakenOrRejected`: a Worker that has run is
  answered for. `DomainBelongsToItsApps`, `AnswersWereCurrent`: parts of an
  answer may be of different moments, but no part was never true.
  `FollowsThePriority` compares every page with the order of
  `docs/runtime-routing.md`, written down as one expression (`Documented`) with its
  four departures beside it (below), also while deploys, suspensions and moved
  routes come between what the request looks up: the parts are then of moments of
  their own, but the app is the right one by them and the asset, the Worker and
  the index page are those of one build. That the site of a newer record might
  answer for the build that was found is what its mutant breaks.
- `LetThroughRightly`, `RefusalsMeanRedeploy`: tokens and records that a redeploy
  replaces one by one, for both errors. `MessagesEndForAReason`,
  `EveryMessageSettles`: the fate of a message.
- `TwiceOnlyWhenOverlapping`, `NoSilentLoss`, `EveryDueTaskSettles`: what the
  schedule lock does promise.
- `LimitHoldsWithoutOverlap`: requests that overlap exceed the limit of active
  instances; what was tracked before a request counts for it exactly while it
  is alive (`TrackedRunHoldsMarker`). `OneAnswerPerInstance`, `EveryRunEnds`:
  retries of the client and of the step.
- `RefusalIsJustified`, `SuspendedForRealUse`, and `NeverOverCounts` of the daily
  rollups: lost updates make counts too small, as the code says they may
  (`usage.ts`: "best-effort"), but nothing makes them too large, so every refusal
  and suspension is for real use. `SerialRequestsKeepLimit`: what the limiter
  promises to requests that do not overlap; repositories that are counted under
  one key may have limits of their own, and then the limit of one of them holds.
  `RetryAfterReachesNextWindow`: the rounding of Retry-After.
- `EveryoneIsTold`, `ToldAgainOnlyWhenUnmarked`: a mark may cause a second
  message but never suppresses the only one.

Type invariants are proved (section 5) rather than run.

### Finding

`daily_suspension_lasts`: `docs/usage-accounting.md:264` says "Daily cap
suspensions last until the next UTC day". The runtime suspends an app when one
more unit would exceed the limit, that is when the limit is reached
(`usageLimits.ts:590`); the collector calls a metric exceeded when it is above
the limit (`usageLimits.ts:213`) and clears the suspension otherwise
(`cloudflareUsage.ts:772`). An app that has used exactly its limit resumes with
the next hourly collection. The same clearing removes burst suspensions early.

### Observations

What the models show of the code besides, each the reason for a condition in a
property above:

- *Schedules.* `docs/agent/DECISIONS.md:24` says "repeated platform invocations
  in the same minute do not dispatch the same app schedule twice". The lock is a
  KV get followed by a KV put (`runtime/scheduleDelivery.ts:24-28`): two
  invocations that overlap both get nothing and both dispatch. Hence
  `TwiceOnlyWhenOverlapping` (`docs/agent-handoff.md` calls the locks
  best-effort, which they are).
- *Workflows.* `docs/usage-accounting.md:302` says that markers "are cleared when
  the W7S workflow delivery finishes". The instance is created before its marker
  is put (`api/workflows.ts:308-312`); the marker of one that finishes in between
  stays for the whole TTL.
- *Daily limits.* `docs/usage-accounting.md:288` says that "apps automatically
  resume at the next UTC day". The last hour of a day is collected after midnight;
  its verdict is about the day that has ended, but the suspension it stores lasts
  until the end of the new day (`cloudflareUsage.ts:769`, `appLimits.ts:223`)
  unless the next collection clears it.
- *Migrations.* "Applied once" (`docs/deploy-api.md:237`, the repository's
  `README.md:195`) holds unless a deploy ends between executing a migration and
  recording it, or two deploys that have it overlap. A migration that cannot be
  executed twice is then refused for good.
- *Durable Objects.* The cleanup deletes an unreferenced stable script but not the
  records of its classes: a later deploy whose classes are a subset of them
  creates none, and the full set is refused. A deploy that ends between the
  upload and its class records leaves the same gap. The upload of a deploy that
  fails gets no `worker_script` entry, so it is never collected.
- *Cleanup.* A redeploy of an old commit while the cleanup runs can lose its
  script or its assets: what is referenced is read first.
- *Custom domains.* A list read before a sibling's change is written back after
  it; the resolution prefers the records, so the stale list matters only for
  routes that have none, such as a root route that was released or transferred.
- *Routing.* The code departs from `docs/runtime-routing.md` in four ways, each a
  disjunct or branch of its own of `HidesTheRest` and `Answer` that is marked as a
  departure. Line 129 says that requests behave "as if that deployment is not
  present" when `defaultDomain` is false; the record of a branch that is so
  configured nevertheless hides the production record (`runtime/router.ts:278-286`).
  Line 231 has the index page "only used after native Worker misses with `404` or
  `405`"; it also answers for apps without a Worker (`router.ts:389-396`). Line 175
  has the exact asset first; on a custom domain the Worker runs before the site for
  every request and a redirect of its is the answer, while any other answer to a
  GET is discarded when the site has the path. Line 178 ends in a 404; on the
  platform's hosts an app without a Worker then leaves the request to the
  platform's own pages.
- *Queues.* A batch whose target a limit blocks is acknowledged (the docs say
  "skip dispatch"), and a delivery does not ask whether the app is suspended.
- *Tokens.* An app with a stable script whose deploy fails after the upload holds
  tokens that no record has: its calls are refused until it is redeployed.
- *Notifications.* Errors that begin alike (160 characters) with the same
  repository, commit and status are told once in ten minutes; the managers' key of
  an error has no environment, so environments of a repository share it; a chat
  that is manager and subscriber is told in both roles; only the first suspension
  of a day is announced, even if another reason follows.

## 4. Fairness

`schedule_dispatch` (`FairSpec`): weak fairness of each task and of the settling
of an invocation, because every await in them is a KV operation or a fetch that
the platform answers or fails. Nothing is assumed of the platform's invocations,
of time, or of an isolate's survival.

`workflow_admission` (`FairSpec`): weak fairness of each instance. Cloudflare
Workflows keeps an instance durably and resumes it, and
`W7S_WORKFLOW_TIMEOUT_SECONDS` ends an attempt whose consumer does not answer.
Which outcome an attempt has is not assumed: it may fail every time. Requests and
expiry need no fairness.

`app_calls`: weak fairness of each delivery's steps and of the queue's handing
out what it has: Cloudflare Queues delivers while there are messages, and a
delivery either goes on or dies with its isolate. Nothing is assumed of deploys,
calls or of what consumers answer.

The other runs are safety.

`CHECK_DEADLOCK FALSE` is set where the modelled system ends: all requests,
deploys, notices and instances are done, the clock stands at its bound.

## 5. Proofs

| Module | Theorem | Statement |
|---|---|---|
| `ServingProofs` | `RequestsAreTyped` | `R!Spec => []RequestInv` (its type invariant) |
| | `EffectsStayAnswered` | `R!Spec => []EffectsAreAnswered` |
| | `MailStaysTakenOrRejected` | `R!Spec => []MailIsTakenOrRejected` |
| | `DomainStaysWithItsApps` | `R!Spec => []DomainBelongsToItsApps` |
| | `AnswersStayCurrent` | `R!Spec => []AnswersWereCurrent` |
| | `PriorityIsFollowed` | `R!Spec => []FollowsThePriority` |
| | `TypeCorrect` | `Spec => []TypeOK` (of `MetadataCache`, as the next three) |
| | `AgesAreBounded` | `Spec => []AgesBounded` |
| | `CacheImplementsStaleRegister` | `Spec => ImplementsStaleRegister` |
| | `MapsAreBounded` | `Spec => []MapBounded` |
| `DeployPipelineProofs` | `TypeCorrect` | `Spec => []TypeOK` |
| | `RecordIsPublished` | `Spec => []LiveTargetsPublished` |
| | `ScriptIsRecorded` | `Spec => []RunningScriptIsRecorded` |
| | `ChargesAreDeployed` | `Spec => []ChargedIffDeployed` |
| | `SettledDeploysAreExact` | `Spec => []SettledDeployIsExact` |
| `PlatformCleanupProofs` | `TypeCorrect` | `Spec => []TypeOK` |
| | `CodeHasItsSchema` | `Spec => []SchemaBeforeCode` |
| | `MigrationsAreOrdered` | `Spec => []AppliedInOrder` |
| | `MigrationsAreAppliedOnce` | `Spec => []AppliedOnce` |
| | `RecordsAreReal` | `Spec => []RecordedClassesExist` |
| | `CurrentStays` | `Spec => []CurrentTargetsSurvive` |
| | `RefusalsHaveReasons` | `Spec => []RefusedForAReason` |
| `RoutingProofs` | `TypeCorrect` | `Spec => []TypeOK` |
| | `RoutesAreClaimed` | `Spec => []OnlyClaimedRoutes` |
| | `UncontestedStaysServed` | `Spec => []UncontestedRouteIsServed` |
| | `HostsStayReserved` | `Spec => []HostStaysReserved` |
| | `WildcardsStay` | `Spec => []WildcardsAreNotReplaced` |
| | `SerialDeploysStayExact` | `Spec => []SerialDeploysAreExact` |
| `AppCallsProofs` | `TypeCorrect` | `Spec => []TypeOK` |
| | `CallsAreAuthorized` | `Spec => []LetThroughRightly` |
| | `LiveTokensHold` | `Spec => []RefusalsMeanRedeploy` |
| | `MessagesAreAccountedFor` | `Spec => []MessagesEndForAReason` |
| `BackgroundProofs` | `TypeCorrect` | `Spec => []TypeOK` (of `ScheduleDispatch`, as the next two) |
| | `LockSeparates` | `Spec => []TwiceOnlyWhenOverlapping` |
| | `LossesAreReported` | `Spec => []NoSilentLoss` |
| | `WorkflowsTypeCorrect` | `W!Spec => []W!TypeOK` |
| | `MarkersAreHeld` | `W!Spec => []TrackedRunHoldsMarker` |
| | `AnswersAreSingle` | `W!Spec => []OneAnswerPerInstance` |
| | `LimitHolds` | `W!Spec => []LimitHoldsWithoutOverlap` |
| `LimitsProofs` | `TypeCorrect` | `Spec => []TypeOK` (of `BurstLimits`, as the next four) |
| | `CountersAreSound` | `Spec => []CountersNeverOverCount` |
| | `RefusalsAreJustified` | `Spec => []RefusalIsJustified` |
| | `SerialRequestsAreLimited` | `Spec => []SerialRequestsKeepLimit` |
| | `RetryAfterIsExact` | `Spec => []RetryAfterReachesNextWindow` |
| | `DailyTypeCorrect` | `D!Spec => []D!TypeOK` |
| | `RollupsAreSound` | `D!Spec => []NeverOverCounts` |
| | `SuspensionsAreDeserved` | `D!Spec => []SuspendedForRealUse` |
| `NotificationsProofs` | `TypeCorrect` | `Spec => []TypeOK` |
| | `MarksKeepFromTelling` | `Spec => []ToldAgainOnlyWhenUnmarked` |
| | `NobodyIsPassedOver` | `Spec => []EveryoneIsTold` |

Assumptions: the named ones that each module states about its constants, which
TLC evaluates in every run.

*Cache.* `AgesBounded` is inductive with `TypeOK`. Its parts are one bound per
place: a value fetched from KV is current when fetched (`CallAge`), filling
memory and then the edge adds a latency each, an edge entry adds a TTL
(`EdgeAge`), handing it on a latency, memory another TTL (`MemoryAge`). An
answer is a value from memory, from a held edge answer or from a held KV answer,
so the refinement step needs only `AgesBounded` and that `Tick` erases the
answers of the previous moment. `MapBounded` rests on `MapInv`: an isolate's
order has every key it holds, and each once. Setting, appending and removing an
element keep that (one lemma each about a function and a sequence), and eviction
is a removal at 1 followed by an append.

*Pipeline.* `LiveTargetsPublished` is not inductive: a request that has not
stored its record yet must already have its targets up. `PublishOrder` says for
each `pc` what has been published by then, that manifests list only uploaded
assets, that a stored record belongs to a request beyond publishing, and that a
write in flight belongs to one as well. Published things are never removed or
shrunk by this component, so each action keeps the others' parts. `ChargeInv`
adds that the record of a request beyond "storing" was stored; captures happen
only there, and what is captured stays so.

`SettledDeployIsExact` needs to know how far a request has come. `OwnOrder` holds
of every request by itself: nothing of its own is in flight between two batches,
and it enters the first stage at "storing". While a request is alone no other is
active (`OthersAreQuiet`: one that began would end that, one that failed may
still have writes in flight and is active), so what it has done stays (`AsAsked`):
each entry is stored or still to land, a stage that is done has left what it was
to leave and nothing else, and the one it is in still deletes or puts exactly what
is missing. The kinds of mappings need not be disjoint: what a later stage deletes
it does not want, and it wants whatever of its kind an earlier one left
(`AboutStages`). The plan must be pruned to its branch (`BranchAssumption`), or the
first stage would put what it does not replace.

*Resources.* `MigrationOf` says of each deploy that what it has looked at was
executed, and that past its databases all its migrations are: order and schema
follow. For `AppliedOnce`, `MetInv` says that deploys that run at the same time
have met, and `OnceInv` that an executed migration is recorded, about to be, or
torn, so that whoever executes a recorded one met the deploy that recorded it.

*Classes and cleanup.* `ClassInv` follows the stable script: its tag names classes
it has, what is on record it has until a cleanup sweeps it, what it has is on
record, about to be, or was left by a deploy that ended; and a deploy that met no
other (`Solo`) knows the tag and the unrecorded classes exactly. An upload that is
refused contradicts that, unless a reason of `RefusedForAReason` holds.
`RecordsAreReal` ends where a cleanup deletes the stable script (`swept`): the
records of its classes stay and are wrong from then on, and the refusal that may
follow is one of those reasons. `CleanInv`
follows the sweep: what is doomed was old at first (`AgeInv`, since nothing ages
while the model runs) and not referred to when the cleanup looked (`DoomInv`), so
only a deploy that crossed the sweep can have made it current since (`CrossInv`),
and one that published a target which is gone crossed it as well (`CarryInv`).

*Custom domains.* All five rest on what is in flight: `PutsAre` says which tables a
visit and a merge put, and `PhasesFit` which phase a deploy with a put of some form
is in. A route is held by who claimed it, in every form and in every put
(`OnlyClaimedRoutes` is inductive so far). The record of a route that one app alone
claims is never put for another and is there, or about to be, once a deploy has
merged the hostname (`RecordsHeld`); the list of a hostname that one app moves its
routes about on is never put empty (`ListsHeld`); the mapping of a wildcard that
nobody released is there, or about to be, for each deploy that got it unchallenged
(`WildcardsHeld`). For serial deploys `Progress` states, key by key, what it holds
before its visit (as before), after it (without what the deploy releases) and after
its merge (what the owners are then); the history `owner` is the reference. Which
mount is longest is found by well-founded order, as a set of paths need not be
finite; `MaximumOf` replaces an induction.

*Requests.* `StepHasEffect` first gives each action of a request its effect as an
equation of values; the invariants reason by these. `RunsSoFar` counts the Workers a
request has run against its `pc`: at most one of an app, and one more for the
gateway of a mail. `SightsSoFar` says that while a request runs, the present state
is among what it has seen, and that each thing it holds (candidate, build, not
being suspended, route) was in some state of those. For
`FollowsThePriority`, `PriorityAt` says by `pc` that there are routes it has seen of
which it has passed over a prefix, by builds it has seen (`OnTheWay`); that what it
found is what serves after such a prefix (`FoundAt`) and was awake in a state it has
seen; and that what it has passed of that build does not answer. Each is a
statement about what was seen, which only grows, so a change in between leaves it
(`GrownPriority`), and reading one more thing extends it by what is seen now
(`LoadPriority`).

*Calls.* `NowIsSeen` puts the present into what an active call or delivery has met;
each check of a call then stands in a state it met (`CallOf`). For messages,
`Steady`: while every state that a delivery met had record and consumer of one
deploy, the record did not change, because no step stores both; and `DeployInv`: if
they are of two deploys, a deploy is between its record and its mapping, or failed
there.

*Schedules.* `LockOrder` relates each task to the lock it has seen: a task
beyond `put` has put its lock at `locked`, the lock in KV expires no earlier
than any put that is remembered, and a task that found no lock either met the
other invocation or came after the lock's expiry. `LossInv`: a lock that was ever
put has an owner beyond it (`LocksHaveOwners`), a task that gave way found one
(`HeldByALock`), and a resolved invocation settled each task without a rejection
(`ResolvedIsSettled`).

*Workflows.* `MarkerInv` relates what a request listed to what is alive now:
every instance that was tracked when it listed, and is still alive, is in its
list. It holds because no instance comes back to life and a marker leaves only
with its instance or its TTL. `TriesLeft` is what bounds the attempts.

*Burst limits.* `CountersNeverOverCount` is not inductive alone: a put in flight will
land later, over whatever the counter says by then. The strengthening bounds
what each request has read by what was let through before it, and counts the
request itself once it is admitted; `admitted` only grows. `RetryAfterIsExact`
is arithmetic: `QuotientIs` characterises a division by its two inequalities,
and a second is no longer than a window. For serial
requests the counter is exact (`ExactInv`): if those counted under a key did not
overlap and lost no put, it says what was let through, except that one of them is
still putting, and one that has read it alone has read just that. What is let
through is then within the limit of the last repository admitted, whatever the
limits of the others.

*Daily limits.* The same shape: `UseInv` says of every rollup that somebody
holds (stored, read by a request, merged by a collection) that it is sound for
its day, and of every suspension that is stored or decided that its day was
really used up. `StepGrows` (use never shrinks) carries the parts that a step
does not touch; one lemma for requests and one for collections does the rest.

*Notifications.* `LetterInv` and `MarkInv` connect letters and marks: there are no
marks but of letters that were sent, and a letter that goes on knew of none with
its key. `UnsentInv` and `ListInv` follow the listing: who stayed subscribed is
found, who is found was subscribed, and those found got letters.

*What proving changed.* Some statements held of the instances and not of all
constants, or were about less than they said; they are now as the proofs need them:

- With three deploys an upload may be refused although no two overlapped and the
  classes on record are right: one halts after creating a class, a second sets the
  tag of the script to other classes. `RefusedForAReason` names that case, and the
  pasts are those in which it has not happened yet (`PastsAssumption`).
- Two apps may both get a wildcard without having met each other, when a third
  deploy met one of them, or when puts of a failed one landed late. So
  `WildcardsAreNotReplaced` says that one of the two met a rival, and `met` counts a
  deploy as long as its puts are in flight.
- `seen` in `RuntimeRouting` collected the apps that were awake at any time, and so
  forgot which of them were awake together. It now collects the sets of suspended
  apps, each by environment, and likewise routes. `FollowsThePriority` was about
  requests during which nothing changes; it is now about every page.
- `SerialRequestsKeepLimit` was false for repositories with limits of their own that
  share an owner's counter; it now holds for all policies.

Only model-checked: `EveryDueTaskSettles`, `EveryRunEnds` and `EveryMessageSettles`,
since liveness is out of the prover's reach, and the violation of
`daily_suspension_lasts`. Every other property of section 3 is a theorem.

## 6. What is assumed and left out

- KV operations are atomic and immediately visible. Real KV is eventually
  consistent for up to a minute; a stale read behaves like a longer `Latency`
  in the cache model and widens the overlaps of the others.
- An application stands for its names as keys have them: `sanitizeScriptPart`
  (`names.ts:56`) makes "." and "_" a "-", so repositories that differ in nothing else
  are one to every table. Where names that keys tell apart no more are still told
  apart by something else, that is modelled (`SlugOf` in `BurstLimits`, `Kept` in
  `Notifications`).
- The account service, the dispatch namespace, D1, R2, queues, Telegram, the edge
  cache and the clock are external and modelled by what the code relies on.
- *Pipeline*: checks that only refuse a request (token, limits, suspension) are
  taken to have passed, and the failure diagnostics record is left out.
- *Resources*: at most one D1 database with migrations; empty SQL files, which are
  skipped, and deploys of a site alone are left out, as are the values of
  bindings and the bundling of modules. Classes are looked up in one step, after the
  queues; the code looks them up one by one before them, which, as their records are
  never deleted, tells a deploy apart only from one that runs beside it. When one put
  of a class record fails, the others may still land after the deploy has ended; the
  model lets any of them land before that. The cleanup's deletion of expired
  suspensions is in `DailyLimits`, that of old rollups is left out.
- *Routing*: the caches of assets, which hold immutable content, and the headers
  of responses. (`runtime/static.ts:134-150` subtracts the size of an asset twice
  from its count of bytes if it exists and is also the oldest.) Accounting after
  the answer swallows every error (`usage.ts:302-380`) and so never changes it. A
  gateway app's suspension is not asked by the code.
- *Calls*: one queue per app, deploys of an app one at a time, and late puts of
  failed deploys are the pipeline's subject; an app is assumed not to answer 2xx,
  which acknowledges a batch, at a path it does not consume; allow lists of owners stand for their
  apps; the refusals of models, sizes and malformed bodies are left out. A
  workflow's caller is resolved in the same way.
- *Burst limits*: counters live for two windows after their last put, so their
  TTL never removes a counter that is still read, and it is left out.
- *Daily limits*: those of the repository; the owner's and the environment's
  rollups have the same read-modify-write. The caches in front of the suspension
  are left out, the collector's hourly lock is taken by one invocation, and the
  owner is not exempt.
- *Workflows*: instances are external: an id is used once, and what W7S relies on
  of the step's retries. The markers of an app are listed in one page.
- *Notifications*: wording, markdown, the edits of status messages and their
  message ids; the bot's token is configured. A suspension whose subscriptions
  cannot be listed rejects after it was stored.
- *Schedules*: the parsing and matching of cron expressions; `Due` gives the
  minutes of each schedule.

### Not modelled

The app manifest and archive (`deploy/appManifest.ts`, `archive.ts`,
`deployValues.ts`), `deploy/githubAuth.ts`, `logs.ts`, the agent and status API,
the landing pages and the local runtime: pure parsing and validation, I/O or
reports that keep no state anything decides on. `PROJECT.json` gives the reason
for each.

## 7. Plan

What remains, in order of what it would add:

1. The caches in front of the suspension: how late one is noticed, and what a
   reader with an old copy may delete.
2. The owner's and environment's rollups and their rebuild.
3. An abstract specification of custom domains (each deploy takes effect at once)
   that serial deploys refine.
4. Pure functions against reference definitions: cron fields, path prefixes,
   instance ids.
