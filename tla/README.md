# Formal model of ascended-core

TLA+ modules, TLC configurations and TLAPS proofs for ascended-core: its stateful
packages (event bus, AI router with registry and privacy enforcer, media uploads,
repository and unit of work, realtime, notifications, rate limiter and sessions, health),
the reference server with the SDK client that calls it, the post pipeline, and the tools
that decide what is released (dependency trace, SBOM, licence and dependency checks, the
two release paths). Paths are relative to the repository root (`src/` here); definitions
in the modules keep the names of the code.

## 1. The system

ascended-core is a TypeScript monorepo of ports and local implementations, with
scripts that check and publish it. The packages
run on one JavaScript thread: code between two `await`s is atomic and every `await`
lets any other pending call run. There are no locks and nothing survives the process,
so the hard behaviours come from interleavings at `await`, from values read before an
`await` and used after it, from promises that reject half-way through a sequence, and
from timers. The models make each `await` a state of the calling process and each
continuation an action.

### Components

| Component (packages/...) | State | Operations | What makes it correct |
|---|---|---|---|
| events: `InMemoryEventBus` | live subscriptions per type, a `seen` set per idempotent subscription | `subscribe`, the unsubscribe it returns, `publish`, `publishBatch`, retries, dead-lettering | nothing lost to dedupe, exact attempts, ordered and complete fan-out, at most one handling per key, every publish settles |
| events: `testing.ts`, `catalog.ts` | a recorder; a table | - | test fixture; data |
| privacy: policies, enforcer | the active policy | `validateProviderCall`, `updatePolicy`, `getPolicy` | no call the active policy forbids; human mode ignores allow-lists |
| privacy: minimization, telemetry | none | recursive redaction of JSON values | output keeps no forbidden field |
| ai-router: router, registry | providers per list; per route its candidates, attempt log, timer | `register*`, five `route*` functions, `attemptCandidates`, `withTimeout` | each candidate tried once and in order, the log tells the truth, late answers are ignored, a timed route settles |
| persistence | items per repository, snapshots | CRUD, cursor pages, `runInTransaction` | a failed transaction undoes its own writes only; paging over a changing repository neither repeats nor skips survivors |
| media | open sessions, assets, stored keys | `beginUpload`, `completeUpload`, `abortUpload`, `deleteAsset` | no orphaned object, no ready asset without its object, an aborted upload stays aborted |
| realtime | rooms, calls, presence, pub/sub channels | join/leave, call state machine, heartbeat/sweep | membership and published events agree; ended calls stay ended |
| notifications | preferences, inbox, reminder queue | `notify`, `drainDue` | one attempt per channel, preferences honoured, no reminder fired twice or lost |
| providers | rate-limit windows, sessions, roles | `consume`, `verifySession`, authorization | the limit holds per window; expired sessions are refused |
| observability | failure counters, checks | health aggregation, provider tracker | overall status is the worst of its parts |
| sdk | none | `paginateAll`, error mapping | each item yielded once, termination |
| reference server, reference adapters (examples/) | repositories behind HTTP handlers, a post pipeline on the bus | join, leave, RSVP, profile; publish pipeline | one membership per member, one event per change, pipeline steps survive a retry |
| scripts, .buildkite, .github | lockfile, installed packages, SBOM; builds, `main`, npm | `--trace`, SBOM generation and validation, compliance and licence checks, release guard, publish | tools lose and invent nothing; what is published passed its checks |
| api-contracts | a document and schemas | `runDriftCheck` | drift is reported |
| core, contracts, openapi client | none | types, schemas | - |

### How they interact

- Everything that changes domain state publishes on a bus afterwards: realtime, media,
  notifications and the reference server `await bus.publish(...)` once their own state
  has changed, so handlers run, fail and publish in turn while the publisher waits.
  realtime and media depend on a structural `EventBus` of their own whose events have
  no `idempotencyKey`.
- The AI router asks the enforcer for each candidate and reads its candidates from the
  registry; both may change while a route waits for a provider.
- The reference server keeps its state in repositories, publishes through the bus and
  notifies through the notification service; the SDK client maps its answers to errors.
- The post pipeline is a handler on the bus, which runs it again when a feed subscriber
  throws.
- The capability matrix folds in what health trackers report.
- The media service calls an `ObjectStoragePort`, the notification service its channel
  senders and preference port, the SDK the HTTP server.

### Hard behaviours

PROJECT.json lists them one by one with the line where each bites. In short:
check-then-act across an `await` (bus dedupe, policy check, upload sessions,
membership look-up), snapshots iterated while the original changes (fan-out,
candidates, reminders), rejections in the middle of a sequence (dead-letter sink,
publish after a state change), executions that outlive their timeout, cursors over a
changing collection, clocks that are set back, answers lost after the work was done, jobs that
die half-way and are run again, and awaits that nothing times.

## 2. The modules

| Module | Models | Source |
|---|---|---|
| `EventBus` | the bus, its callers and handlers | packages/events/src/in-memory-bus.ts, delivery.ts, bus.ts |
| `EventBusProofs` | theorems about it, the refinement of `BusDelivery` included | |
| `MCEventBus` | constants for TLC | |
| `PrivacyPolicy` | modes, families, default policies, the enforcer's decision | packages/privacy/src |
| `AiRouter` | registry, active policy, routes in flight (extends `PrivacyPolicy`) | packages/ai-router/src/router.ts, registry.ts |
| `Fallback` | what a caller may rely on of a route; `AiRouter` implements it | packages/ai-router/src/router.ts |
| `AiRouterProofs`, `MCAiRouter` | theorems; constants for TLC | |
| `MediaUploads` | upload sessions, assets and the in-memory storage | packages/media/src/local.ts, assets.ts |
| `MediaUploadsProofs` | theorems about it | |
| `Repository` | repository, unit of work and pager | packages/persistence/src/in-memory.ts, packages/sdk/src/pagination.ts |
| `RepositoryProofs`, `MCRepository` | theorems; symmetry for TLC | |
| `BusDelivery` | what the bus promises of its deliveries; `EventBus` implements it | packages/events/src/bus.ts |
| `ReferenceServer` | the HTTP handlers over repositories, bus and inbox, and the client | examples/minimal-server/src, packages/sdk/src/client.ts |
| `Realtime` | rooms, call sessions, presence and what subscribers can know | packages/realtime/src/local |
| `Notifications` | `notify` under changing preferences, the reminder queue | packages/notifications/src |
| `ProviderAdapters` | rate limiter and sessions under a clock set back | packages/providers/src |
| `Capabilities`, `HealthProbe` | capability matrix; trackers and a probe in flight | packages/ai-router/src/capabilities.ts, packages/observability/src/health.ts |
| `Redaction` | telemetry and log redaction | packages/privacy/src, packages/observability/src/logger.ts |
| `PostPipeline` | the reference adapters' handler on the bus | examples/reference-adapters/src/platform.ts |
| `ReferenceServerProofs` | theorems about the server | |
| `AdapterProofs` | theorems about `Realtime`, `ProviderAdapters`, `HealthProbe`, `Notifications`, `PostPipeline`, `Redaction` | |
| `MCServices` | extends these seven and gives them constants for TLC | |
| `Lockfile`, `DependencyTrace` | pnpm-lock.yaml's readers, `--trace` | scripts/checks/third-party-compliance.mjs |
| `SpdxExpression`, `Sbom` | licence expressions; SBOM generation and validation | the same, scripts/checks/validate-sbom.mjs |
| `Gates`, `ReleasePipeline` | what each check refuses; the two release paths | scripts/checks, .buildkite, .github/workflows/release.yml |
| `ToolingProofs` | theorems about the pipeline, the lockfile's readers, `--trace`, the licence parser and the SBOM | |
| `RecursiveFunctions` | induction over a measure and the existence of recursive functions: used by the proofs | |
| `MCTooling` | extends these and gives them constants for TLC | |

### EventBus

A call of `publish` or `publishBatch` is a process with a program counter (`pc`, what
it awaits) and a `frame` (its local variables: the batch and position, the snapshots
taken by `[...set]`, the position in the snapshot, the attempt counter). A plain
`publish(e)` is a batch of one.

| Action | Code |
|---|---|
| `Subscribe`, `Unsubscribe` | `subscribe` and the closure it returns; a second unsubscribe changes nothing |
| `PublishBatch`, `ResumeBatch` | `publishBatch` up to its await, and its loop's next turn |
| `ResumeFanOut` with `DeliverNext` | `publish`'s loop and the start of `deliver`: skip a duplicate, else call the handler |
| `HandlerSucceeds` | mark the key seen (only now), go on with the next subscription |
| `HandlerThrows` | retry at once, or hand over to the sink, or drop when there is none |
| `SinkCaptures`, `SinkRejects` | the awaited `capture`; nothing catches its rejection, so it ends both loops |

`log` is history: for each call how its deliveries ended and after how many attempts.
`lifecycle` records what the owner of a subscription did. Handlers are the
environment: while one runs, anybody may subscribe, unsubscribe and publish.

### AiRouter

A route is a process that waits in `checking` (the promise of `candidate.check()`) or
`executing` (the race of `execute()` and the timer). `Route` and `FallThrough` run the
loop up to the next await; the privacy half of a check runs in that same turn, so its
verdict and the policy it used are kept in the frame. `CheckBlocked`,
`CheckUnavailable` and `CheckAvailable` resume from the check, `ExecuteSucceeds`,
`ExecuteFails` and `ExecuteTimesOut` from the race. An execution that lost its race is
kept in `late` and may still settle (`LateSettles`). `Register` is `upsertByName` on
any of the five lists, `UpdatePolicy` replaces the enforcer's policy. Histories: `under`
(the policy a candidate was checked against) and `stale` (dispatches the policy of that
moment forbids, counted since the last change of policy).

### Fallback

The abstract router knows no registry, policy, verdicts, timers or late answers: a route
draws its plan once, of candidates no two of which are one provider of a list and all
AI ones first, then refuses or calls them one at a time in that order, and ends resolved
by the first that answers or exhausted after the last. `AiRouter` instantiates it with
what its log and frames say (`Abstract`, `Refusals`, `Failures`, `Status`), and
`ImplementsFallback` says that every behaviour of the router is one of the abstract one.

### MediaUploads

Each caller makes one call after another, any number of times. A call is split at its
await on storage (`BeginUpload`/`BeginReturns`, `CompleteUpload`/`CompletePublishes`,
`AbortUpload`/`AbortReturns`, `DeleteAsset`/`DeleteReturns`) and, for a completion, at
its await on the bus (`CompleteEnds`). `InMemoryObjectStorage` works synchronously, so
the storage changes in the first half and the service's maps in the second. An upload,
its asset and its storage key are one element of `Uploads`, as all three ids are made
together and never reused. Early returns and NOT_FOUND are explicit steps that change
nothing. Histories: `known`, `announced`, `raced`.

### Repository

Each method does its work in the turn that calls it, so `Create`, `Update` and `Delete`
are single steps, taken by an open transaction or by anybody else: the transaction
context is an empty marker and a write in a transaction is a write like any other.
`Begin` takes the snapshot of `runInTransaction`; the callback then awaits whatever it
likes until it resolves (`Commit`) or throws (`Rollback`, which puts the snapshot in
place of all items). A pager is `paginateAll` over `findMany`: `BeginWalk`, then
`NextPage` for each page fetched, yielded and left by its `nextCursor`, or `CursorLost`
when the cursor's item is no longer listed. An item is named by its cursor, the pair of
creation time and sequence number, and a listing is the set of the cursors of the items
that match the filter. Histories: `pages` and `steady` of a walk, `before` and `theirs`
of a transaction.

### BusDelivery

The abstract bus keeps per call a ledger of deliveries that have ended and a status, and
knows no queues, snapshots, attempts or `seen` sets. An entry is never taken back; it is
for a subscription of the event's type; "deduped" needs a handled entry of the same
subscription and key; "lost" ends the call. `EventBus` instantiates it with its `log`
and `pc` (`Delivery`), and `ImplementsDelivery` says that every behaviour of the bus is
one of the abstract bus: a turn of a call maps to one `Deliver`, `Open` or `Resolve`, or
to a stutter.

### ReferenceServer

A request is a process whose `pc` names what its handler waits for; each handler is an
operator with the handler's name and one disjunct per turn: enter (validation, the first
look-up), each continuation, the answer. A request is `"unsent"` until its client sends
it; requests are sent in the order of a script and may overlap from then on, which is
what pipelining on one connection allows. `rows` is all repositories in the order of
creation, `announced` the events delivered, `inbox` the notifications. A row remembers
the request that created it. The client is `apiError`, a function of the answer, of
whether it arrives and of whether its body can be read. The routes, statuses and error
codes are tables taken from the code; the calls the SDK makes without a route for them
(`getCommunity`, `getEvent`) get the 404 they get.

### Realtime, Notifications, ProviderAdapters, HealthProbe, PostPipeline, Redaction

- `Realtime`: one room, one call session, presence per account. A method changes its map
  and publishes in one turn; the publish reaches the first subscription in that turn, so
  `believed` (what a subscriber concludes from the last event about each thing) changes
  with it, while a later subscription may hear events out of order and can only count
  (`balance`). The events have no `idempotencyKey`: for the types in `deduping` the first
  subscriber has the bus's default options and, from the moment one of its handlers is
  done (`HandlerDone`), is given no further event of the type (`IsDuplicate`; `missed` is
  the history of what it was not told). For all others it has `idempotent: false`, as the
  later one has.
- `Notifications`: a call of `notify` waits for its publish, reads the preferences once and
  tries its channels one by one; preferences change at any moment, senders fail, the
  publish may reject. A worker drains due reminders and notifies for each, and may die.
- `ProviderAdapters`: `nowMs` may go back as well as forth. `consume` and `issueSession`
  change their maps in one turn. A `verifySession` is split at its two awaits: it has the
  session loaded (`verifySession`), decides by the clock of a later moment
  (`VerifyDecides`), and removes what has expired before it answers (`VerifyReturns`);
  any number may overlap on one token. Histories: `spent`, `visits`, `refused`.
- `HealthProbe`: a probe starts every check in one turn, where a tracker answers at
  once; the other components answer later or throw. Meanwhile trackers are told outcomes
  and components come and go. Its reports are folded into `Capabilities`' matrix.
- `PostPipeline`: the handler's awaits one after the other; the listeners of the author's
  feed come and go and may throw, whereupon the bus starts the handler again.
- `Redaction`: values are leaves, arrays, plain objects and class instances; `Nest` builds
  them one level at a time. `walk` and `redactValue` are the bodies of the code's
  recursive functions, `sanitizeTelemetry` and `redactFields` the functions they define
  over `Values` (everything nested up to `MaxDepth`), compared with the paths to the
  leaves that should be left.

### Tooling

A package is a name and a version, a lockfile is importers, packages and snapshots; the
`Lockfile` operators read it line block by line block as the scripts do. `SpdxExpression`
has one operator per function of the parser; `parse` holds what those that recurse
return, their loops included, and `derives` what the grammar derives.
`DependencyTrace` is `tracePackage` with its explicit stack. `Sbom` is
`collectAllTransitiveDeps`, `generateSbom` and `validateSbom`, with an action `Damage`
in between that breaks the written document in one of eleven ways. `Gates` has one
operator per check, a predicate on a commit's tree; `ReleasePipeline` composes them into
the Buildkite and the Actions path: `Queue`, `Check...`, `Unblock`, `PublishOne` for each
package, jobs that `Die` and `RunAgain`, and `Merge` moving `main` on meanwhile.

## 3. What TLC checks

| Run | Result | Question |
|---|---|---|
| `bus_concurrent` | holds, 50,884 states | two concurrent publishes of one event to two deduping subscriptions with up to 2 attempts and a sink that may reject: `DedupeLosesNothing`, `AttemptsExact`, `EveryPublishSettles`, and the refinement `ImplementsDelivery` |
| `bus_sequential` | holds, 466,284 states | batches published one after the other, three subscriptions over two types, one of which sees redeliveries, no sink, `maxAttempts` 0: `HandledAtMostOnce`, `FanOutOrder`, `FanOutComplete`, `UnsubscribeStopsDelivery` |
| `bus_at_most_once` | violated | `HandledAtMostOnce` when two publishes of one key overlap |
| `router_fallback` | holds, 82,980 states | a route over three lists of providers with re-registration, policy changes, failing, hanging and late executions: `HumanModeIsHuman`, `StaleDispatchAtMostOnce`, `AttemptLog`, `RouteSettles`, and the refinement `ImplementsFallback` |
| `router_policy_change` | violated | `NoStaleDispatch`: is a call ever dispatched that the policy of that moment forbids? |
| `media_overlap` | holds, 215,216 states | three callers over two uploads: `NoOrphanObject`, `OpenIsPending`, `ReadyIsStored`, `Lifecycle` |
| `media_abort` | violated | `AbortDiscards`: does an aborted upload stay aborted? |
| `repository_walk` | holds, 265,975 states up to symmetry | a pager, a transaction and another writer over two ids that are created, changed, deleted and created again: `CursorsUnique`, `WalkAdvances`, `SurvivorsYielded`, `RollbackUndoesOwn` |
| `repository_rollback` | violated | `RollbackSparesEnded`: does a rollback leave alone what other transactions did? |
| `services` | holds, 890,322 states | the seven service modules, one at a time (`focus`): `ToldTruth`, `DuplicatesNeedOverlap`, `LastRsvpStands` of the server, `SubscribersCanFollow` of realtime, `WantedAndReported` of notifications, `ClockSafe` of the providers, `ProbeTruth` of health and capabilities, `NothingForbidden` of redaction, `AuthorToldOnce` of the pipeline |
| `server_observers` | violated | `ReactionsObserved`: does a subscriber with the default options observe every reaction? |
| `tooling` | holds, 174,679 states | four tools, one at a time: `TraceExact`, `GeneratedValidates`, `OnlyCyclesAreLost`, `GapsAreReported`, `LicenseGrammarExact`, `PublishedIsClean` |

Each passing run of a core module also checks its `TypeOK` (the bus in `bus_concurrent`).
The operators named `X_...` with the comment "Fault" in the modules are wrong versions
of `X`: replacing `X` by one of them makes TLC report the property it is paired with in
PROJECT.json, which shows that no property is vacuous.

### Bounds, and why they are enough

- Bus: `Calls` and `Subs` bound what is published and subscribed. Two calls are the
  least that can race for one key, and two subscriptions of a type the least where a
  mark could leak from one to the other or a failure at one could starve the other.
  `MaxAttempts = 2` has a retry and an exhaustion; 0 exercises `Math.max(1, ...)`. The
  batches mix types, repeat an event and include the empty batch. `MaxInFlight` limits
  how many calls overlap: 2 for the concurrent run, 1 to state what holds for callers
  that publish one after the other.
- Router: routes share only the registry and the policy, which the environment changes
  at every moment anyway, so one route meets every interference; the proofs cover any
  number. Policies are the cloud default and two that kept an allow-list of another
  mode; one provider is registered anew under a name in use, and `animate` has a
  provider that does not implement it.
- Media: three callers allow a completion, an abort and a deletion, or two completions
  and a deletion, to overlap on one upload while another proceeds; calls are not
  limited in number, so histories of any length over two uploads are covered.

- Repository: two ids and three creations let an id be deleted and created again while
  the other is under the cursor; pages of one item make every page a new turn of the pager;
  two readings of a clock that may go back give ties and reversals; two values let items
  leave and enter a filter. Ids and values are only compared, so the run uses their
  symmetry (all its properties are safety). The proofs cover any number of each and every
  page size.

- Services: three requests at most, from scripts with every single call (valid, invalid,
  not JSON, without a token, to targets that exist, do not exist or come to exist), every
  pair of a write with any call, and seven triples in which a retry, a duplicate and a
  reader meet. Two accounts and one room, call and community each are enough, as nothing
  relates two of them. Realtime has a clock of three readings and lifetimes 0 and 1, so
  that presence expires, is refreshed and lives on; its first subscriber dedupes no type,
  joins alone, or departures and presence. Notifications has two calls over two
  channels, one of which has no sender, and two reminders. The limiter has windows of
  two readings out of four, costs up to above the limit and two visits of each window. Two
  callers verify sessions, the least of which one can hold what the other has refused. The trackers are
  told three outcomes with a threshold of two. Payloads nest four deep. The pipeline has
  one post, three listeners and two attempts, the default of the code (a retry
  and an exhaustion).
- Tooling: every dependency graph over three packages with every choice of edges, one of
  them optional; SBOMs over the same with a colliding fourth name, three installations and
  eleven kinds of damage; expressions of up to four tokens (a parenthesised pair with an
  operator needs more, a parenthesised `WITH` and every mismatch of operators do not);
  22 flaws of a commit, alone and in the pairs of which one might hide the other or which
  the code overlooks (a name spelled by chance in the notices, a licence in an ignored
  directory, a foreign holder beside an allowed one), two builds on two paths, two runs
  each. A commit is not started on a path that looks for none of its flaws.
- `CHECK_DEADLOCK FALSE` in `services` and `tooling`: requests end, tools finish, clocks stop.

### Fairness

- Bus, `FairSpec`: weak fairness of each call's continuations, `Bus(c)`. The runtime
  runs every continuation whose promise has settled, so this assumes just that handlers
  and the sink settle. Nothing in the code bounds them: a handler that hangs, or awaits
  the very publish that called it, holds its publisher for ever. Callers and
  subscribers have no fairness.
- Router, `FairSpec`: weak fairness of `Check(r)` and of `ExecuteTimesOut(r)`. The timer
  is armed by the code for a positive `timeoutMs` and the runtime fires it; executions
  themselves have no fairness and may hang. `checkCapability`, however, is awaited
  without a timeout, so `RouteSettles` assumes that checks settle and fails without it.
  With `timeoutMs <= 0` no timer is armed and `RouteSettles` is not claimed.
- Media, repository, services and tooling: safety only, no fairness. A walk over a repository to which
  others keep adding need not end.

## 4. Disagreements between code and documentation

1. *At most once per key* (`bus_at_most_once`). packages/events/src/bus.ts:17-18 promises
   that a handler runs at most once per key; `deliver` tests `seen` before awaiting the
   handler and marks the key after it, so two overlapping publishes both run the handler
   to success. It does hold for callers with one publish in flight (`bus_sequential`, and
   theorem `SequentialAtMostOnce`).
2. *Policy in force at dispatch* (`router_policy_change`). docs/privacy-model/README.md:3-6
   has the enforcer decide "before any provider call is dispatched ... under the user's
   active privacy mode"; the router decides one await earlier. A policy installed while a
   capability check is pending does not stop that one dispatch. It stops all later ones
   (`StaleDispatchAtMostOnce`, proved).
3. *Abort discards* (`media_abort`). packages/media/src/uploads.ts:59 says that an abort
   discards any partial state; a completion waiting for `getUrl` while the abort runs
   then stores the asset as READY and announces it, its object gone.
4. *Rollback and other transactions* (`repository_rollback`).
   packages/persistence/src/unit-of-work.ts:19-20 has a transaction commit on success and
   roll back if its function throws; `InMemoryUnitOfWork` restores whole repositories, so
   that with two overlapping transactions the rollback of one removes what the other
   committed, or brings back what the other had rolled back. Each does undo its own writes
   (`RollbackUndoesOwn`, proved).

5. *Events observed* (`server_observers`). examples/minimal-server/src/server.ts:7-8: "Every
   mutation publishes the matching domain event through the in-memory bus so downstream
   consumers (and tests) can observe the workflow." `NotificationService.notify`
   (packages/notifications/src/service.ts:61) publishes without an `idempotencyKey`, and a
   subscription dedupes by default: to it the second `notification.requested`, and all
   after it, are redeliveries of the first. A reaction is announced by that event only.
   The events of realtime and media lack the key as well.

Seen in the code but without a run: in-memory.ts:4 orders items by (createdAt, id), while
`compareStored` breaks ties by sequence number; `expiresAt` of an upload session is never read
(uploads.ts:25 says that it bounds completion), the human default policy does not block
families a product adds (policy.ts:73), and the enforcer does not read the privacy mode
of the request context. Further:

- Server and SDK: createCommunity, createEvent and updates publish nothing (server.ts:7);
  the client's getCommunity and getEvent have no route; two overlapping joins create two
  memberships, against CHANGELOG.md:121 (the model shows that overlap is needed); the
  server takes `avatarUrl` and `startsAt` strings that the SDK's schemas refuse, so that the client
  reports a validation error after the work was done.
- Realtime: joining a closed room is a CONFLICT even for who is in it (rooms.ts:46-47);
  LocalPubSub keeps a Set, so one handler subscribed twice is one entry and either
  unsubscribe removes it.
- Privacy: `sanitizeTelemetry` passes class instances on unwalked; docs/privacy-model/README.md:115
  says that `redactTelemetry` strips forbidden keys, and it tags `userId` only.
- Trace and SBOM: `tracePackage` says that optional dependencies are excluded
  (third-party-compliance.mjs:1100-1103), its reader includes them; the comment at
  :953-955 promises a complete SBOM, and unreachable cycles stay unlinked; `@s/p` and
  `s-p` share an identifier; an optional peer variant hides a missing required one;
  `opts._lockText` is used for packages while edges come from the file on disk (:872).
- Checks: package-smoke.mjs:58-60 says that what is inlined into dist "must name a package
  that is listed in this package's THIRD_PARTY_NOTICES.md"; :75 asks whether its name occurs
  anywhere in the text, inside another word or not, so that a bundled `ms` passes wherever
  the notices say "items". scancode-license.mjs passes a copyright statement that names an allowed holder,
  whoever else it names (:133-139), and has ScanCode leave out every directory called
  evidence, dist, coverage, .cache or .reports (:60-83), so that a foreign holder or a
  copyleft licence can be published on the path that looks for them (`Hidden` in
  `ReleasePipeline`); :114-118 of package-smoke.mjs asks whether THIRD_PARTY_NOTICES.md is
  packed and not what it says; license-policy.json's `allowedLicenses` is never read; a tarball without
  integrity is a warning; npm unreachable makes the integrity check pass (:1398); the
  drift check's regex fallback cannot accept the repository's own openapi.yaml, whose
  schemas are its last section.
- Release: release.yml has no package smoke and no guard on `main` or the tag's version;
  the Buildkite path has neither licence scan nor SBOM, and packages of two
  builds with one version may mix. docs/release-process/README.md:108-111 says that the
  release job of a tag pushed after a fallback release fails because npm refuses a version
  it has; `pnpm -r publish` leaves such versions out, so the job ends well having published
  nothing, or what the fallback left unpublished (`Missing`, modelled from pnpm's
  documented behaviour).

## 5. What is proved

All theorems but the two refinements and those of `RecursiveFunctions` say `Spec => []P`, for an invariant or an action property,
for every value of the constants under the named ASSUME of the module and any further
hypothesis shown.

| Theorem | Says |
|---|---|
| `EventBusProofs!TypeCorrect` | `TypeOK` |
| `EventBusProofs!AttemptsCorrect` | `AttemptsExact` for every `MaxAttempts \in Int` |
| `EventBusProofs!NothingLost` | `DedupeLosesNothing` for any number of overlapping calls |
| `EventBusProofs!SequentialAtMostOnce` | `HandledAtMostOnce`, for finitely many calls of which one is in flight at a time |
| `EventBusProofs!UnsubscribeStops` | `UnsubscribeStopsDelivery` for any number of overlapping calls |
| `EventBusProofs!FanOutOrdered`, `FanOutCompletes` | `FanOutOrder` of every call, `FanOutComplete` of those that resolve, for any batches, subscriptions and overlapping calls |
| `EventBusProofs!BusImplementsDelivery` | `ImplementsDelivery`: `EventBus` refines `BusDelivery` |
| `AiRouterProofs!RouterTypeCorrect` | `TypeOK` |
| `AiRouterProofs!AttemptLogCorrect` | `AttemptLog`, whatever is registered meanwhile |
| `AiRouterProofs!StaleDispatchBounded` | `StaleDispatchAtMostOnce` |
| `AiRouterProofs!HumanModeCorrect` | `HumanModeIsHuman`, if every provider has a well-known family and every human policy blocks all of them but "human"; lemma `HumanDefaultBlocks` shows that the default policy does |
| `AiRouterProofs!RouterImplementsFallback` | `ImplementsFallback`: `AiRouter` refines `Fallback` |
| `MediaUploadsProofs!MediaTypeCorrect` | `TypeOK` |
| `MediaUploadsProofs!NoOrphanObjectCorrect` | `NoOrphanObject` for any number of overlapping calls |
| `MediaUploadsProofs!OpenIsPendingCorrect` | `OpenIsPending`, likewise |
| `MediaUploadsProofs!ReadyIsStoredCorrect`, `LifecycleCorrect` | `ReadyIsStored`, `Lifecycle` for uploads whose calls do not overlap, any number of callers |
| `RepositoryProofs!RepositoryTypeCorrect` | `TypeOK` |
| `RepositoryProofs!CursorsUniqueCorrect` | `CursorsUnique` for any number of writers and transactions and any clock |
| `RepositoryProofs!RollbackUndoesOwnCorrect` | `RollbackUndoesOwn` |
| `RepositoryProofs!WalkAdvancesCorrect` | `WalkAdvances` for every page size and number of pagers and writers |
| `RepositoryProofs!SurvivorsYieldedCorrect` | `SurvivorsYielded`, likewise |
| `AdapterProofs!FollowersCorrect` | `SubscribersCanFollow` for any accounts and clock and whatever types the first subscriber dedupes, if every lifetime is a natural number |
| `AdapterProofs!ClockSafeCorrect` | `ClockSafe` for every window and any number of overlapping verifications, if limit, costs and session lifetime are natural numbers |
| `AdapterProofs!ProbeTruthCorrect` | `ProbeTruth` for any trackers and checks and every `failureThreshold` above zero |
| `AdapterProofs!NotificationsCorrect` | `WantedAndReported` for any sequence of channels, preferences, reminders and clock |
| `AdapterProofs!NothingForbiddenCorrect` | `NothingForbidden`, for every `MaxDepth`; lemma `NothingForbiddenInAny` says it of every value |
| `AdapterProofs!AuthorToldOnceCorrect` | `AuthorToldOnce` for any posts and listeners and every `maxAttempts` above zero |
| `ReferenceServerProofs!ToldTruthCorrect` | `ToldTruth` for any scripts, of any length, over any first rows |
| `ReferenceServerProofs!DuplicatesOverlapCorrect` | `DuplicatesNeedOverlap`, likewise |
| `ReferenceServerProofs!LastRsvpCorrect` | `LastRsvpStands`, likewise |
| `ToolingProofs!PublishedWasClearedCorrect` | `PublishedWasCleared`: what is on npm passed every check of its path, whatever the checks and commits are |
| `ToolingProofs!PublishedAsAskedCorrect` | `PublishedAsAsked`, the first half of `PublishedIsClean` |
| `ToolingProofs!PublishedIsCleanCorrect` | `PublishedIsClean` for any commits and builds that `ReleaseAssumption` describes: but for the flaws it calls `Hidden` |
| `ToolingProofs!ReadersExact` | the four readers make of the text of a lockfile what the document states, however many things it has |
| `ToolingProofs!TraceExactCorrect` | `TraceExact` for any lockfiles that `TraceAssumption` describes, with any number of packages |
| `ToolingProofs!GapsAreReportedCorrect` | `GapsAreReported` for any lockfiles that `SbomAssumption` describes and whatever is installed |
| `ToolingProofs!OnlyCyclesAreLostCorrect` | `OnlyCyclesAreLost`, likewise |
| `ToolingProofs!GeneratedValidatesCorrect` | `GeneratedValidates`, likewise, for every damage |
| `ToolingProofs!LicenseGrammarCorrect` | `LicenseGrammarExact` for expressions of every length |
| `RecursiveFunctions!FunctionExists`, `ValuesGood`, `MeasureInduction` | a recursive function whose calls lower a measure exists, has the values its body gives and every property its body passes on; induction over the measure |

Constants are assumed to be what the code makes them: `failureThreshold` and
`maxAttempts` above zero, channels a sequence, lifetimes, limit and costs natural
numbers. Four assumptions say more, and TLC evaluates each on the run's values.
`ServerAssumption`: scripts are sequences of calls to operations of the server, and the
rows there are at first belong to no request of theirs. `ReleaseAssumption`: the flaws
of a commit are named after what its tree shows (`FlawsShow`, in the words of the tree
and not of the checks), a resolution has one tarball key and the schemas are the last
section of openapi.yaml (`TreesAreSound`). `TraceAssumption` and `SbomAssumption`: a
lockfile is one that pnpm writes. It has finitely many importers, packages and
snapshots, each dependency is asked for in one of the three blocks, and a resolved one
has a key of name, version and peers (`WellFormed`, all that `ReadersExact` needs); each
package has a snapshot, and every resolved dependency is among them or a workspace
(`Closed`). `SbomAssumption` also says that a licence is a sequence of tokens and a
homepage missing, absolute or relative.

Along which argument:

- *Bus.* `Inv1` adds to `TypeOK` that a call in flight stands at an event of its batch
  and, while it awaits a handler or the sink, at a subscription of the snapshot taken
  for that event with its attempts counted (`FrameOK`); without it nothing says that
  `EventOf` and `TargetOf` are defined. Lemma `StepEnds` shows that any step appends at
  most one outcome and says which, from which `AttemptsExact` follows.
  `DedupeLosesNothing` needs `SeenWasHandled`, that whatever key is marked has been
  handled. At most once needs `Inv2`: the only call in flight (`Alone`) runs a handler
  on a key not yet marked (`Fresh`), and every handled key is marked (`HandledSeen`); two
  overlapping calls break `Fresh`, which is the first disagreement above.
  For `UnsubscribeStopsDelivery`, `Live` says that the lists hold each subscription once
  and only while it is subscribed, and lemma `PendingGrows` that a step makes a call
  await nothing but what it awaited or what is listed.
- *Refinement.* `TypesAgree` adds that subscriptions are kept under their type and a
  snapshot holds subscriptions of its event's type, which `Deliver` asks for;
  `SeenWasHandled` gives the abstract guard of "deduped". `LedgerGrows` and `StatusMoves`
  carry an append and a move of `pc` through the mapping, and one simulation lemma per
  kind of turn (`SimStutter`, `SimOpen`, `SimDeliver`, `SimResolve`, then `SimDeliverNext`,
  `SimBatchNext`) shows which abstract step it is; `SimNext` puts them together.
- *Router.* `Inv1` places a route in flight at one of its candidates. Every step either
  moves a frame by `TryCandidate` or leaves the log alone (`StepMoves`, `MoveLog`).
  `PrivacyInv` relates the verdict kept in the frame to the policy it was taken under
  (`AskedPermitted`), an execution to its verdict (`ExecutingAsked`), and says that there
  has been at most one stale dispatch since the policy changed, and a route that checks
  a candidate after it checks it under the policy in force (`StaleSpent`), so that a
  second cannot follow. `TriedInv` keeps names distinct in every list through `upsertByName`
  and every route's candidates in the order they were drawn from the lists, and `LogInv` says
  entry by entry what the log has of the candidates passed. For the refinement, `IdleInv`
  says that a route not yet begun has no plan; a move of a frame changes the abstract state
  by refusing some candidates and then calling one or ending (`FellBy`), and a simulation
  lemma per kind of turn (`SimDraw`, ..., `SimNext`) shows which abstract step that is.
- *Media.* `IInv` adds that only known uploads are worked on (`KnownFirst`), an upload is
  begun by one call (`BegunOnce`), an abort or a deletion in flight has already taken
  the object (`Removed`) and announcing closes the session for good (`AnnouncedClosed`).
  `SoloInv` follows an upload whose calls do not overlap: its one call in flight finds
  unchanged what it saw before its await (`Counts`), and between calls store and asset
  agree (`Stored`).
- *Repository.* `PositionInv` adds to `CursorsUnique` that every sequence number in the
  repository or in a snapshot lies below the counter (`SeqBounded`), which a rollback keeps
  because it does not restore the counter. `WalkInv` says where a walk stands: nothing it
  has seen or handed out lies beyond its cursor (`Behind`), and every survivor is handed
  out or still ahead (`Ahead`). Lemma `PageIsPrefix` shows by counting that a page is an
  initial part of what is left, so moving the cursor to its last item skips nothing.
- *Order of the fan-out.* `Flow` says, for every call in flight, that its log is what the
  events before the current one owe, then what of the current snapshot has been
  delivered. What is owed is a flattened sequence of sequences; instead of an induction
  `Flow` carries `Unfolds`, that flattening this sequence is flattening all but its last
  and appending that, which holds of the empty one and of every append
  (`UnfoldsEmpty`, `UnfoldsAppend`).
- *Realtime.* `Followed` writes what there is as a union of five parts, each of which an
  event changes alone because topics are told apart (`TopicsDistinct`); the count is moved
  by joins and leaves only, which `EmitJoined` and `EmitLeft` pair with the map. Beliefs
  are compared outside `missed` (`Agree`), which `EmitFollows` carries through every event;
  `Deduped` says that nothing is missed where no subscription dedupes.
- *Providers.* `Allowed` adds to the bound that the visit the limiter is in has allowed just
  what it counts as used; the earlier ones may each have used the limit. For sessions,
  `TokenFits` says that a token found expired is gone from the store and ended no later
  than the earliest reading that found it so, and `VerifyFits` that a call has loaded the
  end its token was issued with, or nothing if it began after such a refusal (`late`): one
  that answers with the session decided before that end.
- *Health.* `Tracks` gives a tracker's count and state from the outcomes it was told;
  `ProbeInv` says that a probe in flight kept each report as its tracker stood when it was
  asked (`ReportsFit`), whatever has been told or removed since.
- *Notifications.* A call knows the preferences in force during it and sends by the ones it
  has read (`CallsInv`); a delivery is an attempt of its call (`DeliveredInv`); a reminder
  is in one place only, the queue, the worker's batch or a call (`QueueInv`, `BatchInv`,
  `FiredInv`), which is why it cannot fire twice, nor after a cancellation that found it.
- *Post pipeline.* `Fits` ties what a delivery has recorded, summed up and told to its
  stage and to the attempts that found the post. `Owed` is what the attempt under way may
  still tell a listener: with what the listener has heard it never exceeds the
  attempts (`Heard`).
- *Recursive functions.* TLA+ leaves open whether a function equal to its own body exists,
  and the prover has no induction theorem it could instantiate with a property. So
  `RecursiveFunctions` takes the body as a constant operator `Def` and is instantiated with
  it. Where `Def(f, v)` looks at `f` only where a measure is smaller (`Local`), functions
  on the arguments up to a measure exist and agree (`FollowersExist`, `FollowersAgree`),
  and their union is the function (`FunctionExists`). Induction is over sets: a set that
  has `v` when it has all that is smaller has everything (`MeasureInduction`), which comes
  from the order of the naturals being well-founded.
- *Redaction.* The measure is the depth of nesting: items and fields of `Data[n]` are in
  `Data[n - 1]`. That gives `sanitizeTelemetry`, `redactFields` and `Paths` the values of
  their bodies, so the paths of a value are those of its items and fields, one step
  longer; the induction compares what is left of them level by level. The commutations
  with `redactKeys`, `pickFields` and `redactTelemetry` look at the outermost object only.
- *Licence expressions.* A call of the parser is measured by what is left to read
  (`callSize`), a sentence by its length (`sentenceSize`), with "or" above "and". Locality of
  the parser needs that a call which succeeds has moved on (`Advances`), so the two are
  proved together. Soundness goes by what is left to read: the loop after an operand extends
  what was derived before it (`AndChain`, `OrChain`). Completeness goes by the length of the
  sentence: the parser gets from its start to the loop at its end, if no operator that
  binds more tightly follows (`AndComplete`, `OrComplete`). Both together are `ParserExact`.
- *Server.* Every turn of every handler has one of nine shapes (`Turn`): it fails, finds,
  lists, writes, tells, settles, patches, notifies or replies; one lemma per handler shows
  that its disjuncts do. `ServerInv` then says by a request's place what it has found and
  made (`Place`) and whom that was told to (`Outreach`), and each shape preserves it for
  the request that takes the turn and for all others (`Kept`). `HistoryInv` adds time:
  whoever makes what a request looked for in vain was under way when it was sent
  (`Fresh`), and without rivals a request finds the RSVP that stands (`Standing`).
- *Release.* A build past its checks has passed them (`Build`): a job that dies is run
  again from a stage it had reached, and `main` only grows (`ClearedStays`). One lemma per
  check then shows that a tree with a flaw it is there for is refused, whatever else is
  wrong with the tree, or that all of the flaw is out of the check's sight
  (`ClearedIsClean` puts them together). That the schemas end
  openapi.yaml is needed: the drift check's fallback would hide a drift otherwise.
- *Readers.* The loop variables after each line are a recursive function, which exists by
  `RecursiveFunctions` and which `JoinReads` splits where two texts meet: the second is
  read as if it began under what the first leaves open. A text all of whose lines are deeper
  than some depth leaves what is open at that depth (`Kept`, `EnterInside`). What a reader
  takes from a text, wherever it stands in a scope, is `Tells`, which composes
  (`JoinTells`, `FlattenTells`, `LinesTell`, `HeadTells`) from one line to a package, a
  snapshot and a workspace. `SectionsRead` puts the three sections together. Of the order
  of the things, which `SetToSeq` chooses, the proof uses nothing.
- *Trace.* `StackInv`: no path on the stack is the beginning of another or of one found,
  and only its end may be the goal; `FoundInv`: what was found is a simple path of a search
  that is done; `NothingLost`: every simple path to a match is found, or goes on from the
  stack, or belongs to a search still to come. When the searches are over and the stack is
  empty, the last two say that exactly the simple paths have been found, and
  `IsInjective` in the second that none was found twice. Paths are no longer than there
  are packages because an injection into a finite set is (`PathIsChain`).
- *SBOM.* The file is what the generator or a damage made of it (`SbomInv`), so all is in
  the operators. `Related` says which relationships a lockfile gives, `Entries` which
  packages; `EndsAreIds` and `IdsAreEnds` that the ends of the relationships are exactly the
  identifiers of the packages, which is why nothing dangles in what is written and
  something does when a package is lost. For `OnlyCyclesAreLost`: an identifier that no
  edge points to hangs from the root by the fallback, so one that does not has an edge
  from another that does not (`WrittenHangs`).

What proving showed about the model, besides the theorems: two CASE expressions
(`Attempt` of notifications, the client's `apiError`) had overlapping guards and so left
open which branch is taken, where the code has an order; they are IFs now.
`DuplicatesNeedOverlap` spoke of one kind of row at a time and now speaks of all three.
`UNION A \cup B` is read as `UNION (A \cup B)` by the prover and as `(UNION A) \cup B` by
TLC; the modules avoid it.

Only model-checked: the liveness properties `EveryPublishSettles` and `RouteSettles`, as
liveness under fairness and `ENABLED` are out of the prover's reach.

## 6. Abstractions

- Payloads, error texts, telemetry, timestamps and ids are left out; fresh ids are
  distinct elements. `backoffMs` is not modelled because the code does not await it.
- Every publish of an `EventBus` event has a key, the case bus.ts is written for. Events
  without one are modelled where they are published, in `ReferenceServer` (`Key`).
- Requests and responses of AI providers are left out: a candidate's answer is the
  position it came from. Time is not modelled; a timer may fire at any moment after it
  has been armed.
- Policies are values; `getPolicy` returns a frozen shallow copy whose arrays are shared,
  and that aliasing is not represented.
- Upload policy checks throw before any state changes and are left out, as is the
  content of assets.

- The repository model has one repository (a unit of work over several restores each in
  the same turn). Calls that throw CONFLICT or NOT_FOUND and `findById` change nothing and
  are left out. A limit of 0, which ends a walk at once with nothing, is excluded by
  `RepositoryAssumption`.

- Server: bodies are "good", "odd" (taken by the server, refused by the SDK's schema),
  "invalid" or not JSON; listings are one page; a repository look-up answers with a copy.
  HTTP framing, content types and ids in paths that cannot be decoded are left out.
- Realtime, notifications: refused calls change nothing and are left out; one recipient,
  as no two share state. Titles and bodies are left out. A sender's answer and the report
  of it are one step (`Attempt`): while a sender is awaited nothing of the call is read or
  changed, and what others do meanwhile they may do before or after that step.
- Providers: the session store is the in-memory one, whose `load` and `remove` do their
  work in the turn that calls them.
- Release: a text is the set of its words and `includes` asks for a word or a part of one
  (`Spelled`); a copyright statement is likewise a set of words.
- Tooling: a file is what its reader looks for in it; licences are sequences of tokens;
  URLs keep scheme and place; a network answer is given or not (`answers`).

### Not modelled

core, contracts, the event catalog and the stubs (types, schemas and data); the events test
harness (a recorder); metrics, spans and log transport (output); webhook signing
(cryptography); email, push and payment recorders (an append each); role policies
(a lookup); HTTP parsing; the generated client; CI for pull requests, code generation and
the review-branch script (they publish nothing).

## 7. Plan

1. The server with preferences that change and a bus that rejects, composed with
   `Notifications` in place of its own inbox.
