# A TLA+ model of the slot engine's stateful core

This directory holds TLA+ modules for the parts of the repository that keep
state and move money, TLC configurations that check them on small instances, and
TLAPS proofs for every value of the constants. Most of the repository (about
40,000 lines of TypeScript feature kernels, a Rust simulator, Python tools) is
sequential numeric code; what can go wrong across several calls, callers or
failures lives in the managers, wallets and stores listed below.

## 1. Inventory

| Component | State | Operations | What is hard |
|---|---|---|---|
| Jackpot manager `src/jackpot/manager.ts` | a pool per tier, a map of payments (status, amount, start, retries) | contribute, begin, commit, rollback, retry, expireTimedOut | two phases with a timeout; retries that look at no status; two reservations of a tier |
| Cross-game wallet `src/wallet/crossGameWallet.ts` | pool per tier, totals, a sequence number, pending operations | begin/commit/rollback of contributions and hits, snapshot, fromSnapshot | nothing is reserved at begin; restart from an old snapshot; ids made of the sequence |
| Wallet orchestrator `server/lib/wallet/orchestrator.ts`, `server/state/tenant-wallet-config.ts`, provider clients | configuration per tenant, cached provider instances, health cache | runSpinFlow (debit, play, credit, rollback), resolveProvider, invalidate, runHealthChecks, save/deactivate | awaits between the legs; lost and late requests; stale instances; secret rotation |
| Session store and spin routes `server/state/sessions.ts`, `wallet.ts`, `server/routes/{session,gaas,wallet}.ts` | sessions with totals and a loss flag, balances, statements | create, spin over two routes, close, deposit, withdraw | the GaaS path does not ask `decideSpin` and audits a bet it rounds for the wallet; two sessions share a wallet; one audit chain for all |
| Audit log `server/state/audit.ts`, `server/lib/hashChain.ts` | hash chain per session | append, verify | order of entries |
| Postgres stores `server/state/{wallet,sessions,audit}-pg.ts`, `server/db/connection.ts` | the same, in tables; a pool of clients | the same, each in a transaction | locks and waits between statements; a head chosen before it is locked; an answer to COMMIT that is lost; clients given back on every path |
| Rate limiter, cache `server/lib/{rate-limit,cache}.ts` | token buckets, TTL entries | consume, get, set | load, await, save |
| Canary, rollback, manifest `server/lib/deployment/` | stage, latch, routes | promote, evaluate, rollback | a rollback whose route swap fails; constructed by tests only |
| Marketplace `server/routes/marketplace.ts`, `server/state/marketplace{,-pg}.ts`, `payment-stub.ts` | catalogue, purchases, payout rows | purchase, refund, monthly payouts | charge, await, record; pay back, await, mark; delete, await, insert; sales stamped before they are visible |
| Self-exclusion client `src/rg/self_exclusion_client.ts` | a circuit breaker per registry | query | calls that settle after the breaker has moved on; concurrent half-open probes; time limits |
| RGS wallet, RG sessions `src/rgs`, `src/rg/session.ts` | open rounds, timers, counters | place, settle, deadlines | operations finishing after their deadline |
| Recall journal `src/recall/` | append-only hashed file, rotated files, head and number | append, rotate, recover | torn last lines, failing writes, crashes before and after a rename |
| Certification `server/state/{hsm,cert}.ts`, `server/routes/cert.ts` | the signing key and its file, submissions | init, sign, submit, decide | crashes while the key file is written; decisions at any status, before there is a package too |
| Simulation runner `src/sim/{cancel-resume,parallel,worker,accumulator}.ts` | a controller, a checkpoint; worker threads, an accumulator each | runChunked with pause, resume, cancel; runParallelSimulation, merge | runs that overlap, die or are cancelled between chunk and checkpoint; threads that die |
| Engine, features, analytical code, Rust and Python implementations | none that outlives a spin | numeric | out of a model checker's reach |

The components meet as follows. A spin takes its money either from the in-memory
wallet of the session routes or, through the orchestrator, from an operator's
wallet over HTTP. Jackpot manager and cross-game wallet are libraries: the host
calls begin when a spin wins, pays, and then commits or rolls back. The
operator's back office writes tenant configurations beside running spins. Every
route of the server stands behind the rate limiter. The self-exclusion client
and the recall journal are libraries of the host as well.

Every component is listed in `PROJECT.json`, with the reason where it is not
modelled; its `hazards` list what is hard to test, at the line where it bites.

## 2. Modules

| Module | Models |
|---|---|
| `JackpotManager` | `JackpotManager`: every method that changes state |
| `JackpotPayout` | abstract: a jackpot won is paid once, returned once, or forfeited |
| `JackpotManagerProofs` | theorems about `JackpotManager` |
| `CrossGameWallet` | `CrossGameWallet`: every method that changes state, snapshots, restarts |
| `SharedMeter` | abstract: an atomic meter shared by games |
| `CrossGameWalletProofs` | theorems about `CrossGameWallet` |
| `WalletProviders` | tenant configurations and the orchestrator's provider instances |
| `WalletSpinFlow` | `runSpinFlow`, over `WalletProviders` and an external provider and network |
| `WalletSpinFlowProofs` | theorems about `WalletSpinFlow` |
| `SpinSession` | session, wallet and audit stores and the routes that change them |
| `SpinSessionProofs` | theorems about `SpinSession` |
| `SelfExclusion` | the self-exclusion client and its circuit breakers |
| `ExclusionGate` | abstract: a player who was on a registry when asked about is not cleared |
| `RecallJournal` | `NdjsonFileJournal`: append, rotation, recovery, crashes |
| `Marketplace` | purchases, refunds and payouts, query by query |
| `MarketplaceProofs` | theorems about `Marketplace` |
| `RateLimit` | one token bucket under concurrent requests |
| `PgStores` | wallet, session and audit stores over `withTransaction`, statement by statement |
| `HealthChecks` | `runHealthChecks` beside the operator's changes |
| `CertKeys` | the signing key over crashes, licences, submissions and decisions |
| `ChunkedRun` | `runChunked` and `SimController` |
| `ServiceProofs` | theorems about `SelfExclusion`, `RateLimit`, `HealthChecks` and `PgStores` |
| `FileProofs` | theorems about `RecallJournal`, `CertKeys` and `ChunkedRun` |
| `Sums`, `SumFacts` | the sum over a finite set, and what is proved of it |
| `MC*` | constants for TLC |

Operators named as slips in their comments (`CommitWithoutStatus`, `DebitRefAgain`,
...) are not part of the models. Each is a plausible bug of a definition; with
it in the definition's place the run named in `PROJECT.json` reports the
property violated.

### JackpotManager

`pool` is `poolValue`, `payment` the map of pending payments; a payment's age
stands for `now - startedAt`. Every method is synchronous, so each call is one
action, and a call that throws is a stuttering step. `CommitTooLate` and
`CommitInTime` are the two ways through `commitJackpot`, `RetryExhausted` and
`RetryAgain` those through `retryJackpot`. `ExpireTimedOut` treats all expired
payments in one action, in the order of the map: of two payments of one tier the
younger one's amount is what the pool ends with. `funding` is a history
variable: what ever came into the tier.

Three specifications differ in the host. `Spec` lets it call anything in any
order. `CarefulSpec` is a host that answers each payment once: it commits only a
pending payment and retries only one neither committed nor rolled back.
`CarefulFairSpec` adds that time passes and that the host keeps calling
`expireTimedOut`. That fairness is an assumption about the host, since nothing
in the library schedules the sweep.

### CrossGameWallet

`pool`, `contributed`, `payouts`, `hits` and `sequence` are the fields of
`snapshot()`. `pending` maps ids to operations; an id is the kind and the
sequence number of the begin, as in `pseudoId`. A contribution is the amount
that rate, exchange rate and rounding leave; `beginContribute` returns null for
0, and for a game that is not eligible. `FromSnapshot` stands for a process that
stops and is rebuilt from the snapshot last kept: pending operations are gone.

`Spec` allows every order of calls. `CarefulSpec` is a host that lets a tier
rest while a hit on it is open (no second hit, no contribution committed) and
stops only with its snapshot up to date.

### WalletSpinFlow

Any number of flows run at once; the code between two awaits is one action.
`flow[s]` is the latest call of `runSpinFlow` with ref `s`: the leg it awaits
and, at the end, its `SpinFlowResult` (which transactions it carries, and its
`errorCode`). Each leg resolves the provider again (`Send`, `Unwind`), as
`debit`, `credit` and `rollback` do. `Unwind` is the rollback after a failed
game or credit, whose own failure is swallowed.

Provider and network are external and modelled from how the clients use them. A
request on `wire` may be handled at any later time or lost; a call may end in
`provider_timeout`, `provider_unavailable` or `unknown` (an answer that cannot
be parsed) whether or not its request was or will be handled. The provider
checks the signature, books a ref once, and answers a known ref with its first
result or `duplicate_ref`, as `docs/WALLET_PROVIDERS.md` describes. The operator
(`OperatorStep`) saves a configuration, deactivates the tenant, drops the
instance, or has the provider rotate its secret at any moment.

`FairSpec` assumes weak fairness of `FlowStep(s)`: `playSpin` returns or throws,
and every call ends because `FetchHttpClient` aborts it at its timeout. The
provider and the network get no fairness.

### SpinSession

`session`, `balance`, `statement` and `audit` are the maps of `SessionStore`,
`WalletStore` and `AuditStore`. No handler awaits between reading and writing
one of them, so a request is one action: `Spin` is the session route with
`DecideSpin`, `GaasSpin` is `executeSpin`, which asks only whether the session is
closed; both go on with `PlaySpin` (wager, credit, recordSpin, audit). A GaaS
`betAmount` comes in units finer than a minor one: `Rounded` of it is wagered and
recorded, and the `betAmount` itself is audited, as in `executeSpin`. A bet that rounds to
nothing makes the wager throw. A deposit
or withdrawal is audited on whatever session the caller names (`AuditOn`), and a
deposit of the review threshold or more stays pending, since nothing completes
it. A session's loss limit and its jurisdiction's pacing, autoplay and timeout
are `Policy[s]`.

### SelfExclusion

`Ask` is the synchronous part of `query`: `canPass` of every breaker, and the
calls issued. `Answer` and `CallFails` are a call settling in `queryOne`, with
`onSuccess` or `onFailure` of the shared breaker as it is by then; `Decide` is
the code after `Promise.all`. A call is *lost* once its registry will reject it
or answer after the deadline; the race against the timer makes it fail. The
registries go down, come back and register the player as they like; an answer
tells of some moment between question and answer. `asked` is a history variable,
and the abstract module's.

`ExclFairSpec` assumes that time passes, that the event loop settles calls and
resumes queries (`Served`; every call ends, by its answer or by its timer), and
that the host keeps asking, which it does before deposits and spins: without
questions no breaker is probed. The registries get no fairness; `BreakerHeals`
is conditional on one that stays up.

### RecallJournal

`disk` is what `append` has written over all files, one piece per call, and
`file` the number of the current file. `AppendEntry` is `append` with its
rotation; `WriteThrows` and `RenameThrows` are its two ways to throw, and `JournalCrash`
ends the process before, inside or after the write or after the rename. `Open` and
`Refuse` are the constructor. Three history variables: `acked` (appends that
returned), `hurt` (a write failed half-way under a living process, or
recovery took a line without its newline for whole) and `anew` (how much was written
whenever a process opened the journal and found no current file). `FilesChain` lets the
chain start over there and nowhere else, so a living process that reset its head and
number at a rotation would violate it; `AppendStartsOver`, its mutant, is that process.

### Marketplace

A step is one query or one call of the payment provider; `call[r]` is where a
request handler has got to. `Buy`, `Charge`, `RecordPurchase` and `CommitPurchase` are the
purchase route: the insert begins, which is what `NOW()` stamps the sale with, and commits,
which is when others see it; `Refund`, `PayBack` and `RefundPurchase` the refund route,
`ComputeMonthlyPayouts`, `WipeRows` and `InsertRow` the three kinds of query of
`computeMonthlyPayouts`. No route calls the last or `markPayoutPaid` yet; they are
the store's interface for the operator's payout run. `Fail` ends a request at any
await: what it had done stays. Four history variables name what can go wrong:
`lost` (charges whose request died), `torn` (sales refunded twice at once, or
whose refund died after the provider paid), `paidFor`, and `careless` (a paid row
paid or computed again, or a period computed and paid at once). A sum over a closed
period carries `unseen`, the charges whose sales were stamped with the period and had not
committed: no row counts these sales, unless the period is computed again. The properties
say that nothing else goes wrong.

### RateLimit

One bucket: keys never meet. `Arrive` is the preHandler taking `now()` and calling
`consume`; `Load` and `SaveBucket` are the moments the store serves the read and the
write, in any order over the requests. `ConsumeFails` is a store error (the request ends
with 500), `DropBucket` is Redis dropping the bucket after its 300 s. Tokens and time are integers:
`One` units make a token, so that a bucket can hold parts of one. History
variables: `spent` in a bucket (whom it was charged for), `overlapped`, and
`rewound`, the time that counts twice because a save carries an older stamp than
what it read. `Capacity <= Rate * Ttl` is an assumption on the configuration; the
defaults (200 tokens at 100 per second against 300 s) satisfy it amply.

### PgStores

A step is one statement. `Call` enters a store's method; `Begin` takes a client of
the pool (`free`); `EnsureBalance`, `ReadSession`, `ReadHead` and `LockHead` are
the first, locking statement of the wallet, of `recordSpin` and `close`, and of
`append`; `WriteWallet`, `WriteSession` and `WriteAudit` are what follows it;
`Commit` and `Rollback` end `withTransaction`, `Released` being its `finally`. What a
transaction has written is its `draft` until it commits. `DecideSpin` is a query of its
own, and `Play` whatever the caller does before `recordSpin`. `lock` holds the rows
locked, each with its holder; `log` is a history variable, the transactions in the
order they committed, and `told` what each call was answered.

The database is external, and modelled at its default level, READ COMMITTED: an
upsert or a `SELECT ... FOR UPDATE` waits for the row and then sees its last
committed version, but `append`'s `ORDER BY seq DESC LIMIT 1 FOR UPDATE` has chosen
its row before it waits, and an insert waits for an uncommitted one of the same
unique key. A statement may fail at any time, and a COMMIT may be carried out and
its answer lost (`CommitUnheard`): the caller is then told of a failure. The tests of
these stores run against `tests/fake-pg.ts` of the server, which knows neither locks nor
rollback, so none of this is tested. `PgSpec` is fair to the steps of a call: statements
are answered, and database and pool serve their queues in order. Nothing is assumed
about calls being made, failing or not.

### HealthChecks

`sweep[c]` is a request: what is left of the configurations it listed, and the tenant it
is at (looked up in the cache, resolved, probing, answered). `instance[t]` is the
version of the configuration that the cached provider was built from; a save does not
drop it. `ExpireCached` may drop a cached answer at any time. `ProviderAnswers` is a call of the
provider ending, well only if the provider of that version is up, and badly at any
time. The in-memory cache is meant: a Redis one would put an await between
`updateHealth` and `set`.

`MonitoredSpec` assumes that a request goes on, that cached answers expire, and that
somebody keeps asking: that is the operator's monitor and not this code, and
`DownIsNoticed` depends on it.

### CertKeys

`phase` and `key` are the server process with its `HsmStore`, `keyFile` its key file, which
`writeFile` truncates (`Truncate`) before it has written it (`Persist`). `ServerCrash` ends
the process at any point and takes the submissions with it. `ReadFails` is a
`readFile` that throws although there is a key: `init` catches every error. `Submit`
is `submit` up to the await of the PDF, `Package` the rest, `RenderFails` a PDF that
throws. `SetRegulatorDecision` looks at no status and may come at any time after `submit`,
which puts the submission in the map before its PDF is made: one that still renders or
failed to is then completed without a package, which its history field `early` remembers,
and one rejected while it renders is completed by `Package`, which looks at the status no
more. `licences` and `unread` are history variables.

### ChunkedRun

`pc[r]` is where a call of `runChunked` is, `controller[r]` the state of its
`SimController`, `saved` the checkpoint of the one `jobId`. The statistics of a
simulation are how often each spin was counted, which tells a spin lost from one
counted twice. `Wait` is `waitWhilePaused`, which parks the call until `Resume` or
`Cancel` wakes it and looks again. `Throws` is a chunk or a store that fails, having
done its work or not, and `RunnerCrash` the process dying with all its calls. Runs may
overlap: nothing in `runChunked` keeps a second one from the same `jobId`.
A chunk may obey the abort signal, as the interface asks it to, and return early
(`last` in `ProcessChunk`); `cut` remembers that one did. What a call that threw or died
had in its variables is gone (`Dropped`).

`RunSpec` assumes that promises settle: chunks end and the store answers. Nobody need
resume a paused run, and `RunsEnd` promises nothing of a run left paused.

## 3. Runs

TLC finds no violation in any of these runs:

| Run | Specification | Shows |
|---|---|---|
| `jackpot_careful_caller` | `CarefulFairSpec` | settlements never exceed one for the begin and one for each retry counted; payouts, reservations and pool never exceed what came into the tier; implements `JackpotPayout`; no payment stays pending for ever |
| `crossgame_careful_host` | `CarefulSpec` | an operation has its effect once; ids stay fresh across restarts; contributions plus seeds equal pools plus payouts; implements `SharedMeter` |
| `wallet_unreliable` | `FairSpec` | a result that shows no doubt is true until its ref is used again; a win is booked only for a bet that was booked, and a reported win is in the ledger; every flow returns |
| `session_routes` | `Spec` | every statement adds up; sessions, statement and audit tell one story, GaaS bets rounded, with spins numbered 1, 2, ... over both routes; after a loss of the limit the session route plays no spin, even if GaaS spins won the money back |
| `self_exclusion` | `ExclFairSpec`, failing closed | implements `ExclusionGate`; breakers of registries that stay up close for good; every query ends |
| `recall_journal` | `JournalSpec` | the files are one chain but where a process opened the journal without a current file; acknowledged entries stay readable unless `hurt`; a journal is refused only for a torn line or because its file continues a rotated one |
| `marketplace` | `Spec` | every charge becomes one sale unless lost; a sale is paid back once unless torn; rows of closed periods count every sale that stands, but those that were uncommitted when they were summed; an author is paid once for a sale unless careless |
| `rate_limit` | `LimitSpec` | requests that overlap no other stay within burst and refill; none is refused before a burst was spent; Retry-After is long enough |
| `pg_stores` | `PgSpec` | the transactions of a player replay the stored balance, never below zero; an audit chain has no gap and no fork; a session's result is the sum of its spins, none after its close; concurrent spins pass the loss limit by no more than one bet each; what was told to succeed committed, and nothing commits twice; every call ends |
| `health_checks` | `MonitoredSpec` | the cache and the configuration never contradict each other; a provider that stays down is shown down in the end |
| `cert_keys` | `CertSpec` | licences verify after any crash, unless a key was unreadable at a start; a completed submission is packaged and sealed with the server's key, or was approved without a package |
| `chunked_run` | `RunSpec` | a finished run counted each spin once, unless a chunk was cut short; a cancelled run returns what is saved; runs end |

Type correctness (`TypeOK`, `ExclTypeOK`, ...), `PoolWithinCeiling`,
`SequenceNamesState`, `SpinsKeepPolicy` and `BreakerCounts` are proved (section 4) for
any caller or host, and need no run of their own; `SettlementsAuthorised` and
`EffectsOnce`, which the runs check for the careful host, are proved for any.

`wallet_unreliable` deserves a word. The code cannot make the legs atomic, so
the property says what a caller may rely on. A result is *doubtful* if its
errorCode is one a call without an answer ends in, or if it carries a debit that
was neither committed nor rolled back. Any other result is the truth: committed
means charged and paid in full; anything else means nothing of the spin is in
the ledger, and no request that could change it is on its way. The property is
about the first call with a ref: a caller that uses a ref again can be told
"committed" on a debit that was reversed. What still
holds with retries is `WinsBacked`.

Documents, comments or tests and the code differ in places. The models follow the
code, and the properties state what holds of it:

- A spin retried under a ref that was rolled back is answered with the reversed debit's
  first result and ends committed without being charged, though `orchestrator.ts:51` and
  `docs/WALLET_PROVIDERS.md:166` promise that a ref charges once (`ResultTellsOutcome` is
  about the first call).
- One inactive tenant makes the request for the health of "every configured tenant"
  (`wallet-healthcheck.ts:4-5`) fail (`Resolve`).
- A start that cannot read the key file takes it for missing and draws a new key over it,
  though `hsm.ts:17` has the key stable across restarts (`ReadFails`, `unread`).
- `setRegulatorDecision` overwrites whatever was decided, and approves what has no package;
  `cert.ts:503-504` says it returns false if the submission is "already in a terminal
  state of the opposite kind" (`SetRegulatorDecision`).
- A GaaS spin wagers and records `Math.round(betAmount * 100)` and audits the raw
  `betAmount` (`gaas.ts:263`, 281-293). The bets on a chain need not add up to the session's
  total, by up to half a minor unit a spin, and may show the loss limit before the flag is
  up. `StoresAgree` and `LossStopsPlay` therefore read a GaaS bet as rounded.
- A sale is stamped when its insert begins (`marketplace-pg.ts:478`) and seen when it
  commits. The payouts of a month that has just ended can miss it, and nothing computes
  them again (`ClosedRowsCover` names these sales as `unseen`).
- A chunk that stops on the abort signal, as `cancel-resume.ts:125` asks, is saved as
  whole, and the resumed run finishes without its spins, though 27-29 promise that the
  operator resumes from exactly where he stopped (`ProcessChunk`, `Snapshot`, `cut`).
- A pause during the last chunk keeps the controller of a finished run from being marked
  (`cancel-resume.ts:69`; `Clear`).
- `commitJackpot` looks at the age before the status: a late commit turns a
  committed payment into a failed one, while `tests/p1_10_jackpot_coverage.test.ts:110`
  has commit on a committed payment throw. `retryJackpot` makes a committed
  payment pending (`SettlementsAuthorised` counts how often).
- `commitHit` writes the seed over the pool, which `crossGameWallet.ts:36-37`
  draws as a decrement: contributions committed since `beginHit` disappear, and
  two open hits pay one pool twice. Weights do not split a contribution: the
  heaviest tier gets it all (`Targets`).
- A debit that times out after it was booked is not rolled back, though
  `orchestrator.ts:218` calls the legs atomic. Re-saving a configuration does not
  change the secret in use (`docs/WALLET_PROVIDERS.md:205`), and a deactivated
  tenant goes on spinning through its cached instance (`ResolveError`).
- The policies of `sessions.ts` bind the session route alone: a GaaS spin passes
  expiry, pacing and loss limit (`GaasSpin`). A deposit in review is never completed.
- `self_exclusion_client.ts:126-127` says failing closed blocks "when every
  breaker is open"; `queryOne` reports `excluded: failClosed` for every tripped or
  failed call, so one unreachable registry blocks the player (`Blocks`). A hit
  does not short-circuit the query (153-155): it waits for all calls.
- `journal.ts:91-92` says the journal recovers its head and number. Restarted
  after a rotation it either starts anew at `ZERO_HASH` and 0 (no current file:
  `FilesChain`) or refuses its own file (`RefusedForCause`), so the "single
  monotonic sequence" of 156-159 holds for one process only.
- `routes/marketplace.ts:268` allocates a purchase id "so the JWT and the row id
  agree"; `recordPurchase` makes one of its own.
- `rate-limit.ts:19-21` speaks of a SETNX/INCR pattern; the Redis store reads and
  writes back, and concurrent requests spend one token together.
- Two concurrent appends to one audit chain in Postgres do not queue: the second
  has chosen the old head, and its insert fails on the unique key. The entry is lost
  unless its caller tries again (`ChainUnbroken` says that the chain stays whole).
  A deposit told to have failed may have committed, and its `ref` is not unique.
- `connection.ts:174` speaks of "exactly one shared pool"; two first calls at once
  each build one, and a query after `shutdown` builds another. Not modelled.
- In the parallel simulation, which is not modelled: the line win of a spin that triggers
  free spins is in the breakdown and in no total (`accumulator.ts:166-167`, 201), and the
  spin of the greatest win is numbered within its worker (`parallel.ts:67`), while
  `index.ts:230` prints it as one of the simulation.
- `runChunked` counts into `initialState` in place: a second run with the same
  options object starts from what the first left there. The model's runs have one each.

Bounds. Jackpot run: two tiers (one capped, one not), two payments, two
contributions, one retry, a timeout of one tick. Two payments are needed for two
reservations of one tier and for a sweep of both; with one tick, ages 0, 1 and 2
are before, at and after the timeout, where the sweep (`>=`) and the commit
(`>`) differ. Cross-game run: two games (one with weights, one without), two
tiers (one seeded, one not) and five state transitions: two begins and two
commits on one tier with a contribution between them, or a begin and commit on
each side of a restart. Wallet run: two spins of one tenant, since flows meet
only in the tenant's configuration and instance; one rotation; wins of 0 and 2.
`MaxTries` bounds the calls with each ref: two for the first spin and one for
the second, so that a retry runs beside a spin that is not retried and beside
late requests of its own first try. The run takes two to three minutes, most of
it for `FlowsEnd`.

Session run: one player with a paced, limited session and a free one, five
requests and two ticks; wins of 0 and 3 on a bet of 2 let a loss pass the limit and be
won back, GaaS bets of 0.4, 1.4 and 1.5 minor units round to none, down to 1 and up to
2, and amounts of 2 and 4 lie on both sides of the review threshold
of 3. Self-exclusion: two registries, so that one can be down while the other
answers, and two queries, so that a call of one lands after the breaker has moved
for the other; threshold 2 and one tick of recovery; failures and openedAt's age
are cut off where nothing tells larger values apart, so nothing else bounds the
run. Journal: a rotation every two pieces and six pieces: three files, with a
crash or a failure at any point of each. Marketplace: two requests, two items of
two authors, two charges, two rows, two periods, so that a sale of the first can commit
in the second beside a sum over the first; `MaxTimes` = 2 is once more
than should ever happen. Rate limit: four requests at a burst of two, thirds of a
token per tick, six ticks: enough for a bucket to empty, refill and expire. The
`rate_limit` and `marketplace` runs use symmetry: of the requests, and of the authors
together with their items; nothing orders either, and both check invariants only.

Postgres stores: two requests on two clients and three calls among one wallet, one chain
and one session; a starting balance of 3 with amounts of 2 makes a second wager too much
and a withdrawal declined, and the review threshold of 2 sends the others to review;
results of -2 (`MaxBet` is 2) and 1 against a loss limit of 2 let two spins decided together pass it, and
a third one come after. No symmetry, since `CallsEnd` is checked. Health checks: two
tenants, two requests and three changes of the operator or of a provider: a save, an
outage of either version and a deactivation fit in. Certification: three keys are one
before, one lost to a torn file and one after. Chunked runs: two spins in chunks of one,
and three calls, so that one may resume what two others left. The longest runs are
`wallet_unreliable`, `pg_stores` and `marketplace`, two to three minutes each with two workers.

All state spaces are explored in full. Deadlock is not checked: bounded callers
run out of calls and a finished spin or request stops.

## 4. Proofs

All proofs hold for every value of the constants that satisfies the modules'
assumptions. Every invariant and every action property of the runs is proved, and so
are the three refinements; what is left to TLC is liveness. The assumptions that
the sums need are that tiers, games, payments, callers and sessions are finitely many;
`PgStores` also assumes that some `MaxBet` bounds what a spin loses, and that players,
chains and sessions have different keys.

### Sums

`SumOver` of `Sums` is a fold over a finite set. A fold is recursive, and the provers
cannot instantiate an induction theorem; `SumFacts` makes the induction with a minimal
counterexample instead. `SumUnique`: a function that is 0 for the empty set and
grows by `f[x]` with every `x` is the sum, because the fold is such a function too,
and were the two different for some subset, they would be for one with no smaller such
subset (the proper subsets of a finite set are well-founded). For naturals the
number of pairs `<<x, i>>`, `i` up to `f[x]`, is such a function (`SumIsUnits`), and
for integers the pairs gained less the pairs lacking (`SumIsBalance`). The rest follows
from the library's facts about cardinalities: sums of equal terms, of a term more, of a
term changed, of two sets, of a subset.

### Jackpots and meters

`JackpotManagerProofs`: `TypeCorrect`; `SettlementsAreAuthorised` (the invariant
is inductive with the types: a settlement needs a pending payment, and only
begin and a counted retry make one); `PoolStaysWithinCeiling` (the ceiling is
the maximum of cap, seed and initial pool; resets and rollbacks stay under it
because every reserved amount does); `CarefulImplementsPayout` (step simulation,
with the types); `PayoutsAreFunded`. For the last, `Funded(t)` adds up the amounts
*claimed* of a tier, those of payments that were paid or may still be: with the pool they
never exceed what came in. A begin claims what it takes from the pool, a rollback or a
sweep puts back one amount that is claimed no longer, a forfeit only drops one. That
paid amounts are claimed once needs the careful caller (`Honest`: a payment's count
of commits is what its status says).

`CrossGameWalletProofs`: `TypeCorrect`; `IdsAreFresh` (with restarts from
current snapshots the sequence never falls); `SequenceIdentifiesState` (every
transition raises the sequence above the kept snapshot's; restart makes them
equal together with the state); `EffectsHappenOnce`; `CarefulImplementsMeter`; and
`MoneyIsConserved`. The last two need `MeterInv`: an open hit is for exactly what its
tier shows now and is the tier's only one (`HitsCurrent`), and open contributions are
legal amounts; then a commit is a step of the meter, restart from a current
snapshot changes no book, and each commit moves as much on both sides of `Conserved`.

### Spins over an operator's wallet

`WalletSpinFlowProofs`: `TypeCorrect`; `ResultIsTrue`; `WinsAreBacked`. `SpinInv` says,
for each leg a flow can await on its first call, what the ledger holds and which single
request can be on the wire, and that an answer on its way agrees with the
ledger. The property itself is not inductive: a flow in doubt may leave requests
behind, and the proof has to show that they are that flow's alone. `IInv`
therefore adds `RefOwned` (whatever the try, a request carries a ref of its own
spin, so retries of one spin leave the bookings of another alone) and
`CalledInv` (only an idle flow has not been called). Nothing is assumed about
how often refs are retried. `WinsAreBacked` is about every try, where `SpinInv`
says nothing: its invariant is that a request for a win is on the wire only after the
debit was booked (`LegsBacked`), and that what is booked is at least what the step of
a flow and the answer it is about to get imply (`FlowBacked`, `AnswerBacked`).

### Sessions, in memory and in Postgres

`SpinSessionProofs`: `TypeCorrect` (a wager is bounded by the balance, so no
balance is negative); `StatementsAddUp` (inductive: each request appends lines
that continue the last); `PolicyHolds`, which needs, for every session, that
`lastSpinAt` is no earlier than any spin of its chain, that nothing of the chain is in the
future, and that a chain with a close belongs to a closed session.
`StoresTellOneStory` and `LossesStopPlay` rest on `Tally`: a session's totals are the
sums over the spins of its chain (`Staked`: a GaaS bet rounded), their difference is the loss the whole chain shows,
and wherever the chain shows a loss of the limit or more, the flag is up. An entry
adds to the chain's sums what it is worth as a spin (`ChainGrows`) and leaves every
earlier loss as it was (`LossGrows`). A session that does not exist counts as one with
totals of 0, so that creating one moves no sum; `StatementTally` then follows spin by
spin from `StatementGrows` and `SpentGrows`.

`ServiceProofs`, for `PgStores`: one inductive invariant in layers, each used by the
next. `PgTypes` (what a call has read and is to write is of its table); `LockInv` (a row
is locked by one call at most, and a call that has read a wallet or a session holds
it); `ChainInv` (the entries of a chain are linked, an append that has chosen a head
either still has the last one or will fail on the unique key, and no two are about to
write one number): `ChainsUnbroken`. `WalletInv` (the lines replay the stored balance,
and a call that holds the row has read that balance and is to write it or the line
that comes next): `StatementsReplay`. `SessionInv`, the same for the session row and the
sum over the log: `SpinsCounted`. `OverInv` (while the limit is not reached the
loss is below it; once it is, there is room left for a stake of each spin under way, and
none starts): `OvershootIsBounded`. `AnswerInv` (a call has a number of its
own, which the log has only once the call has committed): `AnswersKept`.

### Services

`ServiceProofs`, for `SelfExclusion`: `BreakersCount` (a breaker is a counter of its own:
inductive whichever call settles when); `ExclusionTypeCorrect`; `GateImplemented`, under
`FailClosed`: a step simulation with the invariant that a call of a query to a
registry the player was on when asked cannot have ended in "not excluded".

For `RateLimit`: `BucketTypeCorrect` and the three invariants of the run. `Sound` says of
the stored bucket and of every bucket a request has read that tokens and charges are
within burst and refill, that nothing but charges is missing from it, and that it
knows every request that passed alone; a save that overlaps another may forget
charges, but only those of overlapped requests. `GoneSound` carries the budget over an
expiry, and is where `Capacity <= Rate * Ttl` is used.

For `HealthChecks`: `RecordsMatch`, with the types and where a sweep stands.

`MarketplaceProofs`: `TypeCorrect` and the four invariants of the run. `Valid` ties requests and rows to what
exists; `Charged`, `Refunded`, `Covered` and `PaidByRow` are each the property
with what every request under way has already done. `ClosedRowsCover` needs `LateUnseen`:
an insert that has begun in a period and not committed is known as unseen to every row of
the closed period and to every request that computes it; a later one is stamped with a
period that is not over. For payouts to authors:
unless somebody was careless, no sale is in two rows, the rows of a period being
computed are pending, and a sale that was paid for is in a paid row that still exists.

### Files, keys and runs

`FileProofs`, for `RecallJournal`: `JournalTypeCorrect` and the three invariants of the run, from one inductive invariant:
pieces of a file are consecutive and the current file is the last
(`FilesInOrder`), only the last piece can be incomplete while a journal is not
open (`LastIncomplete`), nothing incomplete is acknowledged, and the chain and
refusal properties themselves. `FilesChain` is inductive with what it says of an open
journal: it stands where its last piece left it, unless it opened anew just there.

For `CertKeys`: `LicencesStayValid` and `CompletionsHaveCause`. A ready server holds the
key that is on file, one that drew a key has not yet put it there (`KeyOnFile`), and
unless a start could not read the file, the key of a licence is on file and stays
there (`LicencesOnFile`).

For `ChunkedRun`: `FinishedCounted` (unless a chunk was cut short, the checkpoint counts
each of the spins it says are done once, and so does a call between two chunks: `SavedCounts`,
`RunCounts`) and `CancelledResumes` (as long as no two calls overlapped there is one under
way at most, and between two chunks it stands where the checkpoint does: `Apart`).

Model-checked only: the liveness properties `ReservationsEnd`, `FlowsEnd`,
`BreakerHeals`, `EveryQueryEnds`, `CallsEnd`, `DownIsNoticed` and `RunsEnd`; fairness
and `ENABLED` are beyond the prover.

## 5. Not modelled, and what comes next

- Canary, rollback and anomaly mitigation (`server/lib/deployment/`,
  `server/lib/anomaly-mitigation.ts`): constructed by tests only, and each operation
  runs to its end before the next. Read for differences all the same: the rollback
  engine writes its audit line and notifies even when the route swap failed, and the
  mitigation ignores its result.
- The RGS wallet is a mock of one map, and `withDeadline` a race whose loser is
  ignored; responsible-gaming sessions and the progressive pool are counters and
  arithmetic of one caller. Nothing interleaves there.
- The kernel pipeline of `cert-pipeline.ts` is a guarded table of transitions, each one
  synchronous update; the Postgres stores of certification, tenants and games write one
  row a statement.
- The marketplace's catalogue, reviews and cache; the response cache; the building of
  the Postgres pool and migrations.
- The parallel simulation (`parallel.ts`, `worker.ts`, `accumulator.ts`) and the `Piscina`
  pool: worker threads share nothing, one `Promise.all` joins them, and what they merge
  are sums, maxima and histograms.
- Playtech's session, and everything numeric or stateless: the engine, features
  and analytical code in TypeScript, Rust and Python, tools and front ends, which
  are most of the repository. Their correctness is a matter of probabilities and
  floating-point sums, where a model checker has nothing to say.

The modules at hand have no safety proof left to do. `PolicyHolds`, `PoolStaysWithinCeiling`
and `BreakersCount` are examples of what else could be stated and proved without a run.
