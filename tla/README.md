# Backtest execution: specification and proofs

This directory specifies the core of the repository in TLA+, in four groups:

* the PostgreSQL functions through which backtest workers, the recovery sweep
  and the object cleanup share one run. They are `SECURITY DEFINER` capabilities
  with hand-written row locks; a unit test runs them one after the other, and what
  can go wrong in them takes two or three connections in an order nobody wrote
  down. The models keep every lock, every clock reading and every statement
  snapshot of the functions as a step of its own;
* the Python oracle that re-executes a backtest to check its result. It is
  sequential; what is hard to test in it are long runs of bars, partial fills and
  decisions whose effects meet many steps later;
* the scripts that fill a developer's library and object store, which may be
  interrupted anywhere, are run again, and overlap with users, with each other
  and with the pipeline;
* the release proof, which submits a batch of backtests and makes a receipt of
  what it reads of them, query by query, while workers are at work.

Paths below are relative to the repository; the migrations named by their number
are in `src/db/flyway-ci-bundle/`.

## 1. Inventory of the system

The repository is a monorepo whose four services (backend, backtest engine,
pipeline, UI) are submodules and are not part of it. What it holds itself is the
database (schema, triggers, capabilities), the Python integration oracle that
re-executes backtests, the contracts, and the scripts and infrastructure that
deploy it all.

| Component | State | Operations | Interacts with | What is hard | What makes it correct |
|---|---|---|---|---|---|
| Run attempts (`V20260902000002`) | `backtest.runs`, `backtest.run_attempts` | claim, heartbeat, close, recover | workers, sweep, cancellation command | clocks read before lock waits, fencing, replays, cancellation against publication, a sweep without the run's lock | one holder, outcomes final, live leases respected, no success after cancellation, every holder released in the end |
| Backtest objects (`V20260902000000`, `…0001`, `…0003`) | `storage.objects`, `storage.backtest_object_ownerships`, the provider's bytes | register, transition, reissue, prepare cleanup, remove bytes | attempts (claims, successors), every table that references an object | bytes go before the row does; references, holds and successors that arrive meanwhile; tokens that outlive their owner | nothing wanted is deleted, only kin deletes, references resolve, published results keep their bytes |
| Storage reference guard (`V20260902000001`:231-262, 606-654) | catalog | event trigger, table locks with NOWAIT retries | migrations, cleanup | a table that starts to reference objects during a cleanup | cleanup sees every reference there is |
| Execution oracle (`src/scripts/integration/backtest_actual_run_oracle.py`) | orders, reservations, lots, cash, gates | bar processing, expiry, admission, fills | reads the inputs of a finished run, compares its outputs | reservations against fills at other prices, shared bar capacity, FIFO costs with rounding | cash and positions never go negative, limits hold, book and ledger agree |
| Oracle, flows and conditions | clocks, trigger facts | pins, clock of a flow, conditions, reconstruction of facts from fills | plans of the compiler, stored fills | clocks of several partitions, facts that outlive a position, lookups around a boundary | every flow has its own clock, facts agree, nothing later is seen |
| Manifests (`…oracle.py`:379-480, 2474-2500) | `market_data.dataset_manifests`, pins | publish, request, verify | pipeline, backend | publications between a request and its verification | the pinned cover is the one the oracle finds, as long as nothing it pins is retired |
| Trading ledger assertions (`V1`:1885-2566) | fills, allocations, reservations, lots | deferred constraint triggers | backend, projections | checks that read without locks, at commit | no overfill, totals agree |
| Account lifecycle, retention, quarantine (`V1`:1136-1556) | accounts, event chain, holds, obligations, quarantines | lifecycle commands, activation guards | every table with an owner | activation against deactivation, holds against release | one chain per account, the projection is its head, no activity on an inactive account |
| Erasure (`V1`:951-1240) | bots, runs | delete proven private bots, anonymise owners | lifecycle | evidence that appears late | only unreferenced bots are deleted |
| RBAC and operator bootstrap (`V1`:1587-1836) | catalog versions, roles, assignments | activate, assign, bootstrap | operators | a snapshot that is edited while it is activated | an active catalog never changes |
| Case events (`V1`:1850-1878) | cases, events | append | case evidence objects | two appends at once | one chain, the projection is its head |
| Outbox, rooms, leaderboards, manifests (`V1`:1030-1130, 1558, 1629-1731) | their rows | row triggers | services | little: each checks one row | envelopes are immutable, handoffs match |
| Local samples (`src/scripts/local/sample_backtest_strategies.py`) | the account's strategies | look up, create, configure under a lease, release, copy | backend API, users | interruption between any two calls, lost leases, users of the same names | nothing twice, running it again ends well, users' strategies untouched |
| Local market objects (`materialize-local-strategy-features.py`, `seed-basic-strategy-e2e.py`) | object versions, `storage.objects` | prune, locate, rewrite, bind, seed | object store, pipeline | puts happen at once and rows at commit; scripts overlap | a row names a version that is there |
| Release proof (`release_proof_runner.py`, `actual_data_*.py`) | receipt, audit | submit, replay, collect, write | HTTP API, lane, database | lost answers, reads at different times, a crash while writing | a receipt is whole and true of its runs |
| Grants, reconciliation, deployment, Terraform, workflows, validators | none of their own | | | | |

`PROJECT.json` lists every component with its files, its status and the reason,
and every hazard at its line with the properties that catch it.

## 2. Modules

### BacktestAttempts, and its abstract specification AttemptLedger

`BacktestAttempts` models the four functions of `V20260902000002`.

| State | Code |
|---|---|
| `runStatus[r]`, `cancelRequestedAt[r]` | `backtest.runs.status`, `.cancellation_requested_at` |
| `attempts[r]` | the rows of `backtest.run_attempts` by `attempt_number`: status, failure reason, `claim_expires_at` |
| `runLock[r]` | who holds the run row (`FOR UPDATE`) |
| `call[s]` | the function call a connection is inside: its arguments, its stage, and the clock reading `v_now` it took first |
| `told` | the outcomes that close calls have reported to their workers |
| `clock` | the database clock |

| Action | Code |
|---|---|
| `ClaimBegin`, `ClaimLock`, `ClaimGrant`, `ClaimDecline` | `claim_run_attempt`: clock and checks, run row, fence and insert, or no row |
| `HeartbeatBegin`, `HeartbeatCommit` | `heartbeat_run_attempt`: one update by claim token |
| `CloseBegin`, `CloseLock`, `PublicationOpen`, `PublicationClose`, `CloseApply`, `CloseReplay` | `close_run_attempt`, on its own or inside a publication that already holds the run row; the replay answers a call whose first answer was lost |
| `RecoverBegin`, `RecoverCommit` | `recover_expired_run_attempt`: the snapshot of its `EXISTS`, then the row update |
| `RequestCancellation`, `Abort`, `Tick` | the backend's cancellation command, a rollback or lost connection, time |

`AttemptLedger` says what the four promise together, in four atomic actions: an
attempt is granted, renewed, ended, or the run is cancelled. `BacktestAttempts`
implements it under the mapping `entries <- ` the attempts without their
leases, `deadline <- ` the newest lease, `cancelled <- ` whether cancellation
was requested (`ImplementsLedger`).

Abstractions. A claim token is the attempt's number: both are unique and a new
token exists exactly when a new attempt does. Columns that only record
(completed_at, heartbeat times, worker names) are left out, and so are rows
written before the claim columns existed. Failure reasons are those the
functions tell apart: lease expiry and retry release, which may be retried,
cancellation, and all others.

### BacktestObjects

`BacktestObjects` models the capabilities of `V20260902000003` with the
implementations of `V20260902000001` they call.

| State | Code |
|---|---|
| `rows[o]` | `storage.objects` (status, hold) and `storage.backtest_object_ownerships` (owner, token) |
| `bytes[o]` | the exact provider version |
| `referenced`, `results` | objects some committed row references; those the run's result consists of |
| `issued`, `known` | cleanup tokens generated, and the newest each connection was given |
| `attempts` | the run's attempts, atomic here, with whether the lease is live |
| `tx[s]` | the open transaction of a connection: operation, stage, candidates. Uncommitted writes are kept here, invisible to others; the row locks held follow from it |

| Action | Code |
|---|---|
| `RegisterBegin`, `RegisterInsert`, `RegisterCommit` | `register_backtest_object`, `INSERT … ON CONFLICT`, the ownership capture trigger |
| `TransitionBegin`, `TransitionUpdate` | `transition_backtest_object`: read, then update |
| `ReissueBegin`, `ReissueLockCaller`, `ReissueCommit` | `reissue_backtest_object_cleanup`: gate, caller's attempt row, adoption |
| `CleanupBegin`, `CleanupLock`, `CleanupDelete`, `RemoveBytes`, `CleanupCommit` | `prepare_backtest_object_cleanup` and the deletion its caller does before it commits |
| `PublishBegin`, `PublishReference`, `PublishCommit` | the terminal publication and its manifest rows |
| `ReferBegin`, `ReferCommit` | every other reference, with an immediate or a deferred foreign key (`case_evidence_object_fk`) |
| `SetHold`, `Abort`, `Upload`, `Claim`, `Renew`, `LeaseRunsOut`, `EndAttempt` | holds, rollbacks, uploads, and the attempts of the run |

Abstractions. `FAILED` is a failure that may be retried, `CANCELLED` every
outcome that may not. Lease and retention expiry are steps, since the functions
compare them with the clock as they read the row. An object is one exact version
under the run's prefix. The table locks of the cleanup appear as the exclusion
of cleanups among each other through the run row. A publication verifies the
bytes it references, which `src/contracts/data/backtest-execution.v1.md:122-126`
asks of the worker.

### ExecutionBook

`ExecutionBook` models the execution half of `independent_execution_oracle`.

| State | Code |
|---|---|
| `now`, `due`, `admits` | `instant`, the bars of `current_events` still to process, whether candidates are evaluated (no gap) |
| `bar` | the state of `process_bar`: capacity left, the quantity before, the order reached |
| `orders` | `orders`, with status, remaining quantity and reservations |
| `lots`, `quantity`, `cost`, `cash`, `opened` | `lots`, `quantities`, `costs`, `cash`, `opened_cycles` |
| `ledger` | the legs `append_ledger` writes, summed by account |

| Action | Code |
|---|---|
| `NextInstant` | the loop's next instant, with missing bars and the gap rule of `exact_stage_allowed` |
| `StartBar`, `PassOver`, `FillBuy`, `FillSell`, `FinishBar` | `process_bar`: expiry, capacity, one step per eligible order |
| `Submit` | sizing, order creation and `reserve_or_reject` |

Abstractions. Money is counted in quanta, so `money()` rounds (half to even)
only after a rate or a quotient. Prices, capacities and sizes are any the small
sets allow; a size is at most what the sizing could ask for. Bars of one length
that end together may be processed in any order; the code takes them by
instrument id. The last bar of a session ends with the session, however much of
its length is left.

### ExecutionGates

`ExecutionGates` models `_ExpectedExecutionGate` and the part of the loop that
drops, asks and updates gates.

| State | Code |
|---|---|
| `terminal`, `lengths` | what each flow's terminal says; the lengths of the bars each instrument has |
| `now`, `evaluated` | the loop's instant, and the last that was no gap |
| `cycle` | `opened_cycles`: the start of the bar that opened a position |
| `working` | the orders an instrument has open, with side and instant |
| `identity`, `gates`, `todo` | `position_gate_identities`, the gates, and those this instant has still to ask |
| `log`, `blind`, `unnoticed` | history: the evaluations since the cycle began, whether one of them found the position without a bar, and whether the cycle looked like the one before when it began |

`Instant` is an instant with bars, up to the evaluations, `Skip` a gap or an
instant without bars; `NotTrue`, `Gated` and `Attempt` are the three ways an
evaluation ends. Properties speak of the history, never of the gate's own
counters. What a condition evaluates to is open, and fills are any that an open
order and a bar which began after it allow (`Fills`). An instrument may have bars
of several lengths, any of which fills; a bar may be missing where the gap rule
lets the instant pass (`MayLack`), so that an instrument may be without a bar at
an instant that is evaluated. A cycle is named by the start of the bar that
opened it, as in the code, and a longer bar that ends with a shorter one may
give a position the name of the one which the shorter bar closed
(`CyclesAfter`).

### PlanClocks and SampleCorpus

`SampleCorpus` holds the strategies of `sample_backtest_strategies.py` as data:
conditions, cards and samples. `PlanClocks` models which clock each flow of a
compiled plan gets. `plan` is its set of flows, `pins` the instruments and
resolutions of the pinned manifests; a plan grows flow by flow (`AddFlow`) or is
one of the corpus, and pins are added one by one (`Pin`). The operators are
`require_exact_manifest_pairs` (`Candidates`, `Clear`, `Required`, `Accepted`)
and `exact_flow_resolution` (`FlowClocks`).

### TriggerReplay

| State | Code |
|---|---|
| `close`, `bars` | the market: one instrument with 30m bars and one long bar a session, some missing |
| `position`, `fills` | the position after each fill, `fill_states` |
| `track`, `lastDay` | `tracked_cycle`, `peak_price`, `holding_bars`; `last_schedule_date` |
| `facts` | what `independent_execution_oracle` saw at each instant |
| `rebuilt` | the same from `build_trigger_contexts`, as far as it has come |

`Instant` is one turn of the main loop up to the conditions, `Rebuild` one of
`build_trigger_contexts`, which starts when the replay is over. `Outcome` is
what a condition comes to, with its warm-up and missing inputs. The conditions
are the corpus's except those on volume, MACD and Bollinger bands; RSI values
are stood in for by the closes of their bars, since only which bar a value is
taken from matters here. Bars of either length fill, those that end together the
shorter first, and a cycle is named by the start of the bar that opened it.

### ManifestPins

`manifests` are those of one instrument and resolution, `runs` the requests with
their pins. `Publish` adds a revision and may retire those before it of the same
days (`SUPERSEDED`); it may become visible later than the instant it names, also
after a request of that instant was answered (`Late`). `Request` pins the cover
of its period, `Verifies` is what `reconcile` asks later; `seen` is history, what
the request had to choose from. `Cover` is `minimum_manifest_cover`: all paths of
manifests that meet end to end, ranked by number, revisions, availability, days
outside and ids. The backend pins with an algorithm of its own, of which only the
result is known; it is taken to be the same cover.

### SampleSeeding

| State | Code |
|---|---|
| `strategies` | the account's library: name, whether the description is the sample's, kind, document, edit sequence, edit lease |
| `pc`, `todo`, `library`, `candidates`, `configured`, `current`, `resumable` | where `seed_samples` is and what it has read |
| `target`, `copying`, `sequence` | the strategy `configure` works on, and the edit sequence read |
| `receipts` | the draft each sample was prepared as, which the script returns |
| `created`, `written`, `releases`, `marked`, `touched` | history: what the script created, saved or released, and released; what ever looked like a sample's; what users changed since the run began |

`Start` to `CreateCopy` are the calls of `LocalSampleApi`, one action each, since
the process may die between any two. `Crash`, `SaveFails`, `LeaseRunsOut`,
`LeaseLost`, `UserSaves`, `UserReleases`, `UserCreates` are the world. The API is
modelled from what the client sends and reads: a save needs the lease and the
current edit sequence, a release the validated one, and a page of the library
comes in any order. The script goes by what it can read: a draft is resumed if it
carries the sample's key, or if it is empty and has the sample's name and
description (`IsLeftover`), whoever made it. Users create strategies under any
name and description, save documents with or without a sample's key, and release.
Nothing in the model says whose a strategy is; the histories above do, and no
action of the script reads them.

### MarketObjects

| State | Code |
|---|---|
| `objects` | every version in the store, delete markers too; `body` and `sealed` are its hash and its metadata |
| `rows` | bucket and version in `storage.objects` by key |
| `pc`, `referenced`, `orphaned`, `sources`, `todo`, `found`, `pending` | the materialiser, with its uncommitted updates |
| `seeding`, `upserts` | the seeder, with its own |
| `output` | an output the pipeline has put and not yet recorded |
| `together` | whether scripts and pipeline overlap in this behaviour at all |

`Start`, `List`, `Delete`, `Locate`, `Rewrite`, `Bind`, `Commit` are the
materialiser; `SeedStart`, `SeedFixture`, `SeedCommit` the seeder;
`PipelinePut`, `PipelineRecord` the pipeline. Puts are visible at once, row
writes at commit, and a row written by one script makes the other wait. `Init`
ranges over what a restored baseline may leave of a source: in either bucket,
with the right or other bytes, sealed or not, named by its row or not.
`SeedFixture` goes by the hash in the metadata alone, as `_put_versioned` does;
under a fixture's key nothing is ever put unencrypted, so that this comes to the
same as `sealed`.

### ReleaseProof

| State | Code |
|---|---|
| `runs`, `clock`, `edition` | `backtest.runs` by idempotency key, and the data a request would pin |
| `batch`, `submitter`, `created` | `submit_schedule` with its seed |
| `collector`, `seed`, `rows`, `evidence` | `collect`: what it has read so far |
| `temporary`, `receipt`, `audit` | the files |

`Submit`, `LoseAnswer`, `Replay`, `NewBatch`, `SameBatch` submit; `Claim`,
`Finish`, `WorkerDies`, `Publish` are the lane and the data, external;
`ReadRows`, `ReadAttempts`, `Reconcile`, `CheckEvidence` each read what is
committed when they run; `Write`, `Replace`, `WriteAudit`, `CollectorEnds` are
`write_sanitized_receipt` and the audit, with a crash inside the writes.

### Proof modules

`BacktestAttempts_proofs` (the invariant of rows and calls, the action properties,
the refinement); `BacktestObjects_proofs` (what the locks of the object
capabilities protect; owners and tokens); `ExecutionBook_proofs` (lots, cash,
exposure and reservations); `ExecutionGates_proofs` (the limit and the waits of a
flow in a position cycle); `StrategyFlows_proofs` (the clocks of accepted runs,
and what conditions see in a replay); `MarketData_proofs` (that runs are
verifiable while their pins stand, covers are smallest tilings, and rows keep
naming what is there); `SampleSeeding_proofs` (that a script run again and again
does everything once); `ReleaseProof_proofs` (that a receipt is true and stays
so).

## 3. Runs

Each module's type invariant and its plainer properties are conjuncts of one
invariant (`AttemptsInvariant`, `ObjectsInvariant`, `BookInvariant`, and so on);
the properties that say most are checked by name.

| Run | Question | Instance |
|---|---|---|
| `attempts` | Do the rows stay consistent and are outcomes decided once, whatever two connections do? | 1 run, 2 connections, leases of 1 and 2, 2 attempts, clock to 3, every kind of close and recovery |
| `attempts_live` | Is a run that a silent worker holds released in the end, and is every commit a step of the abstract ledger? | 2 connections, 2 attempts, fair sweep, clock to 2 |
| `objects` | Does what the cleanup checked stay true until the bytes are gone and it commits, and do interrupted cleanups of several candidates spare results? | 2 objects, 2 connections, 3 attempts, 2 tokens, every operation; `OneOrFresh` lets the second object come into play in the first attempt only, and holds are placed before the third |
| `book` | Do cash, limits, lots and ledger hold, and do orders end with their session, when orders fill in parts and at other prices, also across instruments? | 2 instruments, bars of 1 and of 3 slots, the latter cut at the close, 2 sessions of 2 slots, 3 orders of up to 2 shares, 2 prices; `ThirdOfOneInstrument`: a third order, and bars beside it, only where all are of one instrument |
| `book_cycle` | Does every held position have a cycle? (violated) | 1 instrument, bars of 1 slot |
| `gates` | Does a flow attempt when it is due, and only then? | 1 instrument with bars of one length or of both, any of them missing where the gap rule allows; every mode and wait, interval 2, maximum 2 or 3, orders of other flows on both sides, 3 sessions of 2 instants |
| `clocks` | Do accepted pins give every flow its own clock? | plans of up to 3 flows over 2 partitions, 2 instruments, 2 clocks, and the whole corpus; every set of named pins |
| `triggers` | Are the facts of a condition those of its own position and day, are they rebuilt from the fills, and does nothing later count? | 2 sessions of 2 bars and a long one, the last short bar of the second missing or not, 3 prices, 3 fills, flows of the corpus |
| `pins` | Does the oracle find, at any later time, the cover that was pinned, as long as its pins stand, and is it the smallest and newest? | 3 manifests over 3 days, each retiring its predecessors or not, at any instant up to the next; 1 request |
| `seeding` | Does a script that is interrupted and run again prepare every sample once? | 2 samples, 6 strategies, 3 faults, 1 act of a user; the account starts empty, with an older release, with a user's strategy, or with a user's empty draft described as the sample |
| `market` | Do rows keep naming versions that exist, and are all readable in the end? | 2 sources, 1 output, 2 buckets, ids up to 14, 2 crashes, every restored state |
| `proof` | Is every receipt whole and true, and is there one in the end? | 3 batches of 3 requests, 1 fault, 2 editions of the data |

Why the bounds are enough. No function touches two runs, so one run shows
everything about a run. Two connections are what every guard is about (a caller
and whoever overtakes it). Two attempts give a holder and its successor; three
a grandparent, which the direct-successor rule of the cleanup must refuse. A
clock of three ticks lets a lease be granted, expire and be seen late. Two
tokens give an old and a new one. Connections and objects are interchangeable
in the models, so symmetry is sound; the runs that check liveness do not use
it. `CHECK_DEADLOCK FALSE` is set where the clock and other counters are
bounded and the system really runs out of steps. No run says anything about
cycles of waits: a call that waits may always abort, as with a lock timeout.

A second object matters to a cleanup of several candidates, whose bytes go one by
one; adoption and transition treat objects separately. In the book, two prices
four quanta apart with rates of an eighth make fills dearer than reservations and
let fees round; cash of 60 against commitments of 10 to 15 a share makes every cap
bind. Three orders are a buy, a sell and whatever comes between them; two
instruments meet only in cash and gross exposure, for which an order each is
enough. Two sessions show an order meeting the bars of the next. Gates of
different flows do not touch each other, so one flow is followed and the orders of
the others are left open (`OtherSides`); nor do those of different instruments, of
which the model keeps whether they have a bar (`OtherLengths`). Three prices are
the least with a rise, a fall and a return; a window of three bars shows a cross
and the bar before. Three manifests can tile three days one by one, overlap, and
replace one another. Ids up to 14, two for the restored sources and twelve for
versions, let every source be rewritten, seeded and pruned after two crashes; one
more batch than there are faults and changes of the data leaves one that nothing
disturbs.

`MaxAttempts`, `MaxTime`, `MaxTokens`, `Calls`, `MaxOrders`, `MaxQuantity`,
`Sessions`, `MaxFlows`, `MaxFills`, `Window`, `Ids`, `Days`, `MaxRuns`,
`MaxStrategies`, `MaxFaults`, `MaxEdits`, `MaxVersions`, `MaxCrashes`,
`MaxBatch`, `MaxEdition` and the two state constraints named above are the only
bounds. The constants are guards of the actions that would exceed them.

## 4. Known divergences

Places where the code does something else than a document, comment or test of
the repository says. The first is a run; the others were found with the models
and can be seen again as described.

* `book_cycle` (oracle:1921; `src/docs/backtest-semantic-integrity-audit.md:34-36`).
  `process_bar` takes a BUY for an opening only if nothing was held before the
  bar. If a SELL of the same bar closes the position first, the BUY reopens it
  without a cycle, and the loop stops with a `KeyError` at line 2083. The same
  inputs given to the Python function stop it there.
* A re-entry may reuse an opening instant (oracle:1922; audit:36, "A later
  re-entry has a new opening instant."). Cycles are told apart by the start of
  the bar that opened them, and a longer bar that ends with a shorter one started
  earlier: an order left over in part can reopen, from the longer bar, the
  position that the shorter one closed, with the instant the closed cycle had.
  Peak, holding bars and gates of the old cycle live on. The models do this, and
  the properties except it by name: `DueIsAttempted` a cycle that began
  `unnoticed`, `PeakAndHoldingAreOwn` the `Resumptions`. Without the exception
  each is violated in its run.
* Gates are dropped where an instrument has no bar (oracle:2177; audit:37-38,
  `1회만`). A position is only observed at an instant at which its instrument has
  a bar; beside one with shorter bars, or where a bar is missing, its gates are
  dropped, and the flow attempts again in the same cycle. `WithinLimit` and
  `WaitsAreKept` speak of cycles that were seen throughout; without `~blind` both
  are violated in `gates`.
* A late close publishes (`…0002`:187;
  `src/contracts/data/backtest-execution.v1.md:95-96`, "Only the current
  unexpired claim token may publish …"). `close_run_attempt` reads the clock in
  its DECLARE section and then waits for the run and the attempt row; a close
  that waits while its lease runs out commits all the same. Require of
  `CloseApply` that the lease is later than `clock` to see it. `SingleHolder`,
  `TerminalIsFinal` and the refinement still hold: a close can only be late
  while no successor exists.
* Shared clocks (oracle:898; audit:21, "Each partition keeps its own
  resolution"). Where two partitions trade one instrument at two resolutions,
  the pins are accepted and a position-only flow of one of them finds two clocks
  and stops the run. `AcceptedResolves` without its hypothesis `Separate` fails.
* Schedule inputs are not rebuilt where a gap suppresses the first instant of a
  day (oracle:1371-1372; its docstring at 1280, "Rebuild schedule … inputs at
  each replay instant."): the replay's day stays new until it is evaluated, the
  reconstruction's does not. `PositionsAgree` extended to `schedule` at evaluated
  instants fails.
* Superseded pins (oracle:2483;
  `src/docs/infrastructure/historical-market-data-loader-implementation-spec.md:1274`
  has a new revision set the one before to `SUPERSEDED`;
  `src/db/data-model-decisions.md:396` lets runs keep their locked manifests). The
  oracle looks only at what is `AVAILABLE` now and rejects such a run.
  `VerifiesWhilePinsStand` says that this is what happens and all that can: a run
  is accepted if and only if none of its pins is retired. That every run verifies
  is violated in `pins`.
* A library larger than a page (sample_backtest_strategies:1116; its docstring at
  963, "Idempotently create and release the stable samples"). A `PageLimit`
  below the size of the library violates `ReleasedOnce`.
* A user's empty draft is taken over (sample_backtest_strategies:1022-1025; the
  refusal at 1034-1036, which is for drafts the script does not know). An empty
  draft with a sample's name and description is resumed, configured and released,
  whoever created it. `OthersUntouched` says what the test does give: a strategy
  that never looked like a sample's is left alone. `written \subseteq created` is
  violated in `seeding`.
* A user's save is overwritten (sample_backtest_strategies:1148; the refusal at
  1034-1036). The draft is chosen by a document read before the edit lease is
  taken, and the edit sequence is read after: a save in between is replaced. Nor
  is a name looked up again: a draft is created beside a strategy that a user
  created under the name after the page was read, which `OneDraft` excepts.
* The prune deletes an output that is being recorded (materialise:119;
  `src/scripts/local/tests/test_local_feature_materialization.py:84`, "A
  referenced immutable result must never be pruned"). The rows are read before
  the bucket is listed. `ReferencedKept` without `~together` fails.
* A sealed copy in another bucket (materialise:187;
  `src/scripts/sql/rebind-local-object-versions.sql:15`): the row is given the
  configured bucket with that copy's version. `SealedAway = TRUE` violates
  `PreparedSources`.

Smaller observations, not modelled as divergences: a manifest that becomes
visible later than the instant it names counts among the candidates of a request
that could not see it (oracle:2484), and the run may be rejected for it
(`VerifiesWhilePinsStand` without its hypothesis on `Late` is violated in `pins`);
a submission whose answer was
lost can never be completed with the same seed, only with a new one; the
collector does not check that replay and conflict were tried; a crash between
receipt and audit leaves an audit of an older batch or none, and one during the
receipt a temporary file; `pinned_pairs` of the oracle are the pairs that have
bars, not the pairs of the pins.

## 5. Fairness

`attempts_live` assumes fairness of three things: the clock
runs on up to its bound (`WF` of `Tick`); a call that was begun commits or aborts
(each function runs in one transaction with a lock timeout); and the recovery
sweep, a scheduled job of the backend, keeps coming back while an expired attempt
exists. The sweep and its commit are strongly fair, since other calls may disable
them for a while. Workers are assumed to do nothing at all: there is no fairness
on claims, heartbeats or closes. The models of the Python loop have no liveness
property: the loop ends with its input.

`seeding`: a script takes its next step, a failed run is started again by whoever
wants the samples, and the lease of a process that is gone runs out
(`LeaseRunsOut`). `market`: each script goes on once it runs, and the restore,
which waits for the materialiser to report "prepared", starts it again; strong
fairness of `Start`, because seeder and pipeline may keep it waiting for a while.
`proof`: submitter, lane and collector go on, the collector is run again, and a
fresh seed is tried when the old one cannot be proved; strong fairness of
`NewBatch`, because retrying the old seed disables it for a while. Faults are
never fair: they are bounded, and what must happen happens after the last.

## 6. Proofs

For every set of runs, connections, lease lengths, close requests and bounds:

* `BacktestAttempts_proofs` shows `AttemptsInvariant`, the conjunction of
  `TypeOK`, four invariants of the rows (`SingleHolder`,
  `OnlyRetriesAreSucceeded`, `RunFollowsAttempts`, `ToldIsStored`) and two of
  the calls under way. The row invariants are not inductive alone: a claim
  decides under the run row's lock on what it read before, so the induction
  needs that the lock belongs to whoever is between lock and commit
  (`LocksOK`) and that what a call in that stage has read still holds
  (`CallsOK`). The sweep has no lock; what makes it safe is that it writes only
  an expired RUNNING row, whose run its snapshot still describes.
* From it follow the action properties `TerminalIsFinal`, `LiveLeaseIsRespected`,
  `NoSuccessAfterCancellation` and `EndedRunIsLeftAlone`, and that every behaviour
  of `BacktestAttempts` is one of `AttemptLedger`, one lemma per action.

For every set of objects and connections, any calls, attempts and tokens:

* `BacktestObjects_proofs` shows `ObjectsInvariant` (with it `CleanerIsNewest`
  and `ReferencesResolve`), `DeletedIsUnwanted` and `ResultsAgree`. None is
  inductive: each speaks of a transaction between two of its steps, so the
  induction carries the lock discipline (`LocksInv`: one holder of the run row,
  one writer of an object row, whoever holds the run row or its own attempt row
  is the newest attempt, only the newest attempt runs) and what the holders rely
  on (`RowsInv`: a row being inserted is absent, what a publication is about to
  reference is there). The `Strides` lemma reduces the steps of a session to a
  handful of forms, each with the condition under which it is taken.
* Of owners and tokens it shows `DeletedByKin`, `OwnershipMovesForward` and
  `StatusAdvances`. Cleanup and reissue read the gate on kinship before they
  lock anything, and the object may change hands, or be deleted and registered
  again, in between. `CleanupIsNear` says why that is harmless for a deletion: an
  owner that changed took a token the cleanup does not know. `ReissueIsNear` says
  why for an adoption: who came to own the object, or is still inserting it, is
  no older than the caller, and the caller is the newest attempt when it commits.

For every plan, flow and bar stream:

* `ExecutionGates_proofs` shows `WithinLimit`, `WaitsAreKept` and
  `DueIsAttempted` for every set of flows, terminals, instruments and bar lengths,
  whatever bars are missing, and any number of sessions. The invariant relates
  what is observed to the cycle: nothing, or the cycle's name, and the name unless
  some evaluation was `blind` (`CyclesAreObserved`). Hence no reset comes within a
  cycle that is seen, and the code's count of executions is at least the number of
  attempts in it; where the beginning of the cycle did not go `unnoticed`, there
  was a reset then, and the count is at most that number (`CountsAgree`). That a
  cycle which turns gets a name of its own, or else is `unnoticed`, takes that a
  bar which ends at an instant began before it (`StartsBefore`, `CyclesTurn`). For
  the waits, `WaitsInvariant` adds that a gate remembers of its last attempt what
  the history says, where either bound lets it: how many evaluations there were
  since, whether one of them failed, and the session it was in (`GatesRemember`).
  Then a gate accepts exactly what is due and within the limit (`GateIsWait`), and
  both action properties follow.

* `StrategyFlows_proofs` shows of `PlanClocks` `AcceptedResolves`,
  `NoForeignClock` and `PlansInvariant` for every plan and every set of pins. The
  first holds of each state by itself: the pins are the required pairs, and two
  flows of one partition that trade an instrument have the same clock in question
  (`SameClock`). The second needs the invariant that every flow trades something
  (`FlowsTrade`). For the third, the strategies of the corpus are shown card by
  card to name one clock for each section and instrument (`Clocked`), and whatever
  does that is accepted (`ClockedIsAccepted`).
* Of `TriggerReplay` it shows all four invariants of the run: `PositionsAgree`,
  `PeakAndHoldingAreOwn`, `NoHindsight` and `ReplayInvariant`, for any number of
  sessions and fills, any prices, missing bars, windows and flows. The replay keeps
  only the present position and its track, while the reconstruction needs those of
  every past instant; `FactsInv` therefore says how they follow from what is
  stored: the position from the fills up to the instant (`HeldAt`), the track from
  the facts noted there (`TrackAt`), and the facts of an instant from those of the
  one before (`FactsFollow`). Each turn of `Rebuild` then repeats a turn of
  `Instant` (`RebuiltFollows`). A new day is new once because the last day seen is
  the latest of an evaluated instant (`LastDayIsSeen`). A peak belongs to the
  newest opening that is not a resumption (`Begun`): there the track begins anew,
  because the position before it had another cycle or the track was dropped
  (`BegunIs`), and from then on nothing but closes and bars enters it
  (`PeakIsOfBegun`). A cross is an event because the averages that
  one bar leaves are those the next finds (`ClosesMoveOn`, `SumMovesOn`), which
  takes that the closes shown are the newest (`NewestMovesOn`).

* `MarketData_proofs` shows `VerifiesWhilePinsStand` for any manifests, periods,
  retirements and instants of publication. What a run saw is in the catalog still,
  as it was or retired (`PinnedWhatItSaw`), so that without a `Late` manifest the
  candidates of its request have only become fewer. A cover that is among fewer
  candidates is their cover too, since it is the best path of both
  (`FewerCandidatesSameCover`); and as a cover names only candidates
  (`CoverIsOfCandidates`), one that names a retired manifest is that of no
  candidates there are.
* That the cover is the right one is `CoversInvariant`, proved for every catalog,
  retired revisions or not (`CoversAreRight`). What `minimum_manifest_cover` follows is
  paths; what a run needs is a set of manifests with every day in exactly one. A
  path is such a set (`PathsTile`), and such a set lies on a path
  (`TilingsArePaths`: the longest path begun in it cannot stop short of the end),
  so that no smaller tiling is missed. The ranking with its five criteria is a
  strict total order on the paths of a period (`RankingIsTotal`,
  `RankingIsTransitive`), of which there are finitely many, so exactly one is best
  (`OnePathIsBest`) and the cover does not depend on the order in which manifests
  are read. A newer revision in the place of one of its manifests would make a path
  that ranks before it (`NewerRanksFirst`). The inductive invariant is only that ids
  stay unique and every manifest has a day, which a publication keeps even when it
  retires what it replaces (`PublishKeeps`).

For every set of instruments, bar lengths, sessions, prices, rates, limits and
orders:

* `ExecutionBook_proofs` shows `BookAgrees` and `FillsInItsSession`, and, where
  the buffer covers the rounding of a fee, `BookInvariant` (with it `Solvent`,
  `SellsAreCovered` and `WithinExposure`) and `FillsSpareReservations`. The
  inductive invariant is `BookInv`. A fill is within its session only because an
  order expires at the close of the session it becomes eligible in
  (`InSession`) and a bar that fills began before every open order expires
  (`BarIsOpen`). That the lots hold what an order sells follows from
  `SellsAreCovered`, for which an open order must reserve exactly what is left of
  it (`SellsReserve`); only then does FIFO consumption end with the order and not
  with the lots (`ConsumedKeeps`), so that proceeds, cost and profit balance in
  the ledger. Rounding is half-even throughout: the proofs use that it is
  monotone and at most half a quantum off, so that a cost split over lots adds up
  again and fees of parts may exceed the fee of the whole (`FeeOfMany`).
* `BufferCoversRounding` bounds that excess. Reservations take the fee once, fills
  take it each time, and what pays for the difference is the buying-power buffer.
  With the code's quantum of 10^-8 and buffer of 0.01 % it does for every price of
  0.0001 and more (oracle:37, 45); below, rounding may cost more than the buffer,
  and neither `Solvent` nor `FillsSpareReservations` is claimed. `BookAgrees` and
  `FillsInItsSession` need no such condition.

For every list of sources, outputs, fixtures and buckets, any number of versions
and crashes, and every state of the restored baseline:

* `MarketData_proofs` shows `MarketInvariant` whatever overlaps, and, where no
  sealed copy lies outside the configured bucket (`~SealedAway`), `KeepsResolving`
  and `PreparedSources`. Nothing locks the store, and a row is written long after
  the version it will name was found: `StoreInv` says that what a script holds
  between the two is there still (`FoundFits`, `UpsertsAreSealed`, `OutputIsPut`),
  as a versioned bucket loses nothing and an id is never given twice
  (`IdsAreOwn`). The prune goes by the rows it read and the keys it listed
  (`PruneIsRight`); it deletes by key, so that a row of another writer keeps its
  version but loses its place as the latest. `RowsInv` adds that every row, and every
  row about to be written, names a version which exists (or, as restored, none of
this store). `Locate` compares the id
  of a copy with the row's and not the buckets; `LocatedIsNamed` shows that this
  is enough, since ids are not shared between buckets.

For every list of samples, page and library size, and any faults and users:

* `SampleSeeding_proofs` shows `DoneIsPrepared` and `OthersUntouched`, and, where
  a page shows the whole library (`WholeLibraryIsListed`), `SeedingInvariant` (with
  it `ReleasedOnce` and `OneDraft`). The script acts on what it listed a while
  ago, under other users' steps: `WorkInv` says that what was listed still exists,
  and is of the kind it had unless a user has touched it (`ListedStay`), that the
  draft it resumes and the one it works on have the sample's name and have looked
  like it (`ChoiceIsMarked`, `TargetIsMarked`), that it holds no lease but that
  one's (`OneLease`), and that a sample struck off the list is prepared
  (`StruckArePrepared`). `OthersUntouched` follows: what the script writes is its
  target. `OnceInv` adds that whatever the script released or created of a sample
  still to come is in the listing (`OursAreListed`); that is what fails in a library
  larger than a page (section 4), hence the hypothesis.

For every schedule, any number of batches, faults and editions of the data:

* `ReleaseProof_proofs` shows `ReceiptIsProof`, `ProvedIsFresh` and
  `ProofInvariant`. Nothing locks the runs while the collector reads them; what
  makes its pieces fit is that a run which has ended is never touched again
  (`RunsGoForward`), so a row read as ended still is the run (`RowsAreRuns`) and
  attempts and evidence read later are of the same result (`RowsAccepted`,
  `EvidenceIsOfRows`). The order of the runs comes from the submitter, which sends
  a request only when all before it were answered as created (`KeysInOrder`,
  `SubmitterInOrder`).

Every inductive invariant was checked with TLC on the instance of its run before
it was proved.

The proofs assume only the named assumptions on the constants in the modules they
extend (TLC evaluates them in the runs), that the terminals of the gates are well
formed (`TerminalsAreTyped`), `~SealedAway` in `RowsKeepResolving` and
`PreparedIsSealed`, `WholeLibraryIsListed` in `SeedsOnce`, and
`BufferCoversRounding` in `BookIsSound` and `ReservationsAreSpared`. Each of these
hypotheses is met by the instance of its run, and section 4 or the paragraph above
says what fails without it.

Model-checked only: every liveness property (liveness under fairness is beyond
the prover) and the violated line.
Where a proof needs an induction over data after all (sums over a window, the
least of a set, the n-th newest bar), it argues from a least counterexample
(`LeastOf`, `SumsExist`, `NewestExists`), since a theorem with an operator as a
parameter cannot be used.

## 7. Not modelled

Services whose source is not here are modelled as callers that may do whatever
the grants allow. Static declarations (grants, Terraform, workflows, compose
files), read-only queries and text validators have no behaviour to check.
Migrations other than those above are data definitions. Of the modelled scripts
the formulas of volume, MACD, Bollinger and RSI, metrics, the row-by-row
comparison with a persisted run, the persisted warning's text, the scan of the
receipt for secrets and all formats are left out: they are arithmetic or text
with one outcome for one input. The lifecycle of accounts, the trading ledger's
deferred checks, the RBAC catalog and the case events are enforced by triggers
against writers whose source is not here; what those writers lock, and in which
order, decides whether the triggers suffice, so a model of them would test a
guess. They are on the plan for when the backend is at hand.

## 8. Plan

1. With the backend's source: `TradingFills` (two transactions under deferred
   checks), `AccountLifecycle` (chain, projection head, activation guards, holds,
   quarantine), `CaseEvents` and `RbacCatalog`.
2. `CleanupLocking`: the reference guard, NOWAIT retries and the nested
   connection of a publication; an abstract lock that `BacktestObjects` uses.
3. The comparison with the persisted run, as a relation between the book's
   history and the stored rows.
