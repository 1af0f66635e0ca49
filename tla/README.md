# A TLA+ model of the options anomaly scanner

This directory specifies the stateful core of the backend (`backend/app`): the canonical
production scheduler, the archives and the pipeline it runs, the vendor client and the
advisory locks under them, the scan with its candidates, the research outcomes that are
measured on the candidates, and the confirmation chain of a selected contract. The
modules are checked with TLC on small instances; the type invariant, the safety invariants and
the action properties of all seven components, and that the scheduler implements its ledger, are
proved with TLAPS for every value of the constants. Liveness stays with TLC. Paths below are relative to `backend/app` unless they begin with another
directory of the repository; `PROJECT.json` maps each definition to the lines it stands for.

    tlc -config MCCanonicalSlots.cfg MCCanonicalSlots      # a run
    tlapm CanonicalSlots_proofs.tla                        # the proofs

## The system

A research tool watches options of seven tickers (MAG7). Every vendor request costs
quota, the vendor is slow and rate limited, and the evidence of a market date can be
collected only on that date. So the questions that matter are *was anything paid
twice*, *was anything collected without being recorded as what it is*, *does the scan of
the day rest on the evidence of that day*, and *is what was measured later measured from
what was known then*.

    Cloud Scheduler --HTTP, at least once--> scheduler --+--> daily pipeline
                                                         |      Daily OI archive
    CLI / workflow dispatch -----------------------------+      Radar, Activity
    dashboard ----------------------------------> scanner |--> Dealer/GEX archive
                                                    ^     |
                                                    +-----+--> readiness gate, vNext
                                                    |
                                                candidates --> baselines --> outcomes
                                                    |
    operator (CLI) ------------------------------> confirmation v1 -> v2 -> v3
                     everything --> Nightwatch client --> vendor
                     everything --> PostgreSQL (rows, advisory locks)

Components talk through database rows and calls. There is one process per Cloud Run
instance, whose requests share a pool of database connections, and any number of CLI
processes; they exclude one another with PostgreSQL advisory locks and unique constraints
only. The configured maximum (one instance, one request at a time, 1800 s,
`infra/gcp/main.tf:104-109`) makes races of scheduler deliveries those of overlapping
revisions and of a redelivery after a cut-off request. Only `DealerGexArchive` relies on the limit: its
`Begin` runs one invocation of a process at a time.

### Inventory

| Component | State | Operations | What makes it correct |
|---|---|---|---|
| **Canonical scheduler** `scheduler/` | slot row (unique on type and instant), attempt rows | claim, reuse, guard, run the slot's handler, complete, fail | one owner per slot; nobody else spends; only the owner's failure overrules a verdict; counters honest |
| **Daily OI archive** `scanner/archive.py` | run, ticker, expiry snapshot, contract rows; in memory: budget, polls, recovery queue | surface, chain poll, persist, deferred recovery, stop, finish | rows equal chains; COMPLETE means covered; contracts once; budget; explicit omissions; always ends |
| **Daily pipeline** `scanner/daily.py` | Radar and Activity runs, coverage rows per ticker and date | run a mode (all, Radar+OI, Activity), backfill, isolate subjobs | first writer of a date keeps it; status truthful |
| **Readiness and observation** `scanner/daily_observation.py` | none of its own; reads coverage, archive rows, scans; writes baselines | readiness, scan, baselines | gate fails closed; the scan has the day's own evidence |
| **Scanner** `scanner/v11.py`–`v13.py`, `service.py` | ScanRun and ticker rows, raw payload cache; in memory: request budget | discover, select, enrich, finalize | one scan at a time; nothing missing passes for quiet |
| **Candidate materialization** `candidate_persistence.py`, `candidate_projection.py` | candidate and trigger rows | project, persist with the terminal status | only evidence known by the recorded cutoff |
| **Selection, scoring, clusters, history** | none (pure) | rank, group, compare | order-independent, bounded |
| **Dealer/GEX archive** `dealer_archive/` | run, ticker, observation rows | reuse a finished run, collect, finish, read as of a time | a run is replayed, never paid again; the past is settled |
| **Nightwatch client** `nightwatch/client.py` | request counters | request, retry, validate, tell the observer | attempts bounded, and counted as they left |
| **Advisory locks** `db/session.py` | a lock on a pooled connection | try, unlock | mutual exclusion although sessions change connections |
| **Raw ingestion, usage audit** | raw payload and usage rows | store, account | deduplicated, append-only |
| **Capability metadata** | operations, versions | sync | content-addressed |
| **Confirmation v1/v2/v3** `confirmation/service.py`, `state_v2.py`, `workspace_v3.py` | contexts, evaluations, states, workspaces | refresh, build states, build workspaces | no stale reuse; one aligned chain |
| **vNext baselines** `confirmation/vnext.py` | baseline contexts | create, refresh | point in time; the first evaluated is the frozen one |
| **Stage 9 outcomes** `research/` | samples, measurements | materialize | no look-ahead, one primary per window |
| **OI-change rollover** `research/oi_change_rollover.py` | files | experiment | offline |
| **HTTP API, CLI** | none | start scans and collections, read | the entry points above |
| **Schema, frontend, infrastructure** | – | – | constraints used by the models; otherwise outside |

Behaviours that are hard to test and that the models are about: duplicate and racing
deliveries, an uncommitted INSERT blocking another, death of a process between two
commits, counters assigned in a session and lost in its rollback, a lock that a commit
gives away with its connection, or that goes with an idle connection, a database failure inside an exception handler, a budget
that runs out in each pass of a walk, a deferred request that changes what was already
counted, an attempt that left the client and was never counted, an exception after a verdict,
baselines committed in another order than evaluated, evidence captured while
a scan runs or committed after it, manual collections between the canonical ones, evidence of a
neighbouring day, executions of the materializer that overlap, refreshes that wait for
each other's inserts, copies of copies of a cached context. `PROJECT.json` lists each at its line.

## The modules

    CanonicalSlots ==implements==> SlotLedger
    DealerGexArchive --INSTANCE--> NightwatchClient, AdvisoryLock
    CandidateScan    --INSTANCE--> AdvisoryLock

The other modules stand side by side: each abstracts a neighbour to what that neighbour's
module shows of it, and says so in its header (`DailyEvidence` takes `CanonicalSlots` for slots
that run once and `DailyOiArchive` for what an archived ticker is; `ResearchOutcomes` takes
`CandidateScan` for candidates with a first knowledge).
Definitions named `...Unchecked`, `...Impatient` and the like, marked *Variant*, are not part of a
specification: each is a plausible mistake in one definition, kept beside it to show
that a property notices.

### `SlotLedger` – what the scheduler promises

Owners, verdict and spending of each slot, as the operator sees them: a slot is owned at
most once, only its owner spends, only an owned slot gets a verdict, once, and a verdict that has been
given can only be overruled by a failure.

### `CanonicalSlots` – the scheduler

A process is an HTTP delivery with its session. `slot` and `attempt` are committed rows,
`dirty` what the session has assigned and not committed, `usage` the requests of which the client has told its
observer, `work` (history) the requests really made. Actions follow `execute` and `claim_canonical_slot`:

| Code | Actions |
|---|---|
| `execute`: actual start against intended slot | `Receive` |
| `claim_canonical_slot`: INSERT and flush, commit, or `IntegrityError` and reuse | `FlushClaim`, `CommitClaim`, `ReuseExisting` |
| guards of the three handlers (market date, window, close, capture target) | `SkipByGuard` |
| a request that the client reports, and one broken by an error it does not catch | `VendorRequest`, `RequestBreaks` |
| Radar+OI pipeline (`PipelineMayEnd`: its status), Dealer/GEX archive | `CollectionReturns`, `DealerRunReused` |
| Activity pipeline, then the observation | `ActivityReturns`, `HoldNotReady`, `ScanStarts`, `ScanRefused`, `ObservationReturns` |
| `_complete` and `finish_attempt` | `Complete`, inside each of those |
| the answer to the delivery, or an exception once the verdict is committed | `Respond`, `RaisesAfterVerdict` |
| `except` branch: rollback, FAILED | `HandlerRaises`, `RecordFailure`, `FailureLost` |
| death of the process, deadline of the request | `Crash` |

`FlushClaim` has PostgreSQL's semantics of a unique index: the INSERT waits while another
transaction holds an uncommitted row of the same key. The scanner commits the shared
session, and with it counters the scheduler has only assigned: `ScanStarts` and
`ScanRefused` write `dirty` to the row. Which is why a failure during the scan reports
part of the requests and a failure during the collection reports none.

A request broken by an `httpx` error that is neither a timeout nor a network error gives no usage event
(`nightwatch/client.py:120`). The pipeline swallows it: it fails the subjob (the OI archive, Radar or Activity,
`scanner/daily.py:145-182`, `207-216`), which makes no further request, and leaves a COMPLETE
pipeline out of reach; in the scan and in the Dealer/GEX capture it reaches the `except` branch. An exception that
arrives once the verdict is committed (closing the client in the Activity handler, a commit whose
acknowledgement is lost) reaches that branch too and settles the slot again, as FAILED, with the
counters it had.

### `AdvisoryLock` – a lock that belongs to a connection

`pg_try_advisory_lock` through SQLAlchemy sessions: `lock` is the connection that holds
it and how often, `at` the connection each session has checked out. A commit or close is
`GiveBack`: the connection goes to the pool of its process *with* the lock, and
the session's next statement takes any idle connection (`CheckOut`). `Lock` re-enters on the holder's
own connection; `Unlock` on another one does nothing. `CloseConns` is the end of connections with their
process; `DropIdle` the loss of the connection that holds the lock while it lies idle in a pool:
`pool_pre_ping` (`db/session.py:15`) replaces it at its next use, and no session learns of it.
The module has operators only; its actions are conjuncts of those of the two users.

### `NightwatchClient` – one vendor call

`call` is a request in progress (attempts, answer), `wire` (history) what really left the
client. `AttemptAnswered` covers 200, 202, a retryable status and a refusal; `AttemptLost` a
timeout or network error; `AttemptBreaks` the `httpx` error that the client does not catch, which
leaves no usage event; `Observe` the event and then the result or `NightwatchError`.

### `DailyOiArchive` – one vendor OI date

Runs of `DailyOiArchiver` over the tickers, in the order of `UNIVERSE`, for a single date. `run`, `row`, `chain`,
`owner`, `content` are rows; `job` is the archiver's memory and is lost by `RunLost`.
Four passes: the surface of a ticker (`SurfaceFails`, `NoNewSurface`, `OpenTicker`), its
chains with HTTP 202 polls (`ChainMaterializing`, `ChainComplete`, `ChainIncomplete`,
`ChainUnavailable`, `ChainVendorError`, `NormalPassEnds`), the deferred recovery of 429 and
`INVALID_RESPONSE` (`RecoverySucceeds`, `RecoveryRefused`, `RecoveryVendorError`,
`RecoveryCapReached`), the end of the run (`FinishTicker`, `MarkUnattempted`,
`FinishRun`, `RunFails`). The budget is asked before each request and stops the run in each pass
differently (`SurfaceBudgetStop`, `ChainBudgetStop`, `RecoveryBudgetStop`). A request
costs 1 to `1 + MaxRetries` attempts (the retries of `NightwatchClient`, merged); consumed units
are merged with attempts. The reasons of an incomplete chain are collapsed to `DEFERRED` (given to recovery),
`REFUSED` (not), and the two unavailable ones, which are all the code's later decisions tell apart.

### `DealerGexArchive` – the Dealer/GEX archive

Invocations of the archiver by the scheduler and the command line, in different processes; `run`,
`reported`, `result`, `surfaces` are rows, `spent` the in-memory usage events, `severed` (history) the
invocations whose lock has gone with an idle connection while they captured.

| Code | Actions |
|---|---|
| session plan and first check for a finished run; lock; second check | `Begin`, `TryLock`, `OpenRun` |
| one ticker within the budget, the client's call, the usage observer | `SkipTicker`, `AskTicker`, `RequestAttempt`, `ObserveUsage` |
| store the answer, deduplicate an observation | `StoreAnswer` |
| status of the run; skip before the target | `FinishCapture`, `FinishSkipped` |
| `except` branch with a working database, and with a failed one | `CaptureRaises`, `DatabaseFails` |
| unlock in `finally`; death; end of the service's process | `ReleaseLock`, `Crash`, `Shutdown` |
| the locked connection, idle during a request, is dropped and replaced | `LoseIdleConn` |
| `best_archived_surface_at_or_before` | `AsOf` |

Time is counted in halves of market days: before the capture target, and from it on.
Normalization of a surface is abstracted to usable or not.

### `DailyEvidence` – the day

A market day after any other. The morning slot runs the pipeline in mode RADAR_OI, the
evening slot in mode ACTIVITY and then the observation; manual runs of each mode, the
Radar backfill (all under the `mag7_daily_v13` lock), the standalone
archive (its own lock) and manual scans happen beside them. Coverage remembers who wrote
it: `CANONICAL` or `MANUAL`. The gate compares the id of the canonical slot, which only a canonical run
carries. Of the day before only what it left matters: any subset of its tickers may be covered.

| Code | Actions |
|---|---|
| scheduler, CLI and workflow entry points | `StartRadarSlot`, `StartActivitySlot`, `StartManual`, `StartArchive`, `StartManualScan` |
| archive inside and outside the pipeline | `ArchiveTicker`, `ArchiveEnds`, `StandaloneTicker`, `StandaloneStops` |
| `_target_tickers`, Radar and Activity subjobs | `RadarTargets`, `RadarTicker`, `RadarEnds`, `ActivityTicker`, `ActivityEnds` |
| `load_daily_observation_readiness`, scan, baselines | `CheckReadiness`, `StartScan`, `ScanEnds`, `ObservationEnds`, `ObservationRaises` |
| errors and deaths | `PipelineRaises`, `PipelineLost`, `ObserverLost` |

Simplifications, all named in the module: the slots run at most once (that is
`CanonicalSlots`); the vendor has published the previous session's date by the morning; an
archived ticker is COMPLETE, PARTIAL or ERROR, which is what `DailyOiArchive` leaves of
it; no morning collection still runs when the session closes. The gate's
interim form for the trigger `scheduled` is not modelled, nor the
re-evaluation of legacy Radar observations; the locks of the collections are taken to exclude, here and in
`DailyOiArchive` (a session that commits while it holds one could lose it as in `DealerGexArchive`).

### `CandidateScan` – a scan and its candidates

Scans of the API share the pool of their process; others are processes of their own. `run`, `marker`
and `triggers` are rows, as are `contracts` and `radar`; `raw` the payloads within the cache's
cooldown; the rest is a scan's memory.

| Code | Actions |
|---|---|
| advisory lock; look for a RUNNING row, refusal; the row of its own | `TryLock`, `CheckRunning`, `OpenRun` |
| activity surface over the universe: cache, budget, answer, rows | `FetchCached`, `CoolDown`, `StopAtBudget`, `Ask`, `Answered`, `AnsweredWithError`, `ParseTicker` |
| dual selection with the deep limit, structure from the archive | `Select`, `ScanStructure` |
| completion status; projection and candidates as of `completed_at`, in one commit | `FinishShort`, `Finish`, `Materialize` |
| failure with and without a database, uncaught client error, unlock, end of the process | `ScanRaises`, `RequestBreaks`, `DatabaseFails`, `ReleaseLock`, `Shutdown` |
| the pipeline's Radar subjob, as scans see it | `RadarReceived`, `RadarCaptured`, `RadarCommitted`, `RadarRollsBack` |
| `latest_mag7_scan` | `RunState` |

The check and the row are two statements on one connection, and a scan goes on only while it is
connected. The lock may go with an idle connection at any time (`LoseIdleConn`): the RUNNING row, committed by
then, excludes the others. What makes a row *active*, an event *material* or a contract *persistent* are
floating-point scores: the model chooses. A ticker has at most one expiry, one contract and
one Radar event; the clock counts the cutoffs that scans have read.

### `ResearchOutcomes` – baselines and outcomes

Candidates of one ticker, what is known of them, and what is measured on them.

| Code | Actions |
|---|---|
| a scan commits its candidate | `MakeCandidate` |
| `create_baseline` under a configuration, in a transaction that commits, or is lost, later | `CreateBaseline`, `CommitBaseline`, `LoseBaseline` |
| daily OHLC payloads that requests receive, commit or lose | `ReceivePayload`, `CommitPayload`, `LosePayload` |
| the Dealer/GEX capture of a surface, from the reading of `captured_at` to its commit | `AskSurface`, `ReceiveSurface`, `LoseSurface` |
| price scale changes, recorded by hand | `RecordAction` |
| `materialize`: clock, candidates and baselines; payloads and actions; one commit | `Begin`, `ReadInputs`, `Commit`, `RollBack` |

`baselines` holds the rows in the order of their commits, `drafts` those evaluated and not committed.
`FrozenBaseline` is the row evaluated first, whenever it was committed, with the configuration in place of
the row's id as the tie. A baseline rests on a payload received by its cutoff and on the archived surface
asked for and observed by it (`Source`, `Surface`); the option chains it also reads are filtered by
the time of receipt, as the payload is. The materializer takes no lock. `Foundation` is the
immutable sample: baseline, reference close, first forward session. `Maturity` and `Proposal` are
the measurement of a horizon. Prices are abstracted to whether a usable close is known. A candidate, a
payload and an execution each use up an instant, so that no two of their times are equal; baselines
and surfaces may share one.

### `ResearchWorkspace` – the confirmation chain of a contract

| Code | Actions |
|---|---|
| `refresh_contracts`: a context that is fresh, copied from the latest one, or fetched endpoint by endpoint | `Begin`, `ChooseContext`, `EndpointAnswers`, `ContextFetched` |
| evaluations of the contracts, and one commit | `Evaluate`, `InsertResolved`, `Commit`, `RefreshFails` |
| v2 build; v3 build, in two statements | `BuildState`, `PickEvaluation`, `BuildWorkspace` |
| a deployment with another version of the context's specification | `Redeploy` |

As in `CanonicalSlots`, an insert waits for another transaction's uncommitted row of the same
key; two refreshes that wait for each other are a deadlock that the database breaks
by failing one. Evidence is reduced to its times; the rows of the v2 and v3 specifications
are those of one version; the archived surface a workspace shows is `DealerGexArchive`'s `AsOf`.

## The runs

| Run | Asks | Instance |
|---|---|---|
| `canonical_slots` | does an at-least-once delivery run a slot, spend and report at most once, implement the ledger, and come to an end? | an ACTIVITY_VNEXT slot (the handler with two stages) delivered twice, a DEALER_GEX slot once, a request each |
| `daily_oi_archive` | do rows, chains and contracts agree, whatever stops the run; does a replay leave the date alone; does the archiver end? | two tickers of two expiries and one, two runs, five attempts, one retry, two polls, one recovery |
| `daily_oi_archive_stop` | *violation*: does a finished run close its tickers? | one run, three attempts |
| `daily_evidence` | does the scan have its own evidence, with a manual run and deaths anywhere in the day? | a day after any day, two tickers, one manual run |
| `daily_evidence_full` | *violation*: is the archive under a scheduled scan complete? | the same |
| `daily_evidence_radar` | *violation*: does a COMPLETE Radar slot cover every ticker? | the same, no manual run |
| `dealer_gex_archive` | is a day captured by one process at a time (unless its lock was dropped) and paid once, reported as it left, and its past settled? | an invocation of the service's process and one of the command line, two tickers, one retry, two attempts and units, one day |
| `candidate_scan` | do scans that share connections exclude each other, and does a COMPLETE one lose nothing and foresee nothing? | two API scans with two connections, two tickers, one deep scan, three attempts |
| `candidate_scan_latest` | *violation*: does the reported run state agree with the persisted candidates? | the same, four attempts, no current archive |
| `research_outcomes` | is an outcome measured forward from what was known, once per window, and final? | two candidates, two executions, two payloads, one configuration, one split, a day and the next morning |
| `research_baselines` | does a baseline foresee nothing, and what makes an immutable sample conflict? | one candidate, two executions, two configurations, one payload, one surface, a day |
| `research_workspace` | is reused evidence fresh, the served chain aligned, and does every refresh end? | an earlier refresh and two more over four contracts of two tickers, two endpoints, one redeployment |

**Why the bounds are enough.** A slot needs two deliveries to have an owner, a
delivery that waits for the INSERT and one that finds the row, and another slot beside it
to show that slots do not mix; the proofs remove the bound. One request falls in the collection or in the scan,
is counted or broken, and its counter may be assigned, committed or lost.
In the archive, five attempts let the tickers finish, or run out before a surface, between
chains, in a poll and in recovery; the first ticker may use the one recovery of the run, and
the second then meets the cap. Two runs are a run and its replay.
In the day, two tickers are the least for partial coverage; of the day before, any subset; one
manual run is one writer who is not canonical, of any mode, at any moment. More manual runs
write with the same name and add no kind of writer.
The Dealer/GEX archive needs two processes, which must exclude each other; two attempts with one retry end the
budget after the first ticker or in the middle of the second. The limits are compared with sums, so their size
does not matter. That invocations of one process share its pool, and may re-enter a lock left there, is in the
module and in the proofs.
Two scans and two connections give every exchange of connections between a holder and another
request; three attempts end in the second ticker, between its endpoints; with the cache, a
second scan gets through. One Radar event can fall before, around and after a cutoff.
In the research instance a candidate known before the close shares its window with
another, one known after it depends on the proof of that close, and both closes, late or lost,
can be committed after a sample. Its first horizon can reach every maturity; the second ends after the
instance and shows one that stays open beside it. The baselines need one candidate and two configurations,
the least that commit in another order than they were evaluated in, and one surface and one payload, which can
fall on either side of the first knowledge or straddle it. In the workspace instance two
contracts of one ticker give crossing inserts, the third an older context, the fourth a
refresh over two tickers; one tick makes a context stale; two endpoints let the older one count.

Every passing run but two checks for deadlock; the ends of the bounded models are explicit
stuttering steps (`Terminating`, `AllRunsUsed`, `LastEvening`), enabled only when nothing is in
progress. In `ResearchOutcomes` the bounded clock may run out at any point,
so its runs do not check for deadlock.

Symmetry is used only where no liveness is checked: of the tickers in `daily_evidence`, of
the tickers in `dealer_gex_archive`, of the scans and their connections in
`candidate_scan`, of candidates and executions in `research_outcomes` and
`research_baselines`.

**Fairness.** `CanonicalSlots` is weakly fair in the steps of a received delivery, for
every await in it has a timeout and the database resolves the wait on an INSERT when the
other transaction ends. It is not fair in arrivals, in crashes, nor in failing to
record a failure; so liveness says "or the delivery died". A slot whose owner died stays
CLAIMED for ever: that is the code's choice (no second spending), and no property denies
it. `DailyOiArchive` is weakly fair in the archiver's own steps: requests time out, polls,
deferrals and recoveries are counted. `ResearchWorkspace` is weakly fair in the steps of each
refresh, for its requests have a timeout and no retry and the database looks for deadlocks; it is not
fair in commands being given. The other modules state no liveness: nothing obliges
a vendor to deliver a day, a scan left RUNNING waits for an operator, and a session
connection may always fail.

### Where the code and its documents differ

Four runs end in a counterexample on purpose, each to a sentence of a document:

1. **`FinishedRunClosesItsTickers`** – a budget that runs out between the normal
   pass and a recovery request leaves the ticker RUNNING in a finished run
   (`scanner/archive.py:475`). `OmissionsAreExplicit` says that it is the only way.
2. **`ScannedArchiveIsFull`** – the readiness gate accepts `NO_NEW_VENDOR_OI_SNAPSHOT`,
   which a ticker gets if *any* snapshot of the date exists
   (`scanner/archive.py:213`): an incomplete manual archive passes as complete.
3. **`RadarCompleteMeansCovered`** – the morning after a partial day, `_target_tickers`
   restricts Radar to yesterday's missing tickers (`scanner/daily.py:732`); they succeed,
   and the slot is COMPLETE with the others uncovered. The gate then holds the scan:
   `ScanHasOwnEvidence` is not affected.
4. **`RunStateIsTruthful`** – `latest_mag7_scan` (`api/routes/scans.py:328`) projects the
   candidates again instead of reading the persisted rows. A Radar event captured before the cutoff
   and committed after the scan turns `SUCCESS_NO_CANDIDATE` into
   `SUCCESS_WITH_CANDIDATES` without a candidate row, against the stage 5 package
   (`docs/evidence/NIGHTWATCH_VNEXT_STAGE5_PRODUCT_CANDIDATE_PERSISTENCE_CODEX_EXECUTION_PACKAGE_20260818.md:291-292`, `:319`).

Three more are limits that properties of passing runs name:

- A FAILED slot reports the requests whose counters were committed before the exception, which may be
  none (`scheduler/service.py:110`), though the migration report lists network attempts among the
  persisted facts. A slot settled without an exception reports all that the client counted, and
  that is all it made unless the status says that a subjob failed (`CountersMatchUsage`).
- The commit of the RUNNING row gives the locked connection back to the pool
  (`dealer_archive/service.py:194`), where it lies idle during each request. If the server drops it,
  `pool_pre_ping` replaces it in silence: the capture goes on without its lock, and another
  process may capture beside it, although
  `docs/evidence/PHASE2B_V31_DEALER_GEX_SCHEDULED_RUN_IDENTITY_RETRY_RECOVERY_20260815.md:78-81` calls the race
  closed. `OneCaptureAtATime` and `ConsumedSlotIsFree` except exactly these invocations.
- `captured_at` is read before the request (`dealer_archive/service.py:245`), so the filter by it
  (`dealer_archive/repository.py:225`) lets a surface asked for before a candidate's first knowledge and
  received after it into a baseline created later. What it shows was observed by the first knowledge:
  `BaselineHasNoLookAhead` promises that and no more.

## The proofs

`CanonicalSlots_proofs` proves, for all sets of slots and deliveries and any bound on
requests, from `SlotsAssumption` alone (types of the constants):

| Theorem | Statement |
|---|---|
| `Invariance` | `Spec => []IInv` |
| `CountersMatch` | `CountersMatchUsage` is invariant |
| `TypeCorrect`, `OneOwner`, `OnlyOwners`, `VisibleOwner` | `TypeOK`, `OneOwnerPerSlot`, `OnlyOwnersSpend`, `ConflictHasVisibleOwner` are invariant |
| `OverruledByOwner` | `Spec => OnlyItsOwnerOverrules` |
| `SchedulerImplementsLedger` | `Spec => ImplementsLedger` |

`OneOwnerPerSlot` is not inductive: it does not forbid two deliveries that have both
inserted and not committed. The inductive invariant `IInv` adds three things to
`TypeOK`:

- `PhaseInv`: what a delivery's phase says of its attempt and of its slot (a delivery in
  its handler has the OWNER attempt of a CLAIMED slot, one in conflict has a claimed
  slot, one before the claim has no attempt and no work, one that has given its verdict has a slot
  without an error), and that the client counts no more than was asked;
- `InsertInv`: an uncommitted INSERT is alone and its slot unclaimed – the unique
  constraint as a fact about states;
- `OwnerInv`: a slot has at most one owner, and a claimed one has an owner.

One lemma per kind of step (`CommitClaimInv`, `CompleteInv` for all that settle a slot,
`MoveInv` for those that only change the phase, ...) is combined in `StepInv`, and the
same case analysis maps each step to a step of the ledger. Deaths are ordinary steps: the
proofs cover every crash, and every exception after a verdict. `CountersMatchUsage` has a strengthening of its
own, `CountersInv`, proved on top of `IInv`: a delivery skipped by its timing has made no request, one
in the observing or scanning stage has had all of its requests counted (for a broken one would have failed the
Activity run, and the scan's own raises), and the counters of one in the observing stage, which are not
committed, are those.

`ResearchOutcomes_proofs` proves, for any candidates, executions, payloads, surfaces, configurations and
any calendar that `CalendarAssumption` admits (a previous and a next session for every day of
the model, a session that ends each horizon, weekends and holidays anywhere):

| Theorem | Statement |
|---|---|
| `Invariance`, `OrderInvariance` | `Spec => []IInv`, `Spec => []MoreInv` |
| `TypeCorrect`, `NoLookAhead`, `OutcomesAreForward`, `ConflictsAreLate`, `OnePrimary` | `TypeOK`, `BaselineHasNoLookAhead`, `OutcomeStartsAfterKnowledge`, `ConflictHasLateCause`, `OnePrimaryPerWindow` are invariant |
| `MaturityFinal` | `Spec => MaturityIsFinal` |

The lemma `PlanSpansKnowledge` is the heart of the second: whatever payloads are known,
the reference session of an instant has closed by it and its first forward session
has not. A sample is immutable while the rows it came from are not, so `IInv` says
what a sample keeps of them (`SampleInv` by way of `Kept`): its first forward session is a function of the
first knowledge alone, its reference one of two, and no row committed before its baseline precedes it. With
`BaselineInv` and `DraftInv` (evidence by the first knowledge, one row of a configuration, committed or not),
`RunInv` (an execution holds the baselines that were committed first), `CaptureInv`, `EvidenceInv` and
`ClockInv` it is inductive. `ConflictsAreLate` then leaves three reasons for an immutable sample to disagree with
its rows: its first baseline, a baseline evaluated before its own, or a deciding payload was committed after it.

`OnePrimaryPerWindow` and `MaturityIsFinal` compare executions that read at different times, so their
strengthening `MoreInv` is about order: readings of the clock are in the past and distinct
(`OrderInv`), samples are made in the order of first knowledge (`ClosedInv`), and a primary
measurement belongs to the first eligible sample of its window, a mature one to a horizon that has
closed for every execution which may still commit without being overtaken (`MeasuredInv`).

`DailyOiArchive_proofs` proves, for any universe, surfaces, runs, budget, retries, polls and
recoveries (`ArchiveAssumption`):

| Theorem | Statement |
|---|---|
| `Invariance` | `Spec => []IInv` |
| `TypeCorrect`, `BudgetIsRespected`, `RowsMatch`, `CompleteCovers`, `OmissionsExplicit` | `TypeOK`, `BudgetRespected`, `RowsMatchChains`, `CompleteMeansCovered`, `OmissionsAreExplicit` are invariant |
| `ReplayKeeps` | `Spec => ReplayNeverRewrites` |

None of the four invariants is inductive, for each is about rows that the archiver writes from what it
remembers. `IInv` ties the memory to the rows: `MemoryInv` (the expiries to request are the PENDING
chains of the ticker in progress, the incomplete and deferred ones those with such a status, and the
ticker is this run's), `PendingInv` (a ticker left behind has no PENDING chain unless the vendor
aborted it), `OwnerInv` (no chain without an owner), `WalkInv` (rows of the tickers ahead are empty, of
those behind settled, and only a budget stop leaves another) and `RunInv`. The counters need
that a set which gains or loses one expiry changes its cardinality by one (`Counting`).

`DealerGexArchive_proofs` proves, for any invocations, processes with pools of connections, tickers,
limits and days (`DealerAssumption`: two invocations share a pool or have no connection in common):

| Theorem | Statement |
|---|---|
| `Invariance` | `Spec => []IInv` |
| `TypeCorrect`, `CapturesNeverOverlap`, `ReusedRunBacked` | `TypeOK`, `OneCaptureAtATime`, `ReusedRunIsBacked` are invariant |
| `ConsumedSlotFree`, `ReportedAttempts`, `PastEvidenceSettled` | `ConsumedSlotIsFree`, `ReportedAttemptsAreReal`, `PastEvidenceIsSettled` |

A capturing invocation has given its locked connection back to the pool. So `ProcessInv` does not
say that it holds the lock, but that the lock stays in the pool of its process, which runs one
invocation at a time, unless the invocation is `severed` from it: the exception is the one that the properties
name, and a connected session cannot meet it. From this follows `SlotInv`: a slot that was found free under the lock stays
free during the capture, but for captures without the lock. `CallInv` relates what has left the client to the run's totals and the
call in progress, which is what the three outcomes of a request (usage event, none, broken) settle;
`ResultInv` relates results and rows.

`CandidateScan_proofs` proves, for any scans, processes, connections and universe
(`ScanAssumption`: the universe is a finite list, with the Radar tickers among it, and the scans are finitely many):

| Theorem | Statement |
|---|---|
| `Invariance` | `Spec => []IInv` |
| `TypeCorrect`, `ScansExclude`, `NothingFromTheFuture` | `TypeOK`, `OneScanAtATime`, `NoFutureEvidence` are invariant |
| `CompleteIsComplete` | `Spec => CompleteScanLosesNothing` |

Neither the lock nor the RUNNING row keeps scans apart alone, for the lock goes with its connection
when the row is committed. `OpeningInv` says what they do together: while a scan is connected between its
check and its row, no row is RUNNING, and at most one ever is; `ConnectionInv` that no two sessions share a
connection. `CursorInv` and `RowsInv` say that every ticker behind the cursor has a row or a flag
tells of it, which `Finish` turns into COMPLETE; `ClockInv` and `RadarInv` bound the clock by
the scans that have finished and order a Radar event's receipt before its capture.

`DailyEvidence_proofs` proves, for any universe and number of manual collections:

| Theorem | Statement |
|---|---|
| `Invariance` | `Spec => []IInv` |
| `TypeCorrect`, `ScanOwnEvidence`, `ObservedHasBaselines` | `TypeOK`, `ScanHasOwnEvidence`, `ObservedSlotHasBaselines` are invariant |
| `CoverageAppendOnly` | `Spec => CoverageIsAppendOnly` |

The gate and the scan are two steps. `GateInv` says that what the gate admitted is still
there; `CanonicalPipe` and `ObservationInv` say why: a canonical pipeline of the evening is over before
its observation begins, and the observation is as far as its scan and its slot.

`ResearchWorkspace_proofs` proves, for any refreshes, contracts, commands, endpoints and window
(`WorkspaceAssumption`; a command names the contracts of a ticker together, which is what
`refresh_contracts` groups them for):

| Theorem | Statement |
|---|---|
| `Invariance` | `Spec => []IInv` |
| `TypeCorrect`, `ReusedIsFresh`, `ServedChainAligned` | `TypeOK`, `ReusedEvidenceIsFresh`, `ServedChainIsAligned` are invariant |

A refresh that rolls back takes its contexts and evaluations with it, so the invariant is that nothing
kept rests on them: the context of an evaluation (`EvaluationInv`), and of a refresh that evaluates
(`JobInv`), is its own or a committed one, and as fresh as it was when it was reused. A
refresh writes one context of a ticker at most (`ContextInv`), since no context of its own is of a
ticker ahead of it (`JobInv`, with the lemma `WalkingOn` on grouped lists); the anchor of a context is its oldest endpoint
(`AnchorIsOldest`). `ChainInv` says that builds start from committed evaluations. The lemma
`RefreshStep` reduces each action to the part of the invariant that is about its own refresh.

Each inductive invariant was checked with TLC on the instance of its run before it was proved.

Model-checked and not proved: the liveness properties `OwnedSlotSettles`,
`WaitingDeliveryIsAnswered`, `ArchiverEnds` and `RefreshEnds`, which need fairness and ENABLED, out
of the prover's reach. Every other property of a passing run is a theorem. The four
violations are counterexamples, found by TLC.

## Not modelled

- *Pure computation* (scores, clusters, history windows, the readings of evidence that make v1
  evaluations, v2 states and v3 workspaces, the vNext context history, outcome returns): floating-point
  formulas and tables without state. The models choose among their results.
- *The pipeline's own budget, 0DTE snapshots and the re-evaluation of legacy Radar rows* in
  `scanner/daily.py`: not yet; the budget's effect, a ticker that fails, is in `DailyEvidence`.
- *Raw payloads and usage rows*: their commits are in the models where a property depends on
  them (`raw`, `pending`, `spent`); the idempotent insert by request id is not an action.
- *Capability metadata*: one transaction, read by the scan's preflight, whose failure is `ScanRaises`.
- *OI-change rollover experiment*: offline, writes files, no part of the product.
- *API reads, frontend, infrastructure*: no state of their own. `RunState` is the read whose
  answer depends on more than one row.

Hazards that no property covers, each with its reason in `PROJECT.json`: the vendor's date that rolls before a recovery request
(`scanner/archive.py:519`); a RUNNING row without a process, which needs an operator (`scanner/v11.py:80`); the bar of
a running session in an OHLC payload (`research/materialization.py:141`). Neither modelled nor listed
there: usage audited in a second commit (`cli.py:386`) and a chain read again after the fetch
(`confirmation/service.py:413`).

## Plan

1. Done: the modules above, their runs, and the proofs of their safety and action properties.
2. Prove next: that `DailyOiArchive` and `DealerGexArchive` implement abstract specifications, as
   `CanonicalSlots` implements `SlotLedger` (an archive of a date that is written once; a slot of a day
   that is paid once), and an invariant of `AdvisoryLock` that both its users share.
3. Model next: the pipeline's budget and 0DTE snapshots; states and workspaces of several
   specification versions; selection as operators against a reference definition.
