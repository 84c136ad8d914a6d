# Verification of Quant Home

TLA+ models of Quant Home, a self-hosted service that downloads Binance candles, backtests three
strategies and runs them as paper-trading sessions. The models are translated from the Python code
in `src/src/quant_home/` (cited below without that prefix) and, for the browser's side of a session,
from `src/frontend/src/api/client.ts`. TLC checks small instances of them; TLAPS proves their
invariants, and the refinements as far as they are about safety, for every value of the constants.
`PROJECT.json` maps each definition to the lines it models.

Contents: 1 inventory, 2 modules, 3 runs, 4 proofs, 5 what is not covered, 6 plan.

## 1. Inventory

One FastAPI process serves everything. Coroutines (background jobs, the paper supervisor) share one
event loop; endpoints written as plain functions run on worker threads; all of them share a
PostgreSQL database at READ COMMITTED. A thread or task has a database session of its own, and
sessions keep loaded attributes after a commit (`db.py:25`), so a value read before a commit of
somebody else stays in use. Containers restart by themselves (`compose.yaml`, `unless-stopped`).

| component | state | operations | what is hard | correct means |
|---|---|---|---|---|
| **Background jobs** `jobs/` | rows (status, progress, cancel flag, error); tasks; a semaphore | submit, stage, checkpoint, cancel, settle, interrupt after restart | cancel requests from threads at any moment; three ways out of the semaphore; death between two commits; calls that raise | slots are conserved, transitions legal, settled rows frozen, results whole, every job settles |
| **Backtest job** `backtest/service.py`, `repository.py` | result rows | download, validate, run, save | result and status are committed separately | a completed job has exactly one complete result |
| **Backtest engine** `backtest/engine.py`, `execution.py`, `ledger.py` | ledger, values kept per strategy, the batch of orders | per symbol and candle: fill what is due, decide, ask for orders | rounded quotients, orders dropped for want of cash, state that outlives a holding | never short of cash or inventory, stops and cooldowns hold whatever was filled |
| **Strategies** `strategies/` | pure functions of candles and kept values | trend, mean reversion, grid | order of rules; stage, peak and cooldown bookkeeping across fills | as above |
| **Analysis** `backtest/analysis.py` | none | replay fills into a profit statement | rounding of partial sales | agrees with the ledger |
| **Paper trading** `paper/` | sessions, processed candles, snapshots, connection state | start, stop, stop all, poll, process, checkpoint | stop while a checkpoint is under way; death between strategies of one candle; a symbol that keeps failing | every strategy gets each candle once and in order; stopped stays stopped |
| **Candle store** `market/repository.py`, `validation.py`, `binance_client.py` | datasets and their candles | ensure a range, refresh, delete | requests interleave between SELECT, download and COMMIT; gaps, duplicates, pages, retries | a valid dataset is complete; an answer spans its range |
| Symbol catalogue `market/catalog.py` | one tuple | refresh, search | nothing: one assignment | - |
| **Configurations** `configurations/`, `api/configurations.py` | configurations and their versions | create, update, clone, import, delete, list; copies by jobs and paper sessions | requests interleave between SELECT and COMMIT; deletion under a reader; an audit record in a transaction of its own | an update is built on the current version or refused; copies stay what they were; a backtest is not repeated unasked |
| **Authentication** `auth/`, `api/auth.py` | sessions, CSRF tokens | log in, out, refresh the token | a request that is past its check when its session ends; tokens taken away by another tab | an ended session stays ended; no call is sent in vain for ever |
| Audit `audit/` | an append-only table | record | written after the audited commit, in a commit of its own | tells of what happened only, and leaves out only what was cut off between the two commits |
| Risk limits `backtest/risk.py`, metrics `backtest/metrics.py` | none | pure functions | used by tests only | - |
| Application shell `main.py` | the process | start-up recovery, shutdown | order of recovery and first requests | part of jobs and paper trading |
| **Web interface** `src/frontend/` | cookies shared by all tabs, a call per tab | one request helper with a CSRF retry | a retry of a call already done; answers that overtake each other | a change is committed once |
| Migrations, backup scripts | - | - | - | - |

Interactions: a *backtest job* is a program run by the *job runner*; it asks the *candle store* for
every symbol, hands the candles to the *engine*, which calls a *strategy* per candle and applies its
orders to a *ledger*; the *supervisor* fetches candles through the same client and calls the same
strategies, execution model and ledger one candle at a time. `mark_interrupted_jobs` and the
supervisor are started by the lifespan in `main.py`.

`PROJECT.json` lists the hazards line by line with the properties that would catch each one. Those
without a property say why.

## 2. Modules

```
JobLifecycle    <= refined by =   JobRunner       MCJobs            JobRunnerProofs
PaperDelivery   <= refined by =   PaperTrading    MCPaper           PaperTradingProofs
Ledger, Analysis, Strategies  ->  BacktestEngine                    BacktestEngineProofs
BacktestEngine                ->  PaperStrategy   MCEngine          PaperStrategyProofs
                                  CandleStore     MCCandles         CandleStoreProofs
VersionHistory  <= refined by =   Configurations  MCConfigurations  ConfigurationsProofs
                                  WebSessions     MCSessions        WebSessionsProofs
DataLemmas: facts about numbers, finite sets and sums that several proofs cite
```

Definitions called *faulty variants* in the modules are not part of any specification: each is a
plausible mistake in the definition that follows it, and putting it in that definition's place
makes TLC refute the property listed with it under `mutants`.

**JobRunner** - `jobs/runner.py`, `jobs/repository.py`, `api/jobs.py` and the program of
`BacktestJobSpec.run`. Rows are `status`, `progress`, `error`, `cancelRequested` and `runs` (the
number of stored results); the process is `up`, a program counter `pc` per task, the symbol `unit`,
`loop` (the task that holds the event loop), the semaphore's `slots` and its queue `waiters`. A task
keeps the loop until it awaits, which it does at the semaphore and at the end of a checkpoint.
Cancel requests, crashes and failing database calls fall between any two database calls. `Crash`
loses the process, `Restart` is `mark_interrupted_jobs` in a new one. `late` counts units of work
done after a cancel request was accepted.

**JobLifecycle** - what an administrator sees who only looks at the rows: queued, active, settled
once; a completed job published its result; only a requested cancellation cancels; a restart
interrupts everything alive; a live job settles.

**PaperTrading** - `paper/supervisor.py`, `runtime.py`, `repository.py`, `service.py`. A poll cycle
is a sequence of steps over sessions, feeds, candles and strategies, with one commit per strategy
(`Commit`); stop requests (`ReadStop`, `WriteStop`) on worker threads read rows first and write them
later. A ledger and its window of candles are abstracted to the sequence of candles they were
computed from, which is what tells a lost, repeated or reordered candle apart.

**PaperDelivery** - the promise: every stream receives closed candles one by one, none twice, none
left out, until the session is stopped; one update under way may land after the stop.

**Ledger**, **Strategies**, **Analysis** - pure operators. Quantities and prices are integers in
their smallest unit; ratios are integers over `One`; money is in 1/`One` of quantity times price;
every quotient is rounded half to even (`RoundDiv`), as `Decimal` does. `Ledger` has `Fillable`
(`ExecutionModel.fill`), `Accepts` and `Apply` (`Ledger.apply`); `Strategies` has the exits, entries
and kept values of the three strategies; `Analysis` replays fills as `analyze_ledger`. What moving
averages, RSI and Bollinger bands say is a free Boolean once there are candles enough for them; the
grid's levels are computed. Geometric spacing is left out, and `recalculate` behaves as the code
does, like `stop_entries`.

**BacktestEngine** - `BacktestEngine.run` for one strategy: `OpenSymbol`, `Decide`, `Execute` and
`Drop` (an order is filled or refused), `Raise`, `NextCandle`, `SymbolDone`. The passes of the three
strategies share nothing but the configuration, so one behaviour is one pass, and the strategy, the
universe, slippage and capital are chosen in `Init`. Prices are chosen as the series is read, so a
check covers every series over the set of candles.

**PaperStrategy** - `PaperRuntime._process_strategy` beside the engine: both read the same candles,
the engine as one pass over the series, the session one event at a time from the fills and values
its checkpoint kept (`paper`). As the runtime calls the engine's own functions, `Processed` uses the
engine's operators (`Prepared`, `FillAt`, `AfterFill`), which take the ledger and the kept values as
arguments. `Settled` is its loop over the orders, `Window` the number of candles a session keeps. An
event whose orders raise keeps nothing, comes again and raises again. The session follows universes
of one symbol; with several symbols the engine plays them one after the other and the two differ
anyway (see `FundedInTime`).

**CandleStore** - `CandleRepository.ensure_range` and `delete_unused`, the pages and retries of
`BinancePublicClient`, `validate_candles`, and the two callers (refresh endpoint, backtest). One
symbol and interval. Every SELECT, page and COMMIT is a step of a request; `task[w]` holds the local
variables. A candle's prices are abstracted to *final*, *forming* (read before it closed) or
*malformed*. `stored` marks candles read back from `NUMERIC(38, 18)`: they print with other digits,
so the same candle has two fingerprints. A page that is wrong (row missing, repeated, unordered,
inconsistent) is `GlitchPage`. The missing ranges, a list in the code, are a set of which the
earliest is taken first (`First`, `Onward`); what validation looks for in a sequence of downloaded
rows is `Issueless`, what it looks for in the candles by time is `Gapless`. `force_refresh` has no caller and is left out. In `JobRunner` and
`PaperTrading` a download is one step that succeeds or raises.

**Configurations** - `configurations/`, `create_run` of `backtest/service.py`, `start` of
`paper/service.py`, `audit/service.py` and the endpoints that call them. `configurations`,
`versions`, `jobs`, `sessions` and `trail` are the tables, `task[w]` the local variables of the
request on a worker thread, `lost` what a request that was cut off between its two commits would have
recorded (bookkeeping for `TrailTellsTrue`); every SELECT and every COMMIT is a step, a statement may fail (`Fail`),
the process may die (`Crash`). `create_backtest` is a coroutine that does not await between its first
query and the insertion of the job, so submissions exclude each other (`OnLoop`) but not the threads.
Names and payloads are model values; a payload stands for everything a version holds but its name.

**VersionHistory** - what configurations promise: per configuration a history of versions that only
grows at its end, one atomic step per change; names in use are distinct.

**WebSessions** - `auth/service.py`, `api/auth.py` and `request()` of `client.ts`. `sessions` is the
table, `jar` the cookies all tabs share, `call[t]` a tab's call with what is on its way: preparing the
header, sending, the server's check, the handler and the arrival of the answer are steps, so requests
and answers of several tabs overtake each other, get lost, or meet a session that has ended. "change"
stands for every POST, PUT or DELETE other than logging in or out; its handler may fail before or
after its commit. `raced`, `refused` and `committed` are bookkeeping for the properties. A token is
never drawn twice while somebody has it, which stands for `secrets.token_urlsafe(32)`. The tokens a
tab keeps in memory and in `sessionStorage` are only read when there is no CSRF cookie, and then
never match, so they are left out.

## 3. Runs

Every module has one type invariant (`TypeOK`), checked by its passing run. Bounds are constants and
named in the modules.

| run | instance | shows |
|---|---|---|
| `jobs` | 3 jobs, 2 slots, 2 symbols, 1 crash, 1 failing call | `SlotsConserved`, `ResultsAreWhole`, `TransitionsAccepted`, `NoOrphans`, `CancelStopsWork`, `SettledRowsFrozen` |
| `jobs_live` | 2 jobs, 1 slot, 1 crash, fairness | `Implements`: `JobRunner` refines `JobLifecycle`, including that every job settles |
| `paper` | 1 session, strategies on two feeds, 4 candles, 2 crashes, 1 transient fault, 1 stopper, fairness | `StoppedForGood`, `Implements` (`PaperDelivery`: each candle once and in order), `CatchesUp` |
| `paper_shared` | 2 sessions, one with both strategies on one feed, a broken feed, 2 stoppers, 1 crash, 1 fault | `EachCandleOnce` still holds, and `LossBounded`: a failure loses at most one candle per strategy that had not got it |
| `engine` | all strategies, two symbols (4 and 3 candles) or one (5), 4 candle shapes, slippage 10 % and 100 %, and a paper session fed the same candles | `AnalysisMatchesLedger`, `ProfitAddsUp`, `ValuesFollowPosition`, `CooldownRespected`, `StopsHonoured`, `LedgerAccepts`, `OnlyPricelessSalesRaise`, `PaperAgrees` |
| `engine_chronology` | trend, two symbols | **violated** `FundedInTime` |
| `engine_inventory` | grid, one symbol | **violated** `GridInventoryBounded` |
| `paper_window` | trend, one symbol, a window of 3 candles, 7 candles | **violated** `CooldownEnds` |
| `candles` | a refresh and a backtest, 3 requests, ranges [1,2) [0,2) [0,3), pages of 2, 1 wrong page, 1 deletion | `ValidMeansComplete`, `AnswersFit`, `RunsSeeWholeRange`, `CorrectAnswersLeaveNoGaps`, `NoLostConflict` |
| `candles_forming` | one backtest | **violated** `ClosedCandlesOnly` |
| `configurations` | 2 threads, 2 names, 2 payloads, 4 requests, 1 crash, 1 failing statement | `Implements` (`VersionHistory`), `SnapshotsMatch`, `NoSilentDuplicates`, `OnlyDeletionsRaise`, `TrailTellsTrue` |
| `sessions` | 2 tabs, 4 calls, 1 lost message or expiry, fairness | `CommittedOnce`, `OnlyRacedCallsRefused`, `EndedForGood`, `CallsEnd` |

`OnlyDeletionsRaise` and `OnlyRacedCallsRefused` name what remains: deleting a configuration while it
is listed, updated or started makes the other request fail with an unhandled error, and a call may be
refused for its token after all if another tab fetched one between its refresh and its second attempt.
Both models leave one thing to the code: two renames that swap names commit one after the other here,
while a database might break them off as a deadlock; and a handler that is still running after its
own tab gave up waiting for it is not followed while that tab calls again.

`TrailTellsTrue` compares the tables with the audit trail: every configuration ever created, every
version appended, every deletion and every session started (`Changes`) is either on the trail, or its
request is about to put it there (`Underway`), or that request was cut off in between (`lost`); and
there is nothing else on the trail.

### What the violations are

Each run quotes in `PROJECT.json` the line of a document or test the code disagrees with.

* `FundedInTime` - symbols are played one after the other on one ledger; the second symbol's early
  purchases spend money the first earns later.
* `GridInventoryBounded` - the inventory limit starts from zero at every candle because nothing
  writes `inventory_fraction`.
* `CooldownEnds` - a session cuts its candles to 1002 rows, so the decision index stays at 1000 from
  then on; an exit recorded at 1000 is never more than the cooldown ago, and the trend strategy does
  not enter again. The run uses a window of 3; up to the cut the property holds (`UncutCooldownEnds`).
* `ClosedCandlesOnly` - a range that ends with the candle now forming is stored as a valid dataset
  with the prices so far, and a backtest is computed from it.

Four more divergences are in the models' behaviour without a run of their own. If the process dies
between the checkpoints of two strategies that follow one symbol and interval, the second never gets
that candle, because `latest_processed` takes the newest candle any strategy processed; the
specification (`docs/superpowers/specs/2026-08-26-binance-multi-strategy-backtest-design.md:114`)
says a session "reconciles candle gaps before resuming signals", and plan 04 (line 18) repeats it.
`LossBounded` is weaker than that: it says how many candles a failure can cost. A change of a
configuration and the start of a session are committed before their audit record, so if the process
dies or the database fails between the two commits the change stays and its record never comes; the
specification (line 277) says "Authentication and sensitive actions are audit logged", and plan 04
(line 158) asks for records of configuration changes and of every control of a paper session. One
create and one crash after its commit show it; `TrailTellsTrue` says that nothing else is ever left out. Sessions are polled in one `try`, so a symbol whose fetch always raises
keeps the sessions after it from being served (`CatchesUp` holds where no feed stays broken). And a
purchase of the whole cash is skipped when its quotient was rounded up.

A fifth case is named by two properties rather than caught by one: when the database fails at a job's
first checkpoint, the step from queued to failed is refused and the row stays queued.
`TransitionsAccepted` makes an exception of it, and `NoOrphans` lets the row wait for the next restart.

`StopsHonoured` measures a stop from the ledger's average price and would not notice a wrong one;
that the average lies between the prices it was paid is part of `ValuesFollowPosition`.

### Why the bounds are enough

*Jobs*: three jobs on two slots is the least in which one waits while two hold the semaphore; two
symbols make the checkpoint between downloads matter; a crash and a failing call suffice because
both end every task they touch, and the rows they leave behind meet every later action. *Paper*: four
candles let a session skip its first poll, fall behind and catch up across two crashes; two streams
are what a partial cycle needs. *Engine*: the shapes swing through the grid, fall below every stop,
rise above every target, and fall only as far as a trailing stop; five candles hold entry, exit,
cooldown, entry, and a second symbol begins with the first one's cash. Slippage of the whole price is
allowed by the configuration. *Candles*: three requests let two store parts that a third puts
together, or two race after a first; pages of two give a full last page, a partial one and a page
border; [1,2) inside [0,3) leaves missing candles on both sides. *Paper window*: only that the window is cut
matters, which three candles show as well as 1002. *Configurations*: a race takes two requests, and a
third has made what they race for, a fourth copied it before; a second name is what an update can
collide with, a second payload what a wrong copy would hold. *Sessions*: a call takes three messages
at most, refused, refreshed and sent again; two tabs with four calls let one log in, one log out and
both refresh around each other; ten tokens are more than anybody can hold at once.

### Fairness

`JobRunner.FairSpec`, `PaperTrading.FairSpec` and `WebSessions.FairSpec` assume weak fairness only:
ready callbacks of the event loop run (asyncio serves its ready queue in order), the supervisor's
endless loop goes on, and a process that died is started again (`restart: unless-stopped`). Crashes,
faults and stop requests are never fair. `jobs_live` has no failing database call, because one at
the final write leaves a row unsettled until the next restart, as `NoOrphans` states. In
`WebSessions` a call that was begun goes on (the browser runs the continuations of its promises, the
server its handlers); beginning a call, losing a message and expiry are not fair. `CandleStore`,
`Configurations` and the engine are checked for safety only. Deadlock is checked except where the
system rests: when all jobs are settled, and when the requests or calls that the bounds allow are
over.

## 4. Proofs

Eight modules hold theorems: one beside each specification, and `DataLemmas`. They assume the named
assumptions on the constants (`JobRunnerAssumption`, `LedgerAssumption`, `BacktestEngineAssumption`,
...), which TLC evaluates on the instances above, and nothing else; `DeliveryImplemented` has
`FeedsApart` as a hypothesis, see there. Each inductive invariant is defined in the proof module,
which extends the specification and can be given to TLC in its place: that is how each was checked
on the instances above before it was proved.

**Job runner**, for every number of jobs, slots, symbols, crashes and failures:

| theorem | states |
|---|---|
| `TypeCorrect` | `TypeOK` |
| `SemaphoreConserved` | free slots and jobs inside the semaphore add up to its size |
| `CancellationBounded` | at most one unit of work after an accepted cancel request |
| `TransitionsLegal` | a task never asks for an illegal transition, with the one exception named in the property |
| `SettledFrozen` | a settled row never changes |
| `ResultsAreWholeHolds` | a completed job has exactly one result, no job has two, and a result is of all symbols |
| `NoOrphansHolds` | unless the process is down or a database call failed, a live row has a task |
| `LifecycleImplemented` | every behaviour satisfies the safety part of `JobLifecycle` (`Lifecycle!Safety`) |

`SlotsConserved` alone is not inductive: a waiter that is woken twice would take two slots, and a row
that is settled while its task still holds a label would be written again. `IInv` therefore adds that
waiters are distinct and waiting (`WaitersDistinct`), which statuses go with which label
(`RowFitsLabel`: a task past its checkpoints has a live row) and which work with which label
(`WorkFitsLabel`: nothing late before a checkpoint). There is one lemma per action; those that only
move a label share `TaskStepInv`. `SemaphoreConserved` rests on three lemmas on the cardinality of
the set of tasks inside (`StaySlots`, `LeaveSlots`, `EnterSlots`).

Whether a result is whole is only told by the way a task went, so `ResultInv` says which labels know
that every symbol was fetched and that the result was saved (`ResultFits`), and what a task leaves
behind when it ends (`TaskAnswers`). With it every step is a step of `JobLifecycle` or a stutter:
commits of one row are its actions of one job, `Restart` is `Interrupt`, and whatever only a task can
see stutters.

**Backtest engine**, for every universe, set of candles, strategy configuration, fee and slippage:

| theorem | states |
|---|---|
| `LedgerTypeCorrect` | `TypeOK`; in particular cash and inventory are never negative |
| `StopsAlwaysHonoured` | a position whose stop was hit at a candle's close does not survive the next execution, unless that batch bought |
| `CooldownAlwaysRespected` | more than the cooldown lies between a trend exit and the next entry |
| `LedgerNeverRefuses` | the ledger accepts whatever the execution model lets through |
| `OnlyPricelessSalesEverRaise` | a run raises only for a sale under slippage of the whole price |
| `AnalysisAlwaysMatches` | the accounts replayed from the fills have the ledger's cash and quantities |
| `ProfitAlwaysAddsUp` | at any prices, realised and unrealised profit add up to what the equity has gained |
| `ValuesAlwaysFollow` | the entry count is the number of purchases since the symbol was flat, the average price lies between their prices, a peak is kept exactly while something is held, and the holding time is zero when nothing is |

The invariant `IInv` ties four things together: a symbol whose turn has not come is untouched
(`LaterUntouched`); mean reversion holds only after its indicators are known (`ReversionReady`); once
a stop is hit the batch *is* the sale of everything (`StopPending`); a trend batch is a single order,
sale or cooled-down purchase (`TrendBatch`), and no sale is later than the recorded last exit
(`SalesKnown`). The arithmetic is in a few lemmas on products and on `RoundDiv`; that a sale of a
whole position can never be refused (`SellAllFilled`) carries the stop, that a trend sale is always of
everything carries the cooldown.

That nothing else raises is about every order a strategy can ask for (`GenerateType`). A grid asks for
as many as levels are crossed: the levels are finitely many, so they can be sorted (`OrderExists`,
`AscendingType`), and the batch stays one of orders through the fold over the crossings
(`GridOrdersType`). Two assumptions say what integers stand for: One can express a stage's share of
the cash, and the unit of a price is fine enough for what slippage leaves of it (`SalePrice`).
Without them a share or a price would round to nothing, which the code's 28 digits never do.

The last three theorems are about folds over arbitrarily many fills and sums over arbitrarily many
symbols, and rest on `BooksInv`. What a fold is of a sequence with one fill more (`AnalysisOfNext`)
is shown from the library's definition: that the recursive function it chooses exists
(`ReplayExists`) and is the same on a prefix (`ReplayOfPrefix`) is an induction over the set of
lengths for which it is so. `AnalysisMatchesLedger` is inductive with it. That the average price stays between the
prices paid is a fact about the rounded mean of two numbers (`MeanBetween`, `FillKeepsAverage`). For the profit,
`CostsFollowCash` says that what left the cash is either realised as a loss or the cost of what is
held, and that nothing held costs nothing: a sale moves a rounded share from one to the other, so
whatever the rounding lost on one side it gains on the other (`PurchaseBooked`, `SaleBooked`), and a
last sale takes the rest. Unrealised profit leaves out symbols that are not held, whose cost is zero
(`SumOfSome`). For the kept values, `FillsAddUp` ties the sums of the fills that `OpenFills` is
defined by to the position (`OpenAfterFill`: a fill opens a holding, adds to it or ends it).

**Paper session beside the backtest**, for every configuration, set of candles and window:

| theorem | states |
|---|---|
| `ReplayIsBacktest` | beside a session the engine takes its own steps, so all theorems above hold |
| `PaperInvariance` | `LedgerReplays` and `PaperInv` |
| `PaperAlwaysAgrees` | `PaperAgrees`: up to the cut of the window a session makes the fills of the backtest and raises where it does |
| `UncutCooldownEnds` | between events before the cut, `CooldownEnds`: what `paper_window` finds is owed to the cut alone |

A session takes a whole batch of orders in one event, the engine one order per step, so between the
two the session is ahead. `PaperInv` says where: there are books `b[0], b[1], ...`, the first of
which is the engine's, each made from the one before by one of the orders that are left, and the
session has the last of them (`Foreseen`). An event writes such a sequence down (`BatchTaken`,
`EventForesees`), `Execute` and `Drop` take its first book off (`RestForeseen`), `Raise` finds the
raised flag set from there on (`RaiseForeseen`), and with no order left session and engine are at
the same place. The session's ledger is rebuilt from its fills on every event; that this is the
ledger they came from is `LedgerReplays`, an invariant of the engine alone. `index + 2 <= Window` is
the condition that the window still holds all candles; past it the session's indices stand still and
the two part ways, see `paper_window`.

**Paper trading**, for every number of sessions, feeds, candles, stoppers, crashes and faults:

| theorem | states |
|---|---|
| `TypeCorrect` | `TypeOK` |
| `EachCandleOnceHolds` | ledgers are computed from exactly the candles marked as processed, each once and in order |
| `StoppedForGoodHolds` | no step revives a stopped session |
| `DeliveryImplemented` | `PaperTrading` refines `PaperDelivery` where strategies of a session share no feed |
| `LossBoundedHolds` | an active session has lost at most one candle per crash or fault and strategy but the first |

`FeedsApart` is not an assumption of convenience: where two strategies follow one symbol and interval
the refinement is false (see section 3), and `LossBounded` says what is true instead. The supervisor
keeps the session, the feed, the candle and the state it works on in local variables while stop
requests and crashes change the rows, so `IInv` says where in its loops it can be (`CycleShape`), that
its state is the row's but for the candle about to be committed (`StateFollowsRow`), that the candle
in hand is the newest of its feed and the strategies before the current one have it (`CandleIsNext`),
and that the one commit allowed after a stop is over once it was made (`LateOnce`). Of the candles
lost, a failure adds those of the strategies that had not got the candle in hand; the first strategy
always has, which is where the bound comes from.

**Candle store**, for every number of requests, range, page size, wrong answer and deletion:

| theorem | states |
|---|---|
| `TypeCorrect` | `TypeOK` |
| `ValidMeansCompleteHolds` | a dataset marked valid has one consistent candle for every time of its range |
| `AnswersFitHolds` | the dataset a request ends up with spans what it asked for, and has all of it if it is valid |
| `RunsSeeWholeRangeHolds` | a backtest is computed from all candles of its range |
| `NoLostConflictHolds` | the loser of a race for a dataset raises only if one was deleted |
| `CorrectAnswersLeaveNoGapsHolds` | as long as the exchange answers correctly, a dataset has no gap but the part of its range that had not formed, and is valid without one |

`StoreInv` carries the first five: datasets and the local variables of requests have candles of their
range only, identities are unique, and the winner of a conflict stays while nothing is deleted; a
validation that counts as many candles as the range has times has seen every one of them
(`CountTellsComplete`). `CleanInv` is about histories without a wrong answer: the missing ranges are
exactly the times not cached and never touch (`RangesLeft`), a download has the rows from the start of
the earliest range to the cursor (`DownloadFits`), and a range cut short by the clock must be the last
one, since every earlier one ends before a time that is cached, so what is left is a prefix of the
range (`Prefix`).

**Configurations**, for every number of requests, names, payloads, crashes and failures:

| theorem | states |
|---|---|
| `TypeCorrect` | `TypeOK` |
| `HistoryImplemented` | `Configurations` refines `VersionHistory` |
| `SnapshotsMatchHolds` | what a job or a session copied is the version it names, and two copies of one version never differ |
| `NoSilentDuplicatesHolds` | of two backtests of one payload the later one was confirmed |
| `OnlyDeletionsRaiseHolds` | a request raises only if a configuration was deleted or the database failed while it ran |
| `TrailTellsTrueHolds` | the changes the tables show are exactly the events on the trail, those about to be recorded and those of requests cut off between their two commits |

A request decides on rows it read before others committed. `IInv` says what of that is still true: the
versions of a configuration are numbered without a gap (`RowsConsecutive`) and names are unique
(`NamesUnique`); a request is at a place its endpoint has (`AtItsPlace`), and what it read is in the
table or was deleted since (`ReadTrue`); whatever anybody has seen of a version is the same
(`SeenAgree`), because versions are only ever added; and one submission at a time is on the loop, so
its check for a duplicate is still good when it inserts (`OneSubmission`). In the refinement a commit
that adds a version appends one entry to the history, whatever was committed between the SELECT and
the COMMIT, because the number it inserts is refused by the table if it exists.

`TrailTellsTrue` is preserved by every step relative to `IInv` (`TrailStep`), one lemma per commit that
changes a table: what the commit adds to `Changes` is what its own request adds to `Underway`
(`TrailChange`), because the row it inserts has a number or an identity nothing has had before; every
other step moves events between `Underway`, `trail` and `lost` only (`TrailQuiet` and `UnderwayMoves`).

**Web sessions**, for every number of tabs, tokens, calls, lost messages and expiries:

| theorem | states |
|---|---|
| `TypeCorrect` | `TypeOK`; cookies and calls only name sessions that were stored |
| `CommittedOnceHolds` | the second attempt of a call never commits its change again |
| `OnlyRacedCallsRefusedHolds` | a call that nobody interfered with is not refused for its token in the end |
| `EndedForGoodHolds` | no step brings back a session that was deleted or whose time is over |

That a call is not refused says nothing about the steps before, so `IInv` follows the retry:
what was committed is on its way to the tab, which ends the call (`CommitAnswered`); a token is only
fetched for a second attempt (`RefreshIsSecond`); and as long as nobody else touched sessions or
cookies since the call began, the session of the cookie stays accepted from the refusal on, and the
token fetched is the valid one in the answer, in the jar and in the second header (`RetryPrepared`).
A step is one tab's; for the others two lemmas do: either the step told them that they were disturbed
(`DisturbedTab`), or it kept their call, the cookies and every accepted session (`UndisturbedTab`).

**DataLemmas.** The library states induction with an operator as a parameter, which no prover here
can instantiate; as a statement about a set it can be proved and cited: a set that holds 0 and every
successor holds every number (`InductionOnNat`), a set of subsets that holds the empty one and is
closed under adding an element holds them all (`InductionOnSubsets`). With these the library's sum
over a finite set is shown to be what one expects: an integer (`SumIsInt`), the same whichever
element is taken first (`SumRemove`), changed by what one element changes (`SumChange`).

**Model-checked only.** Liveness is outside the prover: `Settles` of `JobLifecycle` (with the rest
of `Implements` of jobs proved), `CatchesUp` and `CallsEnd`. Every safety property the passing runs
check is stated by a theorem. The runs that expect a violation have nothing to prove.

## 5. Not covered

* Indicators, geometric grids, metrics, `RiskManager`, `resolve_long_exit` (the last three are called
  by nothing but tests), the CSV export and the result's fingerprint.
* Deleting a stored backtest result; `stopped_at` of a paper session.
* The login throttle, password hashes, the bootstrap of the administrator.
* Symbol catalogue, migrations, backup scripts, health endpoints, rendering: one assignment or pure
  input and output.

## 6. Plan

Done, in this order: JobLifecycle and JobRunner; PaperDelivery and PaperTrading; Ledger, Strategies,
Analysis and BacktestEngine; CandleStore; proofs for JobRunner and BacktestEngine; VersionHistory and
Configurations; WebSessions and its proofs; PaperStrategy; proofs for PaperTrading, Configurations,
the safety half of JobLifecycle, CandleStore, the books of the engine, and PaperStrategy.

Next:

1. *Login throttle*, with failures of several clients and the sliding window.
2. *RiskManager* as operators, with what the specification says it should forbid.
