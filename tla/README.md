# A TLA+ model of QuantPulseAI's paper trading

QuantPulseAI collects futures market data, scores it, turns the scores into
trade plans, and executes the plans on paper: simulated positions with an
INR 200,000 wallet, no exchange orders. This directory holds TLA+ modules of
the part of it that keeps state under concurrency, the TLC configurations that
check them on small instances, and proofs checked by TLAPS. Paths below are
relative to `src/`; `app/` stands for `backend/app/`.

## 1. The system

| Component | State it keeps | Operations | What is hard about it |
|---|---|---|---|
| Trade plans (`app/repositories/trade_plan_repository.py`, `app/api/v1/signals_api.py`) | one row per plan: OPEN, CLOSED with a result | save, replace, invalidate, close by the memory job, close by a position's close | written by four jobs without a common lock |
| Paper execution (`app/api/v1/paper_trade_api.py`, `app/paper_trading/inr_sizing.py`) | none of its own; a candidate list in memory | build candidates, reserve the account, gate, fit margin, rebase on a live mark, insert | the list is read before the lock; the lock belongs to a transaction that may end early |
| Unified profile endpoint (`app/api/v1/unified_strategy_api.py`) | none | open one position | second writer of the same table, with gates of its own |
| Paper book (`app/repositories/paper_trade_repository.py`) | `paper_trades` rows with levels, target 1 leg, checkpoint, result | save, target 1, move stop, mark evaluated, close, ensure policy | written by two exit monitors and two entry points |
| Wallet ledger (`app/repositories/paper_wallet_ledger_repository.py`) | events with a unique key per trade and kind | append | must agree with the rows whoever wrote them |
| Exit rules (`app/paper_trading/paper_trade_monitor.py`, `exit_policy.py`) | none | decide on one piece of evidence | order of the checks; trailing and protection stops |
| One-second exit job (`app/jobs/paper_trade_fast_exit_job.py`) | observations per position | take marks, judge, lock, act | works on snapshots; races the reconciler |
| Candle reconciler (`app/jobs/paper_trade_monitor_job.py`) | the durable checkpoint `last_exit_evaluated_at` | fetch candles, replay, target 2 re-check, deadline catch-up, live fallback | candles are older than the row they are judged against |
| Mark price feed (`app/services/paper_exit_prices.py`, `app/paper_trading/exit_protection_health.py`) | latest mark and a bounded queue per symbol; last job report | ingest, take, health | a stream that stalls, reconnects, repeats |
| Strategy Paper books (`app/repositories/strategy_shadow_trade_repository.py`) | one isolated book per strategy version | the same operations, per book | stops that really move |
| Walk-forward queue (`app/backtesting/walk_forward_jobs.py`, `app/jobs/walk_forward_queue_job.py`) | one row per job | submit, claim, run, complete, fail, expire, purge | several workers, lost workers, retries |
| Deterministic pipeline (`app/jobs/deterministic_pipeline_job.py`, `app/jobs/pipeline_cycle_job.py`, `app/repositories/pipeline_run_repository.py`) | run and job ledger | run the stages in order, recover stale runs | degradation, blocking, a ledger that fails, a recovery of a live run |
| Risk authorization (`app/jobs/risk_job.py`, `app/repositories/risk_repository.py`) | immutable decisions, the newest of each plan | decide, reuse | decides from rows read before its first commit |
| Trade theses (`app/repositories/trade_thesis_repository.py`) | one lifecycle state per plan | set by saves, ends and closes | written wherever a plan or a position ends |
| Strategy learning (`app/strategies/learning.py`) | evaluations per milestone, version configurations | evaluate, promote, fail, create | one transaction over all versions, queries that see less than it has done |

They interact through the database. Signals write plans; the pipeline's last
stages monitor the open positions, refresh risk, and run the executor; the
executor turns a plan into a position; the two exit jobs close positions, post
to the ledger, and close the queued plans of the coin. The feed is shared
memory between its own thread and both jobs, and its health report gates new
entries. Collectors, feature scoring, fusion, backtesting, the dashboard, the
scripts and the migrations surround this core; `PROJECT.json` lists each with
the reason it is left out. Numeric scoring has no shared mutable state, and
network input is the environment of the models.

What would make each part correct:

* Paper execution: one open position per coin, each plan executed at most once,
  committed margin within the account ceiling, and no entry from a plan that
  was closed as stale.
* Book and ledger: the ledger tells what the rows tell at every commit; closed
  positions are history.
* Exit jobs: no stop is missed by moving the checkpoint, no stop is applied to
  prices older than itself, no stop is loosened, a leg that a replayed candle
  reached does not stay open unless the row was locked, an overdue position is
  closed.
* Feed: a mark is judged at most once in order and never after it is stale; a
  dead feed blocks entries.
* Walk-forward queue: one worker per queueing of a job, every job ends, and a
  result stays.
* Pipeline: no entry stage after a failed safety stage; safety stages run after
  any failure; the ledger is never better than the run; each row reaches an end.
* Plans, theses and approvals: a thesis tells what its plan tells, a position rests
  on evidence of its own plan, and a plan is approved again when its lineage
  moves on or its approval expires.
* Learning: one official version, earned against the one it replaced.

## 2. Modules

`PaperBook.tla` is the core. A step is one database transaction, or the part of
one up to a point where another session can run.

| Definition | Code |
|---|---|
| `plan[p]` and `SavePlan`, `RetirePlan` | plan rows; `save_ready_trade_plan`, the confidence gate, the replacement by a newer signal, the memory job |
| `BuildCandidates(e)` | `build_paper_trade_candidates`, before any lock |
| `Reserve(e)` | `acquire_account_execution_lock`, and the transaction captured by `_capture_entry_reservation` |
| `Admit(e)` | every check between lock and insert; each gate that needs no shared state is the freedom to take `Skip(e)` instead |
| `LoseReservation(e)` | a rollback inside the boundary, which ends transaction and lock while the code runs on |
| `Fill(e)` | `_entry_reservation_intact`, then `save_candidate` with the unique index and the ENTRY event |
| `OpenUnified(c)` | `execute_unified_paper_trade` |
| `ListForPolicy(w,t)`, `EnsurePolicy(w)` | the reconciler's list of open rows, then `ensure_staged_exit_policy` on one of them, with no lock taken |
| `LockRow(w,t)`, `Release(w)` | `lock_open_trade`; HOLD, an expired mark, an exception or a crash |
| `TakeTarget1(w)` | `apply_target1` |
| `BeginClose(w)`, `CommitClose(w)` | `close_trade` up to its query of the OPEN plans, and its commit |

Money is counted in units: a position has `Units` of them, `Target1Units` leave
at target 1, each contributes the net return of its own fill, and a close may
carry funding. A fraction of 75% is any split with the same shape. The
constants `AccountLocks` and `RowLocks` say what the database's dialect gives:
advisory lock and `FOR UPDATE NOWAIT` on PostgreSQL, the first alone on SQL
Server (SQLAlchemy emits no `FOR UPDATE` there), neither on SQLite.

`PositionAccounts.tla` is what the book promises about money: a position passes
flat, open, target 1 banked, closed; ledger and report change together.
`PaperBook` implements it under the mapping in `Accounts`.

`ExitRules.tla` is `evaluate_paper_trade_exit` as an operator on integer
prices: deadline, stop, target, then protection. `ExitReplay.tla` uses it for
one position, official or of a Strategy Paper book, in a ticking market:
`FastExit` is the one-second job; `Fetch`, `ReplayCandle`, `RecheckTarget2`,
`FinishPass` and `JudgeLiveMark` are the reconciler, with a step wherever it
commits and locks again; `LockConflict` is a lock it is refused; `checkpoint`
is `last_exit_evaluated_at`. History variables (`stopSince`, `fastChanges`,
`passStop`, `lost`) record when the active stop came into force, which ticks
changed the row, whether the reconciler set the stop, and which candles were
left because the lock for their second look was refused; no guard reads them.
`seen` is the newest tick the feed has handed out. A position starts with `Ordered` levels,
stop, entry and targets on their sides, as `risk_engine` and
`approved_adaptive_entry_levels` require.

`WalkForwardQueue.tla` is the durable queue of validations, with the API and
the workers in separate processes on PostgreSQL. A row is a status and the age
of its latest timestamp; a job is a scope and a five-minute bucket.

| Definition | Code |
|---|---|
| `Submit(c,j)`, `CommitSubmit(c)` | `create_walk_forward_job`: the read of the bucket's row and the decision to queue it; the commit. An insert that finds the row yields, an update of a row that is gone fails. SQLAlchemy writes the columns that differ from what was read, so a row read as QUEUED gets a new `created_at` but no status |
| `Expire(c,j)`, `CommitExpire(c)` | `expire_stale_walk_forward_job`, on every poll, and the same step of `create_automatic_walk_forward_job` |
| `Claim(w)` | `claim_next_walk_forward_job`, FOR UPDATE SKIP LOCKED |
| `MarkRunning(w)`, `Finish(w)` | `_run_walk_forward_validation_job`; each `_update_job` is one step, though it too reads before it writes |
| `Crash(w)` | loss of the worker process at any point after the claim |
| `Purge(w)` | `purge_expired_walk_forward_jobs` after a worker's tick |
| `Tick` | time, for rows and for sessions that have not written yet |

`attempts` counts how often a row was queued and is read by no guard but the
bound `MaxAttempts`.

`PipelineRuns.tla` is a run of either pipeline, its rows and the recovery. A
stage's result is one of six kinds, the shapes `_failed`, `_degraded` and
`_execution_ready` tell apart; `real` records what the stage did, `res` what the
code believes, `row` and `job` what the ledger says.

| Definition | Code |
|---|---|
| `Begin(q)`, `ReadStale(q)`, `CommitStale(q)` | `recover_stale_running`, at the start of a run or of a process: the queries, then the commit of what was read |
| `OpenRow(r)`, `LedgerDown(q)` | `start_pipeline`; any failure up to there, after which the run goes on unrecorded |
| `StartJob`, `RunStage`, `NotReady`, `FinishJob`, `Skip` | the loop over the stages |
| `StartJobFails`, `FinishFails`, `CloseFails` | a refused commit, taken by the database or not: `start_job` outside the `try` of the deterministic loop ends the run, a refused `finish_job` is caught and written again as FAILED |
| `Close`, `Crash` | `finish_pipeline`; loss of the process |

`ExitFeed.tla` is the stream, the one-second job and the gate. Times are ages
that grow together; marks of a symbol are the set of their ages. `Frame`,
`Connect`, `Drop` are the stream thread; `StartTask`, `ListTrades`, `Take`,
`Judge`, `Act`, `NoAct`, `FinishTrade`, `TradeFails`, `Record`, `Save` are the
job in the order of its code; `GateOpen` is `exit_protection_snapshot` as an
entry reads it. `judged` and `lastFrame` are history.

`StrategyLearning.tla` is `evaluate_due_strategy_versions`: a run reads the
definitions, then evaluates them one by one in a transaction (`draft`), while
trades close. `Autoflush` is FALSE for the program's sessions.

`PlanAuthorization.tla` is the life of the plans of one strategy on one coin,
with no lock anywhere. `scan`, `risk`, `memory`, `executor` and `closing` are
what the sessions of five writers have read. A session that ends a plan loads
the plan and then the thesis, decides, and commits in a later step; SQLAlchemy
writes a column only if it differs from what the session loaded (`Written`), so
an end that finds its own value in a loaded thesis leaves the stored one alone
(`Commit`, `ClosedThesis`). A commit expires the rows a session holds, which are
then read again (`Row`). `ended` counts the sessions that have ended a plan, up to
three; it is history.

| Definition | Code |
|---|---|
| `ListWeak`, `InvalidateWeak`, `CommitEnd` | the confidence gate of `run_watchlist_persist_job`: the list, the load of one plan's thesis, the commit of its end |
| `Evaluate` | `_persist_strategy_candidates`: a snapshot for each scan, then the newest open plan |
| `EndFound`, `CommitEnd`, `RefreshLineage`, `Save`, `NothingToDo` | the branches of `_persist_ready_watchlist_payload`; a replaced plan ends in a commit of its own before the new one is saved |
| `StartRisk`, `Reuse`, `Decide`, `DecisionFails` | `_approve_trade_plans`: rows and the batch of decisions are read once; the first commit or rollback expires the rows, not the batch |
| `ListOpen`, `TakeUp`, `LeaveOpen`, `Judge`, `Remember` | the memory job: the list, a row of it, the price that decides nothing or a result (and loads the thesis), the commit |
| `ListCandidate`, `Execute` | `_paper_trade_blocked_reasons` before the lock, the insert under it |
| `BeginClose`, `FindQueued`, `LoadTheses`, `CommitClose` | `close_trade`: the position's thesis, the open plans of the coin, their theses, the commit of all of them |

Two steps merge queries the code makes one after the other: `Evaluate` commits
the snapshot and reads the newest plan, and `ListCandidate` reads a plan, its
decision, its snapshot and the open positions at once. What is read is stale by
the time it is used in both, since other sessions run between the read and
`Save`, `EndFound` or `Execute`; evidence put together from two moments of one
listing is outside the model.

How they compose: `PaperBook` and `PlanAuthorization` share plans, execution and
close. The first has many coins, the account and the money, and plans that are
OPEN, executed or stale; the second has one coin, without money, and why a plan
may be executed. `ExitReplay` takes from `ExitFeed` that a live mark is fresh
and that marks come in order.

The MC modules hold the model values; each `*Proofs.tla` holds the proofs about
the module it extends. `PaperCapacityProofs.tla` extends `PaperBookProofs.tla`.

## 3. What each run checks

| Run | Properties | Shows |
|---|---|---|
| accounts | TypeOK, LedgerMatchesBook, OneOpenPerCoin, ClosedIsFinal, ImplementsAccounts | both monitors, the executor and the endpoint on one coin, two rows, row locks on, the account lock off (which only adds behaviours: the index alone keeps one position) |
| capacity | PlanExecutedOnce, WithinCeiling, AccountLockFreed | two executors, three plans on two coins, a ceiling that holds one full and one reduced position, lost reservations, closes |
| replay | TypeOK, ReplayComplete, LegLostOnlyToLock, StopNotRetroactive, StopNeverLoosened | LONG and SHORT, official rows and Strategy Paper rows whose stops move under three trailing profiles, reachable and unreachable deadlines, both jobs, late candles of three ticks, the live fallback, locks refused at any moment |
| deadline | DeadlineCloses violated | an overdue position stays open while the reconciler replays the candle of its entry again and again (`TRADING_INVARIANTS.md:79`) |
| queue | TypeOK, OneWorkerPerAttempt, JobResolved | two workers that can be lost, a client, jobs of two buckets, a row queued up to twice |
| ceiling_unified | WithinCeiling violated | the endpoint has no margin check (`TRADING_INVARIANTS.md:398`) |
| stale_plan | StalePlanNotExecuted violated | a candidate list outlives the close that marked its plan stale (`TRADING_INVARIANTS.md:154`) |
| pipeline | TypeOK, ExecuteAfterSafety, SafetyStagesRun, LedgerNotOptimistic, RowResolved | a run of either pipeline, refused commits at every write, loss of the process, recoveries |
| exitfeed | TypeOK, EntryProtected, PositionsWatched, FillsFresh, Resumes | stream, queue, job, heartbeat, gate and a position that opens and closes |
| learning | TypeOK, OneActive, OfficialEarned, NoDowngrade, RetiredStays | a base and three candidates, five closed trades, a failed run |
| not_replaced | FailureReplaced violated | a candidate that fails is not replaced, because the query for a collecting one still finds it (`backend/tests/test_strategy_learning.py:402`) |
| plans | TypeOK, ThesisFollowsPlan, EvidenceHolds, Reauthorized | two plans of two kinds, two scans, a risk run, memory job, executor and close, each between its reads and its commit, a failure |

Every property of a passing run has a mutant of the model, a change a plausible
bug in the code would make, under which TLC finds it violated.

### Bounds

Two rows per book (`MaxTrades`) let one position close and another open, which
is the longest history the one-position and once-per-plan properties can tell
apart; three plans on two coins give a coin a choice and the account two
competitors. A position has two units and one leaves at target 1; marks are a
loss and a win, funding is none or one, so a wrong delta shows.

In `replay` candles are three ticks long, because the one-second job needs room
inside a candle: with two, a mark that cuts a candle is always its last, and
what is judged of the rest of the candle is that same mark. The position is
opened in candle 0 and the market runs six ticks: a candle cut by the entry,
and one full candle, which is enough for target 1 in a pass, a refused lock for
the second look, and a pass that comes later. Marks reach each level and the
region between entry and target 1. The quote age is one tick: a mark up to that
age older than the stop may be judged against it, which `StopNotRetroactive`
allows; that property names two exceptions (section 5). `LegLostOnlyToLock`
excuses only the candles in `lost`, whose second look was refused the lock. In
`deadline` one official row is overdue while its entry candle is stored and the
next is late.

In `queue`, thresholds keep the order of the code's 120 s < 300 s < 1200 s <
14 days as 1 < 3 = 3 < 4 ticks: a queued row can go stale within its bucket, so
that it is submitted again, and a running one cannot. Ages beyond retention are
alike, and time stands at the end of the last bucket while ages go on. Two
buckets let an older and a newer job of a scope wait together; two queueings
of a row let a late worker meet its successor.

In `pipeline` one run of either kind meets the startup recovery, which may come
at any moment and read the run while it lives; five stages stand for the thirteen,
one of each way the code treats a stage. A recovery that a second run starts does
what the one at startup does. The stale threshold is one tick. In
`exitfeed` the age limit and the longest good run are one second (the code's 5
and 2), the queue two marks (10); a crash, a slow run and a stream that drops
all fit within the ages that matter, which end at twice the limit and one run.
The same properties without liveness held with two positions (10.2 million
states), and all of them with a limit of two seconds (1.1 million). In `learning` a milestone is one trade; three candidates
are a champion, its challenger and the next. In `plans` ages are those of a
decision, fresh or expired, with the window of reuse just inside; two scans and
two plans let a plan be refreshed, replaced and withdrawn while another writer
holds it, and let a scan, the memory job and a close end one plan between them.
There is one scanner and one risk run, and with one scanner at most one plan is open.
Two scanners leave two open: with one kind of plan and no failures their 674,525
states show the same safety properties, which are proved for any number of either.
`Reauthorized` is checked for one.

### Fairness

`FairSpec` of `PaperBook` is weak fairness of an executor inside the entry
boundary: it is a thread whose every branch ends in commit or rollback, and a
session that dies loses its lock. Nothing is assumed of monitors or plan
writers. `FairSpec` of `ExitReplay` is weak fairness of marks and of the
reconciler, which a scheduler calls on an interval, and strong fairness of its
judging a candle: locks may be refused, but not all of them for ever. Nothing is
assumed of the one-second job, which the reconciler is there to back up, nor of
the candle collector. That is the fairness under which `DeadlineCloses` is
violated: the candle of the entry overlaps the checkpoint, so it is fetched in
every pass, held over, and moves nothing, `candles` is never empty, and the
catch-up at `app/jobs/paper_trade_monitor_job.py:72` is never tried. The
counterexample runs through `Fetch`, `ReplayCandle` and `FinishPass` for ever, so
it is no pause of the reconciler. With strong fairness of the one-second job
added the same run passes, which shows that job at work and not the catch-up.

`FairSpec` of `WalkForwardQueue` is weak fairness of time, of the dashboard's
poll, which the API documents as lasting until the job has completed or failed,
and of the commit of a session that has read a row. Workers owe nothing: all of
them may be lost for good, and jobs still end by expiry.

`FairSpec` of `PipelineRuns` is weak fairness of time and of a recovery that
comes again (every new run and every process start begins with one), and strong
fairness of its two database steps: the database may refuse any one of them, not
all of them for ever. The runs owe nothing. `FairSpec` of `ExitFeed` is weak
fairness of the stream thread's reconnection, of the job's steps, of frames and
of time; `Resumes` is about the time after `Calm`, from which on nothing fails
and every second brings a frame and a run. `FairSpec` of `PlanAuthorization` is
weak fairness of the risk run, which the scheduler starts on an interval and
each pipeline run starts too. `Reauthorized` does not depend on scans.

## 4. Proofs

`PaperBookProofs.tla` proves, for every number of coins, plans, executors,
monitors, rows, units and marks:

* `TypeCorrect`: `Spec => []TypeOK`.
* `OneOpenPosition`: `Spec => []OneOpenPerCoin`, with no assumption on the
  locks. The index is checked in the step that inserts, and the endpoint's own
  `has_open_trade` in the same step, so the invariant is inductive with types.
* `LedgerAgrees`, assuming `RowLocks = TRUE`. Agreement alone is not inductive:
  a monitor that decided on an old row would break it. `LedgerInv` adds
  `ViewCurrent` (a monitor that is past its lock holds the row, sees the row as
  it is apart from its policy, and computed its result from it) and `EventsFit`
  (which events are posted, and with what amount, is determined by the row).
* `ClosedStaysClosed` and `BookImplementsAccounts` follow from `LedgerInv`: the
  step of a monitor finds its row open, so no step touches a closed one, and
  each step maps to `Open`, `BankTarget1`, `Settle` or a stutter.
* `PlanOnce`, assuming `AccountLocks = TRUE`. Its invariant `Reserved` says an
  executor whose reservation is intact holds the account lock, and the plan it
  admitted has no position; whoever else inserts would have to hold that lock.

`PaperCapacityProofs.tla` proves the margin ceiling, assuming
`AccountLocks = TRUE`, for every number of rows and executors and all margins:

* `PlannedWithinCeiling`: the positions opened from plans never commit more than
  `Ceiling` between them, whatever the unified endpoint opens beside them.
* `BookWithinCeiling`: with `UnifiedMargins = {}` as well,
  `Spec => []WithinCeiling`. The hypothesis is needed, as `ceiling_unified` shows.

  What an account has committed is a sum over its rows. The library's induction
  theorems and its theorems on sums take operators, so the sums are treated by
  first-order means: the recursion inside `SumFunction` has a solution (built by
  the number of rows it covers), and a set of subsets that contains {} and passes
  from a subset without its chosen element to the subset contains them all. From
  that come the type of a sum, its monotonicity, and the change of a sum when one
  summand changes, whatever order the fold takes. `WithinCeiling` alone is not
  inductive: an executor is admitted in one step and fills in another.
  `AdmissionFits` says that what an executor with an intact reservation was
  admitted with still fits. While it holds the account lock (`Reserved`) nobody
  else inserts, and exits only free margin.

`ExitReplayProofs.tla` proves, for all levels in order, every market, every length
of candle, and all ages of quotes:

* `ReplayTypeCorrect` and `StopsOnlyTighten` (`Spec => StopNeverLoosened`). The
  first part of the module states what each decision of `ExitRules` shows about
  its evidence; a stop moves only to a better one.
* `CandlesAccountedFor`: `Spec => []ReplayComplete`, with failed locks, late
  candles and both jobs.
* `LegsLostOnlyToLocks`: `Spec => []LegLostOnlyToLock`, with nothing assumed of
  the locks: a refused lock for the second look is the only way in which a
  replayed candle leaves a leg open whose target it reached.
* `StopsJudgeTheirOwnTime`: `Spec => StopNotRetroactive`.

  Their inductive invariant is `ReplayInv`. `PassKept`: the checkpoint and the
  pass stand at the end of a stored candle, except where entry or a live mark put
  the checkpoint. `LookKept`: what the second look after target 1 holds is the
  candle the pass stands at, or its closing mark. `Judged`: every uncut candle that
  the pass, or the checkpoint, has gone by was judged, so it did not touch the stop
  of a locked row and did not reach target 2, or the second look is about to find
  that out. `StopDated`: the active stop is at most the age of a quote younger than
  the checkpoint, or it was set on the closing mark of the candle that the
  checkpoint cuts in two. A stop judged on evidence after the checkpoint is
  therefore judged on evidence after it was set, or within that age.

`WalkForwardQueueProofs.tla` proves, for every number of scopes, buckets,
workers and sessions, with `Clients` finite:

* `QueueTypeCorrect`: `Spec => []TypeOK`. Its invariant adds `Named` (whoever is
  busy is busy with a job) and `Room` (a row's attempts and the sessions about
  to queue it stay within the bound together), by cardinalities of finite sets.
* `OneWorker`: `Spec => []OneWorkerPerAttempt`. Its invariant `Taken` says that a
  busy worker's attempt took place and that a row queued that often and no more
  is not waiting any longer. A claim takes a waiting row, so nobody has its
  attempt; a session that queues a row again makes a new attempt; and a row
  that was read as queued is not queued again by the commit.

`PipelineRunsProofs.tla`, for every number of runs, every order of distinct
stages and all tables of kinds: `LedgerTypeCorrect`, `NoUnsafeExecution`,
`SafetyAttempted` and `LedgerTrue`. What the code believes (`res`) is never
better than what the stage did (`real`), and a row is written from `res` only;
that and where the run is in its order make the invariant inductive. The
recovery writes FAILED or nothing, so no assumption on its timing is needed.

`ExitFeedProofs.tla`, for every number of coins and positions, all limits and
every length of queue: `FeedTypeCorrect`, `GateBounded`, `GateWatches`,
`ClosesOnFreshMarks`. The invariant bounds the age of a good report by the ages
of the frame and of the marks it rests on, at each point of the job, in a row
with the time that the job has taken so far.

`StrategyLearningProofs.tla`, for any scores and comparison, with or without
autoflush: `LearningTypeCorrect`, `OneOfEach`, `OfficialIsEarned`,
`NeverDowngraded`, `RetiredStaysRetired`. The invariant holds of the draft as of
what is committed. Versions are created in turn, so a challenger is younger than
the champion; what a run still has to look at is as it was when the run began
(`Untouched`); so the oldest-first order reaches a champion before its
challenger, and a champion superseded in a run has its successor in place
(`Succession`).

`PlanAuthorizationProofs.tla`, for every number of scanners, risk runs, plans and
scans: `PlansTypeCorrect`, `OneStory`, `EvidenceAlwaysHolds`. For the evidence the
invariant adds that an unsaved row proposes nothing, that a decision that approves
is of an approvable plan, and that what the executor holds, like what a position
was opened on, was authorised and eligible when it was read. Plans are saved
under fresh numbers, their terms never change and snapshots are never rewritten.

  For `OneStory` the argument cannot be that plan and thesis are written together,
  because they are not: a session leaves out a column that it would set to what it
  loaded. The invariant says instead what each session may still hold of a plan
  (`Consistent`). Nobody had ended the plan: then the session holds no result and
  an ACTIVE thesis, and its commit writes both. One session has ended it: then a
  result or an ended thesis that another holds is the one still stored, so what
  that one leaves out is already there. Hence two endings agree, in any order of
  their loads and commits. After the second nothing of the kind holds: a session
  may hold the thesis of the first, and a third can part plan and thesis (section
  5). `ThesisFollowsPlan` therefore says `ended[p] =< 2`, and the bound is tight.
  That a thesis is ACTIVE exactly as long as its plan is open needs no such bound.

TLC, given the inductive invariants as invariants of the runs, finds no
violation of them. The assumptions on constants are in the modules that declare
them and are evaluated by their runs. Every invariant and every action property of
a passing run is a theorem, some under the hypotheses above. Model-checked only are
the liveness properties `AccountLockFreed`, `JobResolved`, `RowResolved`,
`Resumes` and `Reauthorized`: they rest on fairness, whose `ENABLED` the installed
provers cannot treat. What `Decide` computes is stated case by case
in `DecisionFacts`, never by induction. The `FairSpec`s imply `Spec`, so the theorems hold of them too.

## 5. Observations without a run

* `close_trade` closes the plans it finds OPEN, and takes no lock that a writer
  of plans takes, so a plan saved between its query and its commit stays OPEN,
  against the comment at `app/repositories/paper_trade_repository.py:918`.
* `ensure_staged_exit_policy` replaces policy, targets and holding time of a
  position the unified endpoint opened, against the comment at
  `app/paper_trading/exit_policy.py:29`.
* An official row keeps its stop after target 1 (levels are locked), while
  `TRADING_INVARIANTS.md:70` moves it half-way to target 1; Strategy Paper rows
  do move.
* A candle through the stop fills at the stop even if the candle opened beyond
  it; a live mark fills at the mark.
* Where the dialect emits no `FOR UPDATE NOWAIT` (SQL Server), two monitors act on
  the same open row: the second close overwrites the row's result while its event
  key is taken (`accounts` with `RowLocks = FALSE` refutes `LedgerMatchesBook`),
  against `app/jobs/paper_trade_fast_exit_job.py:93`.
* A stop that the reconciler moves on a live mark leaves the checkpoint behind, so
  the running candle is later judged in full against it, against the comment at
  `app/jobs/paper_trade_monitor_job.py:500`. `StopNotRetroactive` leaves out stops
  that the reconciler set where it has the live fallback (`passStop`); without that
  premise `replay` refutes it.
* Between the commit of target 1 and the lock for target 2 the one-second job may
  move the stop. The second look (`app/jobs/paper_trade_monitor_job.py:187`) then
  judges the evidence of before against the re-read row and closes at a stop that
  is younger than the mark. With a LONG from 2, target 1 at 8 and target 2 at 12:
  the closing mark 8 of an overlapped candle takes target 1, a live mark of 11
  moves the stop to 8, and the second look on the old 8 closes the position at the
  stop while the market stands at 11. The comments at `:477` and `:500` say that a
  new stop is not applied to earlier prices. An attempt to prove
  `StopNotRetroactive` without the exception found this; candles of two ticks,
  which an earlier version of the run used, are too short for it.
* A pass that reaches both targets in one candle commits target 1 with the
  checkpoint and locks the row again for target 2
  (`app/jobs/paper_trade_monitor_job.py:187`). If that NOWAIT lock is refused, the
  pass ends at line 188 and no later pass returns to the candle: the remainder
  stays open at a target 2 the market has passed. `backend/docs/paper-exit-protection.md:50`
  says that both legs close in the same reconciliation pass. `LegLostOnlyToLock`
  states exactly what is left of that, and its exception is this case.
* After downtime of the one-second job, target 1 on its first mark moves the
  checkpoint past completed candles that were never replayed
  (`app/jobs/paper_trade_fast_exit_job.py:109`); `ReplayComplete` speaks only of
  candles after the last such change.
* `expire_stale_walk_forward_job` writes FAILED over a result that was committed
  after it read the row (`app/backtesting/walk_forward_jobs.py:363`), against
  `README.md:121`.
* In a deterministic run an exception of `start_job` is not caught: the later
  stages of `ALWAYS_RUN_SAFETY_STAGES` are not attempted. `pipeline_cycle` catches
  it. `SafetyStagesRun` speaks of runs that reach their end.
* The recovery writes FAILED over a run that finished between its read and its
  commit. FAILED is never better than the run, so `LedgerNotOptimistic` does not
  see it. A job that a run starts after it was recovered, and does not finish,
  stays RUNNING under a FAILED run.
* `take` clears the queues of all symbols, those of a position opened since the
  listing included; such a position, still without a mark, degrades one run and
  shuts the entry gate until the next.
* A version whose evaluation raises rolls back the evaluations of all strategies
  in that run. A benchmark needs a verified cohort, not thirty trades.
* Two scanners, the job and the endpoint, can leave two OPEN plans of one strategy
  and coin. A scan or the memory job that commits late overwrites the outcome that
  another session recorded.
* Three sessions that end one plan can leave plan and thesis with different outcomes,
  because each writes only what differs from what it loaded
  (`app/repositories/trade_plan_repository.py:79`,
  `app/repositories/trade_thesis_repository.py:70`). A scan and the memory job hold
  the plan as open, the scan with its thesis ACTIVE, and the close of another position on
  the coin finds the plan open. The scan commits INVALIDATED. The close loads the
  thesis, which is INVALIDATED now. The memory job commits WIN, thesis COMPLETED.
  The close commits STALE_AFTER_CLOSE for the plan, and leaves the thesis out, since
  it would set it to what it loaded. The plan is now STALE_AFTER_CLOSE and its
  thesis COMPLETED, of a plan that was never executed. TLC finds this in `plans` when
  `ThesisFollowsPlan` allows three endings.

## 6. Plan

1. Done: the book, its accounts, the exit rules and replay; the queue; the
   pipeline and its ledger; the feed and the gate; learning; plans, theses and
   authorizations; the proofs above.
2. Left in these: claims without SKIP LOCKED and the cadence of automatic scopes
   of the queue; retention of the pipeline ledger; decisions on master signals;
   a composition of `PlanAuthorization` with `PaperBook`'s account.
3. Strategy Paper books: the per-book lock and candidate execution. Regime
   hysteresis.
4. Further theorems: that a candle judged by the replay is never judged again in
   full; the ceiling composed with `PlanAuthorization`.

### Not modelled

Collectors and scoring (network input, and numeric code without shared state);
backtesting, replay and validation engines (sequential numeric code over recorded
data: their queue is modelled, their arithmetic is not); request handling,
security and reporting (reads of the tables above); the schema and its
migrations; the front end and the scripts. The share of the repository's lines
that the models stand for is small for this reason: most of its lines are
scoring, reporting and research.
