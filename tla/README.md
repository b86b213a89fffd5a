# Aura-X in TLA+

Aura-X (the repository this directory accompanies) is a trading system in layers: bars are
ingested and stored (L0), turned into features (L1), regimes (L2), a directional signal (L3),
labels for training (L4), a trust model over the signal (L5), position sizes (L6), orders (L7)
and monitoring (L8); a validation protocol and a retraining loop sit around it, and a MetaTrader
expert advisor repeats part of L6/L7 in MQL5. Much of it is a pure function of data frames.
What can go wrong in ways a unit test hardly reaches is concentrated where

* an order is sent to a broker that requotes, loses answers or raises, and the process restarts;
* bars arrive, are revised and are ingested while features and labels are computed from them;
* files are read, merged and written back in place by jobs that may die half-way;
* an object keeps state over a sequence of calls (drawdown peak, seen order ids, last regime);
* train and test sets are cut out of overlapping labels by index arithmetic, nested three deep;
* a model is retrained, judged on numbers that may be NaN, saved and loaded across crashes;
* an index runs backwards or forwards over a sequence (barriers, HMM recursions, isotonic pooling).

The modules here model those parts. `PROJECT.json` maps each definition to the lines it
translates, and lists runs, mutants, hazards, findings and theorems. Paths below are relative to
`src/src/aurax/` unless they start with another directory.

## 1. Inventory

| component | state it keeps | operations | modelled in |
|---|---|---|---|
| L7 `l7_execution/*` | `_seen` order ids; paper broker's quotes and requotes; the broker's account | `execute_all`, `execute`, `_send_with_retry`, `_journal`, `place_order` of both brokers | `Execution`, `IdealOrders` |
| Trade journal, `db/repository.py` `TradeRepository` | `trades` table | `record_open` (ON CONFLICT DO NOTHING) | `Execution` (`journal`) |
| L6 `l6_risk/sizing.py` | `_peak_equity` | `evaluate`, `circuit_breaker_tripped` | `Sizing` |
| L6b `l6_risk/allocation.py` | two networks, previous weights | PPO training, `allocate` | not modelled |
| L0 parquet stores `l0_data/store.py` | one file per symbol and timeframe (and per feature or label set) | `_upsert_parquet`, loads | `ParquetStore`, `UpsertTable` |
| L0 ingestion `l0_data/ingestion.py`, `scripts/ingest.py` | where a run stands, its summary | `ingest_universe`, `ingest_bars`, `ingest_ticks` | `Ingestion` |
| L0 MT5 client and schema | `_connected`, the terminal's session | `connect`, `shutdown`, `copy_rates`, `copy_ticks` | `Ingestion` |
| Database repositories `db/*`, `src/sql/*` | tables | upserts in one transaction | `UpsertTable`, `Execution`, `Ingestion` (partly) |
| L1 features `l1_features/*`, `scripts/build_features.py` | feature store | the four default blocks, `build_feature_matrix` | `Features`, `Ingestion` (which bars, not which numbers) |
| L2 regime `l2_regime/*` | fitted HMM, `_state_to_regime` | `fit`, `predict`, posterior, Viterbi, rule gate, shock override | `Regimes`, `Signal` (not Baum-Welch) |
| L3 ensemble and deep members `l3_primary/*` | fitted members | `predict_proba`, `predict_side`, weights per regime | `Decision`, `Signal` (members' answers are inputs) |
| L4 labeling `l4_labeling/*`, `scripts/make_labels.py` | label store | triple barrier, trend scanning, uniqueness, decay, relabelling | `Labeling` |
| L5 trust model `l5_meta/*` | base, calibrator, threshold | out-of-fold primary, `fit`, isotonic calibration, `tune_threshold`, `MetaGatedPrimary` | `MetaTraining`, `Decision`, `Signal` |
| Splitters `validation/cpcv.py`, `walkforward.py` | none | purge, embargo, CPCV, purged k-fold, walk-forward, holdout | `Splitters` |
| Harness `validation/harness.py` | models and folds of one call | `run_validation`, `oof_predict`, the verdict | `Validation`, `Lifecycle` (verdict) |
| Metrics, backtest, baselines | none | Sharpe, deflated Sharpe, ... | only which values can be NaN and how they are compared: `Lifecycle` |
| Lifecycle `lifecycle/*` | served model, bundle on disk | `train`, `maybe_retrain`, `save`, `load` | `Lifecycle`, `ModelRegistry`, `MetaTraining` |
| L8 monitoring `l8_monitoring/*` | `_last_regime`, `_peak` | decay test, journal metrics, snapshot, `on_regime`, `update_equity` | `Monitoring`, `Lifecycle`, `Signal` |
| MQL5 EA `src/mql5/*` | `last_bar_time` | `OnTick`, guards, sizing | not modelled: its signal transport is a stub |
| HTTP API `api/*` | none | read-only queries | not modelled |
| Configuration, logging, types, remaining scripts | none | load, format | not modelled |

How they interact:

* `scripts/ingest.py` upserts bars and ticks; `build_features.py` and `make_labels.py` read all bars
  and upsert features and labels through the same `_upsert_parquet` or the database. Jobs are separate
  processes that share only the store: `Ingestion` composes an ingestion run, backfills and a
  feature build over one database; `ParquetStore` is the file a job goes through without one.
* `validate.py` and the lifecycle read features and labels, and hand `t1` (label spans) to the
  validation harness, which calls back an estimator factory for each fold; the factory of the
  lifecycle builds a `MetaGatedPrimary`, which runs purged cross-validations of its own in `fit`
  (`MetaTraining` composes the two). The harness' verdict decides in `maybe_retrain` whether a
  model is promoted (`Lifecycle`).
* In trading, L2's regime selects L3's weights, L5's gate lets a side pass (`Signal` composes the
  three with the monitor's hooks), `RiskManager.evaluate` turns sides into sizes (`Sizing`), and
  `Executor.execute_all` turns approved sizes into orders and journals the fills (`Execution`).
* L8 reads the journal; a decayed model is retrained (`Lifecycle` over `Monitoring`).

What makes each part correct, and which behaviour makes it hard:

* **Execution** - one order per symbol and bar; a fill is never repeated; a requote is retried; the
  journal tells the truth. Hard: send, mark seen and journal can be cut apart anywhere.
* **Sizing** - nothing is sized in a drawdown; aggregate risk within the cap; more confidence never
  gives less. Hard: the order gate, cap, rounding, and a peak kept over calls.
* **Stores, ingestion** - an acknowledged row stays; an upsert is atomic; a run that returns has stored
  its window. Hard: read-merge-write in place, a session lost between two pairs, forming bars.
* **Features** - a row depends on earlier bars only and recovers from holes. Hard: two legs read one
  after the other, NaN carried through chained windows.
* **Splitters and harness** - no model is judged on a label that overlaps one it was fitted on; purging
  drops nothing else; the holdout is untouched. Hard: labels of different length, nested and touching
  spans, remainders, indexes with holes.
* **Labeling** - a finished label never changes; a win is a win; weights count each bar once; a falling
  trend is a trend. Hard: the last bar is still forming, and every horizon is clipped to it.
* **Trust model** - judged, calibrated and validated out of fold at every depth of nesting; a better
  score never fails a gate that a worse one passes.
* **Regimes, decision** - inference is the sum or maximum over all paths; weights never turn a vote
  around. Hard: indices of t, t+1 and t-1; overrides that are negative, empty or for absent members.
* **Lifecycle, monitoring** - promote only what passed, retrain when the dashboard says so. Hard: NaN
  compares with nothing, a bundle is written in place, two computations of one statistic.

`PROJECT.json` "hazards" lists forty places where these can break, each with the property that
covers it or the reason none does.

## 2. Modules

| module | code it stands for | role |
|---|---|---|
| `IdealOrders` | the promise of `executor.py:7-8` | abstract: each order id is decided once |
| `Execution` | `executor.py`, `broker.py`, `repository.py:178-199` | executor, both brokers, journal, clock, restarts |
| `Sizing` | `sizing.py` | sequences of batches through `evaluate` |
| `UpsertTable` | `repository.py`, ON CONFLICT paths | abstract: an upsert is atomic, last writer wins per row; or, as a file does, it destroys the table |
| `ParquetStore` | `store.py:72-84`, `ingestion.py` | one file, jobs, revisions, crashes |
| `Splitters` | `cpcv.py`, `walkforward.py` | operators on sets of events |
| `Validation` | `harness.py` | the protocol that drives the splitters |
| `Labeling` | `triple_barrier.py`, `trend_scanning.py`, `uniqueness.py`, `labeler.py`, `make_labels.py` | bars arriving and the labelling job |
| `MetaTraining` | `l5_meta/pipeline.py`, `meta_model.py`, `training.py` | training of the trust model, alone and nested in validation |
| `Monitoring` | `decay.py`, `monitor.py` | operators: the two computations of decay |
| `ModelRegistry` | the promise of `retrain.py:3-6` | abstract: only cleared models serve, none comes back |
| `Lifecycle` | `retrain.py`, `training.py`, `harness.py` (verdict) | journal, retraining, verdict, save, load, crashes |
| `Regimes` | `hmm.py`, `detector.py` | operators: inference, state mapping, rule gate |
| `Decision` | `ensemble.py`, `base.py`, `deep.py`, `calibration.py`, `meta_model.py` | operators: blend, side, isotonic fit, threshold |
| `Signal` | `detector.py`, `ensemble.py`, `monitor.py` hooks | composition: from a row to a gated side |
| `Features` | `l1_features/*` | operators: which bars a feature comes from |
| `Ingestion` | `ingestion.py`, `mt5_client.py`, `schema.py`, `scripts/ingest.py`, `build_features.py` | runs, backfills and builds over one database |
| `ExecutionProofs`, `ValidationProofs`, `MetaProofs` | | theorems about `Execution`, `Validation`, `MetaTraining` |
| `BetProofs` | | theorems about `Sizing` and `Labeling` |
| `StoreProofs` | | theorems about `ParquetStore`, `Ingestion` and `Features` |
| `LifecycleProofs` | | theorems about `Lifecycle` and `Monitoring` |
| `SignalProofs` | | theorems about `Signal` and `Decision` |
| `DataProofs` | | theorems about `Splitters`; lemmas on sums, folds, ranks |
| `MC*` | | instances for TLC |

Definitions under a comment "Mutant:" are plausible bugs; no specification uses them. For each property
of each passing run there is one that, put in the place of the code's definition, breaks it.

### Execution

`Begin` is a call of `execute_all`; its legs are then handled one at a time, in any order (the code
loops over the dictionary it is given). `Skip` and `Route` are the two ways through `execute` up to the
send: a leg is skipped if it is not approved, its id is in `_seen`, or a guard says no. `PaperPlaceOrder`
and `LivePlaceOrder` are `place_order` of the two brokers, with the answer's treatment in
`_send_with_retry` (`Retry`). `MarkSeen` is `self._seen.add`, `RecordOpen` the journal write. An exception
from `place_order` propagates out of `execute_all` (`Abandon`). The spread and news guards are an input
(`guardsOk`), as they depend on quotes and calendars the executor does not own. `Restart` may
happen between any two steps and empties `_seen`; the account and the database survive.
Sizes are even integers so that the paper broker's half fills exist. An order id is a symbol and a
minute: the bar's open if the caller passes `bar_ts`, else the minute of `now` (`executor.py:109`).

### Sizing

`Evaluate` is the whole of `RiskManager.evaluate`: peak update, breaker, per-leg gates, confidence
multiplier, covariance cap and lot rounding. Arithmetic is exact: probabilities are multiples of
`1/One`, risks are integers, and the square root of the aggregate risk is compared squared. `Deliver`
returns the decisions. `shown` is a history variable.

### ParquetStore and UpsertTable

An upsert is four steps of a job: `Fetch`, `ReadAndCombine`, `OpenForWrite` (which truncates) and
`FinishWrite`; `Crash` leaves what was being written torn. A bar's data is its version. Loads are pure
reads and are not actions. The table that the file is refined to (`Table`) has the rows of the file; while
a job is writing, those it had before; and none once a write has died and the file stays torn
(`Destroyed`). `UpsertTable` has two forms. With `Fragile` a batch may destroy the table, after which no other
goes in: this is what the store implements (`UpsertsUnlessTorn`). Without it nothing is ever lost, which is
the guarantee `store.py:15-17` claims (`UpsertsLikeDB`): it holds as long as no job dies
(`StoreLikeDBWithoutCrashes`), and is refuted otherwise (section 5).

### Splitters, Validation

An event is the time of its bar, an index a set of times, and a split two sets of events. The interval
merge of `purge_train_times` is modelled as the code does it (merged starts, running maximum of ends,
one look-up by `searchsorted`), not by the overlap test it is meant to equal. The embargo looks label
ends up in the index it is given and skips those it does not find. `Validation` runs the loops of
`run_validation` (holdout, CPCV in lexicographic order, walk-forward, final fit) and `oof_predict`,
recording for each fit what it was fitted on and what it predicts.

### Labeling

Time counts bars. `Arrive` and `Revise` are the market: a new bar opens, or the newest one moves, its range
only growing. `Relabel` is a run of `make_labels.py`: every bar is labelled afresh and upserted over
the stored records. `LabelOf` is the walk of `triple_barrier_labels` for one event in both modes. The
weights of `uniqueness.py` are integers over a common denominator (`Unit`) and left unscaled: the
scaling to mean 1 is one positive factor for all labels of a run. `TrendOf` is the scan of
`trend_scanning.py`: for every horizon from `MinHorizon` to `MaxHorizon` that the bars allow, the slope
of the least-squares line and its t-value, compared squared and multiplied out; closes stand for
their logarithms. On a straight line exact arithmetic leaves no residual. In floats it depends: usually
some rounding is left and the t-value is enormous, as in the test on `np.linspace`; sometimes nothing is,
and the code answers t = 0 (`trend_scanning.py:37`). `rounded` gives every straight horizon either 0 or one of the
squared t-values `LineTs`, and the properties are about every choice of it (`Roundings`). `TrendIsStrongest`
says that the label is the sign of the strongest slope exactly when some horizon reaches the threshold, with
the t-values rounding gave; that a clean rise is always labelled up (`CleanRiseIsUp`) is false (section 5).

### MetaTraining

A model is the set of events it was fitted on. Two callers: `StartTrain` (`TrainingPipeline.train`, all
events) and `StartGate` (`MetaGatedPrimary.fit` inside a fold of `run_validation`, which later predicts
`test`). `OuterSplits` are all the folds `run_validation` fits an estimator for: every combination of CPCV test
groups and every walk-forward block, both cut from the development part, and the holdout. The primary's bets are any subset of what it predicts. `PrimaryFold` is `_oof_primary`,
`MetaFold` and `Calibrate` are `MetaLabelModel.fit`, `Tune` is the threshold search, `RefitPrimary` the
gate's last fit.

### Monitoring, Lifecycle, ModelRegistry

`Monitoring` has the two computations of decay from one journal: `RetrainDue` (`DecayMonitor.evaluate`:
a full window, NaN never a breach) and `SnapshotDue` (`journal_metrics` and `Monitor.snapshot`: a
shortened window, the last defined ratio, only trades with a probability). Each has a configuration of its own
(`DecayConfigs`, `MonitorConfigs`): the windows are two settings, and so are the floors and limits. A
Sharpe ratio and its floor are kept as signed squares, the ratio as a fraction; the calibration error times
the number of trades. `DecayIsOnDashboard` is stated for two sides set alike (`SetAlike`), as they are by
default. `Lifecycle` adds the journal (`Trade`), `maybe_retrain` in its steps (`StartRetrain`, `Train`,
`Validate`, `Raise`), `save` in two (`OpenBundle` truncates; `DumpBundle` fills, or `DumpFails`, `pickle.dump`
raising half-way while the process goes on), `Adopt` (a load in the serving process) and `Restart`. The
verdict is step 7 of `run_validation` on ratios that may be NaN: `PythonMax` keeps or skips a NaN
depending on where it stands. Nothing under `src/` drives these calls, so their order is the
environment's choice. `NothingUngated` maps the lifecycle to `ModelRegistry`.

### Regimes, Decision, Signal

Probabilities are integers over a common scale, so inference is exact: `Forward`, `Backward`, `Posterior`
and `Decode` are the unnormalised recursions of `hmm.py` with their indices; the fitted HMM is a
constant. `LearnMapping`, `RuleGate` and `Label` are the detector's. The shock override is
a constant (`ShockOverride`), as it is a setting. A member answers with the classes its fit has seen and a column
for each of them; `Align` spreads the columns over the three classes. `Blend` and `Side` are the ensemble's
decision over what comes of it; `Answer` gives a deep member's neutral answer while the window is not full
(`deep.py:147-148`). `UnanimityHolds` compares the decision with what each member says by its own columns,
before any alignment. `Pava`, `Calibrator`, `TuneThreshold` and `Gated` are the trust layer's live side.
`Signal` strings them together: bets are collected and the gate is trained, in one of the code's two
ways - `TrainTrust` tunes a threshold, `FitGated` (`MetaGatedPrimary.fit`) keeps the configured one, and with
fewer than two bets per fold leaves the gate unfitted, which lets every side pass - the detector is fitted, then rows come in, are labelled, reported to the monitor (`ReadRegime`,
`UpdateEquity`) and decided on (`Decide`); `Restart` forgets what the process keeps in memory.

### Features, Ingestion

A feature's value is the set of bars it was computed from, or NaN: `Shift`, `Rolling`, `Ewm`, `Join` are
pandas' propagation of NaN and of provenance, and the blocks are written with them. `Ingestion` has
the clock (the newest bar is forming), the terminal, which may drop the session at any time, one
ingestion run (`StartRun`, `FetchBars`, `StoreBars`, `FetchTicks`, `StoreTicks`, with `Raise` for every
exception), `Backfill` (an `ingest_bars` alone, which connects lazily and never disconnects), and a
feature build in two steps (`LoadBars`, `StoreFeatures`) because the legs are read one after the other.
`basis` records, per stored row, the bars it was built from.

## 3. Runs

| run | instance | shows |
|---|---|---|
| `exec_paper` | 2 symbols, 3 minutes, bars of 2, 2 attempts, up to 3 requotes | on the paper broker no bar is filled twice, requotes and only they are retried up to the limit, journal = account, every batch returns, `IdealOrders` is implemented |
| `exec_live` | 2 symbols, 2 minutes, ids by bar or by minute, 1 restart, failing journal | what still holds when answers are lost and the process dies |
| `exec_restart` (violation) | as above, every caller passing `bar_ts`, 3 minutes, 3 attempts | after a restart a bar is filled twice |
| `sizing` | 2 legs, 4 probabilities, 3 lot grids, 4 equities, 2 correlations, default configuration | breaker, cap, monotone confidence |
| `store` | 1 job at a time, 3 bars, 1 revision each, 1 crash | acknowledged rows survive while the file is readable; each write is one atomic upsert, or a crash in it destroys the table |
| `validation` | dense index of 8 and sparse index of 5 events, spans of 1 to 3 bars, 5 CPCV groups, 3 folds | no leak, exact purging, unseen holdout, forward only, one prediction each |
| `embargo` (violation) | 4 groups, embargo of a third | an embargo is skipped when a label's end is not in the index |
| `labeling` | 5 bars of 5 shapes, labels of up to 2 bars, 3 side series, trends over 2 to 4 steps, 3 outcomes of rounding on each straight one | finished labels never change, wins are certain, weights add up, the strongest trend is kept whichever way it goes and labelled when it reaches the threshold |
| `meta` | 7 events, dense or sparse, spans up to 3; 15 CPCV combinations, 10 walk-forward folds and the holdout outside, 2 folds at each level inside | out-of-fold at every depth |
| `lifecycle` | 3 trades of 5 kinds, 2 settings of the retrainer and 3 of the dashboard (windows of 2 and 3, floors of 0 and 1), 2 CPCV paths, 2 or 3 baselines, each ratio one of 3 values or NaN, 2 versions, any number of crashes | only cleared models serve, a pass beats every baseline, decay is on the dashboard |
| `signal` | histories of up to 3 rows of 3 kinds, 3 hidden states, 2 fits, 2 members of which one is deep, answers over all classes or two of them, up to 4 bets, 2 equities, restarts | inference exact, calibration monotone, votes never turned, the monitor tells |
| `ingest` | 2 pairs, 7 bars with a hole in one leg, of which 2 close while jobs run, 2 windows, 2 runs, 2 builds, 1 lost session | rows settle and heal, a run that returns has stored its window, every run ends |

Why the bounds are enough to be interesting. *Execution*: a double fill needs two batches with one
key and at most one restart; two attempts reach both sides of the retry limit, and with up to three
requotes a leg can exhaust its attempts and the next one still meet one; three minutes give two bars
and a bar that is processed twice. *Sizing*: two legs give hedged and stacked books; the grids give a leg
that rounds to zero, one that rounds down and one without ATR; the probabilities lie below, at and
above the threshold and at the multiplier's cap; equities include a drawdown of exactly the limit.
*Store*: one revision and one crash suffice for each loss the protocol can have, and a third bar
lets a batch overlap the file in part. *Validation*: spans of three on neighbouring events nest, touch
and overlap across blocks; eight events in five groups leave a remainder; the sparse index has label
ends that are not events. *Labeling*: five bars let a label be clipped, relabelled, finished and then
followed by two more bars, and give two overlapping trend windows a choice; one shape touches
both barriers. *Meta*: the outer folds have the
default numbers of CPCV groups and walk-forward splits (`cpcv_n_groups`, `cpcv_n_test_groups`,
`walk_forward_splits`), so two test groups can be neighbours or apart; with two folds at each inner level every
fold's train side can be empty or overlap its test side. *Lifecycle*: three trades are one more than the shorter window, so a window without
variance follows one with, and fill the longer one; one dashboard differs from both retrainers; two versions let a rejected, a torn and an older model compete for the file;
NaN can stand at each position of the baselines. *Signal*: three rows are the fewest with a row that has
both a predecessor and a successor; four bets let pooling go back over a block that was already pooled;
one row kind is a warm-up with NaN, one is a shock. *Ingest*: the hole's effect on the chained lag
windows ends exactly with the last row; two windows overlap; the session can drop between any two
steps of either pair.

`CHECK_DEADLOCK` is off only in `ingest.cfg`, where the system stops when its runs, builds and clock are
used up (`MaxRuns`, `MaxBuilds`, `LastNow`). Elsewhere every model can always take a step.

Fairness. Two properties are liveness properties. `BatchReturns` (every call of `execute_all` returns) is
checked under `FairSpec`, `RunsEnd` (every ingestion run ends) under the `Spec` of `Ingestion`; each adds
`WF_vars(Step)`, where `Step` is the next statement of the one thread that runs the call. There is no
lock, queue or await in either piece of code, so while the thread has a next statement it runs it; a
terminal that never answers is the library's business. Nothing is assumed of clock, quotes, sessions,
restarts, builds or callers.

## 4. Proofs

All proofs are checked by TLAPS for arbitrary values of the constants, from the `ASSUME`s of the modules
(ranges of configuration values; TLC evaluates each on a passing run) and the assumptions a theorem
states.

*ExecutionProofs.* `TypeInv` adds to `TypeOK` that a leg still to be sent has an attempt left. From it and
`LifeInv` - an id in flight is not in `_seen`, and has at most one deal more than the lives before this
one once it is spent - follow `DealtOncePerLife` and `NoSecondDeal`. Neither statement is inductive
without the first part: what protects an id during its own send is not `_seen`, which is written after
it, but that one thread handles one leg at a time. `ExecutionImplementsIdeal` maps each step to a
decision of one id or a stutter; it assumes `MaxRestarts = 0`, and `exec_restart` shows that it must.
`OneFillWithBarTs` is the docstring's promise under the two assumptions that make it true: one life of
the process, and every caller passing `bar_ts`; its invariant `AlignedIds` says that every id dealt is the
open of a bar. `BooksAgree` (paper broker, no failing write) rests on `Books`: a row is settled and its
volume right, and a volume not yet in the journal belongs to the call in flight.
`IdsConsumedBySends`, `JournalNeverPhantom` and `PaperRequotesRetried` (for the paper broker only) each
have a short invariant of their own.

*DataProofs.* Everything below that folds over a set or a sequence rests on this module. The library's
induction theorems take the predicate as an operator, which no installed prover can instantiate; here
the predicate is a set, the values it holds of, and induction becomes a lemma about a set that contains
0 and is closed under successor (`NatSetInduction`), under adding an element (`FiniteSetInduction`),
or under one step of a fold (`FoldInduction`, `LeftFoldExists`). From those: what `SumFunction` does under
addition, scaling, order and splitting of its domain, double counting, remainders and floors, ranks.
`PurgeExact`: the merged intervals and the single look-up of `purge_train_times` remove exactly the labels
that overlap a test label, for every set of spans. `GroupsPartition`: the arithmetic of `np.array_split`
partitions an index. The lemmas on what one purged, walk-forward or holdout split guarantees serve
`ValidationProofs` and `MetaProofs`.

*BetProofs*, on `Sizing`. `ConfidenceBounded` is about the multiplier alone. `BreakerCorrect` rests on
`PeakInv`: the peak bounds every equity shown, and the decisions at hand are those of the equity at hand; the
arithmetic lemma `DrawdownFromPeak` turns a drawdown from any earlier equity into one from the peak.
`MoreConfidenceMoreRisk` (`ConfidenceOrders`) and `CapCorrect` rest on `BatchInv`: the decisions shown are
`Evaluate` of the batch shown. `CapCorrect` has a condition on the batch: no two legs hedge each
other (`Unhedged`), or there are at most two, neither of which can exceed the cap alone (`TwoLegs`). It is
not an artefact of the proof: rounding the lots of a hedging leg down after the cap was applied raises the
aggregate risk again. `CapOfPair` is the case of
`default.yaml`: two instruments, and a largest single risk (0.5 % times 2) within the cap (1.5 %).

*BetProofs*, on `Labeling`. `LabelInv`: every stored label whose span is closed is the label of the bars as
they now stand. `LabelsSettle` is the action property `SettledNeverChanges`; `WinsCertain` assumes that ties go
to the stop (`TieBreak = "sl"`, the default), and is false without; `TakenBetsHaveGained` assumes a positive
multiple for the take-profit. `SharesAddUp` (`InformationCountedOnce`) is a double count: the sum over labels of
their shares of a bar, summed over bars, is the sum over bars of one unit. `TrendsAreStrongest`
(`TrendIsStrongest`) is an induction over the turns of the scan: squared t-values are fractions with
denominators above zero (`SumSchwarz`, the inequality of Cauchy and Schwarz on sums), their order is
transitive, mirrored closes turn every sign and no comparison, and the values rounding gives to straight lines are
fractions like the others.

*ValidationProofs.* The properties speak of the fold at hand, which says nothing of how it was made, so
`IInv` adds that: a cross-validation fold is the purged split of some test set (`FoldShape`), whatever was
touched before the last fit is in a development set whose labels end before the holdout starts
(`DevShape`), and the predictions written are those of the folds visited (`OOFShape`). Theorems:
`TypeCorrect`, `NoFoldLeaks`, `PurgingIsExact`, `HoldoutNeverTouched`, `FitsUseThePast`,
`EveryEventOnce` - every property of the run `validation`.

*MetaProofs.* The same for the trust model: `MInv` says of every model in the nest that it was fitted on
the train side of a purged split of the events its caller had, and of the caller's events that they do
not overlap the outer test. `BetsJudgedOutOfFold`, `ScoresOutOfFold` and `NestedFitsUnseen` are every
property of the run `meta`.

*LifecycleProofs.* `LifecycleIsGated`: the refinement to `ModelRegistry`. `LInv` follows a version on its way
- in training, in the result, in the file, serving - and says at each place that it is cleared (or that
the gate is not required) and not older than what has served. `DashboardTells` (`DecayIsOnDashboard`):
with equal settings, whatever they are, what the decay monitor reacts to the dashboard's statistics show; the two computations share no
code, and the proof takes them window by window. `PassedBeatsAll` (`PassBeatsEveryBaseline`) is an
induction over `PythonMax`: a NaN that the maximum keeps fails the verdict, and one that it skips leaves a
maximum over the rest.

*SignalProofs.* `MonitorIsRight` (`MonitorTells`): the regime changes and drawdowns reported are those of the
labels and equities shown since the last start. `UnanimityIsKept` (`UnanimityHolds`): when every member would
bet one way by its own columns, neither their alignment, nor weights, nor overrides, nor the blend turn the
vote around (the sum of the columns given to a class is the one that `Align` picks, as `OutputsAssumption`
says that a fit lists each class once). `InferenceIsRight`
(`InferenceIsExact`) compares the recursions with all paths of full length, so that no set of paths changes
with the row: the paths that start like `q` weigh what `q` does so far times the backward score (`TotalOfStart`,
down the rows), those that agree with it from `s` to `t` the forward score times that (`TotalThrough`, up the
rows, where the weight of the changed path is cancelled; this needs `HmmAssumption`, that nothing has weight
zero). For Viterbi no path weighs more than the score of its last state, and the decoded one weighs as much.

`FitIsNearest` (`IsotonicIsNearest`) is about sums of labels and weights up to each place, and slopes between
them (`Below`), so that means are compared without a division. `PoolChains`, an induction over the inner loop,
keeps the blocks in a `Chain`: slopes that never fall from block to block, and no beginning of a block below its
rest (`Hung`). Then the mean of a block is the lowest of those that begin with it and the highest of those that
end with it (`LowestFrom`, `HighestTo`), which is the max-min formula; rounding down to 1 / `Scale` keeps the
order (`FloorOrder`). The stable sort is a rank, injective and so a permutation (`PlacesAre`); the means of tied
scores rise with them (`MeansBetween`), so interpolation does (`PassesUp`), whatever the threshold tuned. It needs
`BetsAssumption`: labels 0 or 1, weights positive (the loop divides by sums of them).

*StoreProofs*, on `ParquetStore`. Under `OneJob` (at most one job), `SInv` relates the file, the frames in
memory, `saved` and the acknowledgements; `NothingAckedIsLost` and `StoreImplementsTable` (the refinement to the
fragile `UpsertTable`) follow, with any number of revisions, reruns and crashes. With two jobs both are false.
`StoreLikeDBWithoutCrashes` is the refinement to the table that cannot be destroyed, which in addition needs
that no job dies.

*StoreProofs*, on `Ingestion` and `Features`. `RInv`: what a run has in memory or has stored covers the window
at least as completely as the market did when the run began, pair by pair; no later upsert takes a closed
bar back. `RunsEndClean` is the action property `RunsAreClean`. `StoredRowsSettle` (`RowsSettle`) adds `DInv`:
every stored feature row is the row that the feature matrix of its `basis` has at that time. It needs that the feature matrix is causal - tables that begin alike have
matrices that begin alike - which is proved operator by operator (`Begins`, `BlockBegins`,
`MatrixIsCausal`) up from shifts, rolling and exponential windows. `HolesHeal` (`NaNsHeal`) is the
counterpart: past the `Horizon` of a hole every window of every block is solid, so no NaN is left. It assumes
`NaNIsNoValue`, that the value standing for NaN is not a set of bars.

The merges of tables (`Over`, `Upserted`, `Commit`) are written as functions rather than with `@@`, sums as
`SumFunction` over a named function, and the models have no RECURSIVE operator, so that the prover sees
through them.

Every safety property of a passing run is stated by a theorem, some under the conditions named above. Only
model-checked:

* `BatchReturns`, `RunsEnd`: liveness, which is beyond the proof system, as is ENABLED.

## 5. Findings

`PROJECT.json` quotes the lines. Shown by violation runs: a bar filled twice across a restart
(`exec_restart`), an embargo that is skipped (`embargo`). Shown by a change to a configuration:

* `RiskPerTrade = 2` in `sizing.cfg` refutes `CapHolds`: rounding after the cap can exceed the cap;
* `BarTs <- MCGivenOrNot` in `exec_paper.cfg` refutes `OneFillPerBar`: without `bar_ts` the id is the minute of the
  call, and a bar is traded twice in one life of the process;
* `PROPERTY UpsertsLikeDB` in `store.cfg` is refuted: a crash in the write in place destroys all earlier rows;
* `INVARIANT CleanRiseIsUp` in `labeling.cfg` is refuted: a rise along a line without a residual in floats gets
  t-value 0 and label 0;
* `Jobs` of two elements and `MaxCrashes = 0` in `store.cfg` refute `AckedRowsSurvive`: a lost update;
* `INVARIANT WinRatePointInTime` added to `meta.cfg` is refuted: the win-rate feature uses outcomes that are
  not known yet.

Visible in a definition: a live requote is never retried (`LivePlaceOrder`); the trust threshold is tuned
on in-sample probabilities (`Tune` after `Calibrate`); every insert of ticks raises on a generated column
(`StoreTicks`); the model promoted is not the one validated (`Validate`); the regime of a past row
depends on later ones (`Posterior`); the dashboard's route hands the journal over newest first
(`JournalMetrics`); one undefined lag blanks the best lead-lag (`Stronger` in `Features`).

## 6. Not modelled, and what is left

* L6b allocation: an optional PPO agent nothing else calls; gradient descent over reals with three guards.
* The MQL5 expert advisor: `FetchSignal` always returns false, so `OnTick` returns before it sizes
  or sends; once a transport is wired, `last_bar_time`, which is set before the guards, and the sizing
  that mirrors `sizing.py` would be the things to model.
* Learners and statistics: Baum-Welch, Platt scaling, gradient boosting, the networks of the deep
  members and their early stopping, Sharpe ratios and their deflation. They enter as inputs or constants.
* The cost-adjusted search for the threshold, `by_return` weights, a side series with holes, the optional
  DFA feature, the `correlation` of legs from returns.
* The HTTP API (stateless queries), configuration, logging, command lines.
* Simplified: floats are exact rationals (so the lost lot step of `math.floor(0.3 / 0.1)` is not seen;
  only the t-value of straight lines, where rounding decides, is left open); two requests for one symbol in a batch do not occur;
  the numbers in features do not exist.

Left for later work, in this order: two concurrent ingestion runs over the database; the expert advisor when
its transport exists.
