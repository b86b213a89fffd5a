----------------------------- MODULE Monitoring -----------------------------
(***************************************************************************)
(* Layer 8: what is computed from the trade journal (l8_monitoring/decay.py *)
(* and monitor.py).  Two parts of the code decide from the same closed     *)
(* trades whether the model has decayed: DecayMonitor, which starts a      *)
(* retraining, and journal_metrics, which feeds the dashboard.             *)
(*                                                                         *)
(* A trade is a record with its net result pnl (NaN while it is open) and  *)
(* the probability prob the trust layer gave it, in hundredths, or NaN.    *)
(* NaN is above and below nothing, as in Python.                           *)
(*                                                                         *)
(* A DecayConfig is a record of that name's fields, a MonitorConfig one of *)
(* decay, sharpe_window and periods_per_year: two windows that are set     *)
(* apart.  A Sharpe ratio and the floor min_rolling_sharpe are kept as     *)
(* their squares with the sign of the number, which compare alike: 1 is a  *)
(* ratio of 1.0.                                                           *)
(***************************************************************************)
EXTENDS Integers, SequencesExt

CONSTANTS
  NaN,
  NBins      \* n_bins of calibration_error

ASSUME MonitoringAssumption == NBins \in Nat /\ NBins >= 1

(* Windows of one trade have no deviation.  Errors are in hundredths.      *)
Windows == {w \in Nat : w >= 2}
DecayConfigs ==
  [sharpe_window : Windows, min_rolling_sharpe : Int, max_calibration_error : Nat]
MonitorConfigs ==
  [decay : DecayConfigs, sharpe_window : Windows, periods_per_year : Nat \ {0}]

(* The periods a year that DecayMonitor annualises with, whatever is set.  *)
DecayPeriods == 1512

IsFinite(x) == x # NaN

(* The comparison x > y of two floats. *)
Above(x, y) == IsFinite(x) /\ IsFinite(y) /\ x > y

Total(seq) == SumFunction(seq)
(* trades[trades[pnl_col].notna()]: the trades that are closed, in order. *)
ClosedTrades(trades) ==
  FoldLeft(LAMBDA closed, t : IF IsFinite(t.pnl) THEN Append(closed, t) ELSE closed, <<>>, trades)

Column(trades, field) == [i \in DOMAIN trades |-> trades[i][field]]

Size(x) == IF x < 0 THEN -x ELSE x

(* rolling_sharpe of the window that ends at i: the square of              *)
(* mean / std * sqrt(periods) with its sign, as a fraction; NaN while the  *)
(* window is not full and when it has no variance.                         *)
RollingSharpe(pnl, window, periods, i) ==
  LET last == SubSeq(pnl, i - window + 1, i)
      sum == Total(last)
      squares == Total([j \in DOMAIN last |-> last[j] * last[j]])
  IN IF i < window \/ \A j \in DOMAIN last : last[j] = last[1] THEN NaN
     ELSE [square |-> periods * (window - 1) * sum * Size(sum),
           over |-> window * (window * squares - sum * sum)]

(* np.digitize on linspace(0, 1, n_bins + 1), clipped. *)
Bin(prob) == Min({(prob * NBins) \div 100, NBins - 1})

(* calibration_error times the number of trades, in hundredths: the bins'  *)
(* |mean outcome - mean prob| weighted by their size.                      *)
CalibrationGap(prob, won) ==
  LET gap(b) == MapThenSumSet(LAMBDA i : 100 * won[i] - prob[i],
                              {i \in DOMAIN prob : Bin(prob[i]) = b})
  IN IF DOMAIN prob = {} \/ \E i \in DOMAIN prob : prob[i] = NaN THEN NaN
     ELSE MapThenSumSet(LAMBDA b : Size(gap(b)), {Bin(prob[i]) : i \in DOMAIN prob})

Won(trades) == [i \in DOMAIN trades |-> IF trades[i].pnl > 0 THEN 1 ELSE 0]

SharpeBreached(sharpe, config) ==
  IsFinite(sharpe) /\ sharpe.square < config.min_rolling_sharpe * sharpe.over
CalibrationBreached(gap, n, config) == Above(gap, config.max_calibration_error * n)

(* DecayMonitor.evaluate(...).retrain_due, for the columns of the closed   *)
(* trades: the last window, if there are enough trades for one.            *)
RetrainDue(closed, config) ==
  LET n == Len(closed) IN
  \/ SharpeBreached(
       RollingSharpe(Column(closed, "pnl"), config.sharpe_window, DecayPeriods, n), config)
  \/ CalibrationBreached(CalibrationGap(Column(closed, "prob"), Won(closed)), n, config)

(* Mutant: the Sharpe ratio of all the trades there are.                   *)
WholeJournal(window, n) == n

(* journal_metrics: eff, the window that fewer trades shorten. *)
EffectiveWindow(window, n) == Max({2, Min({window, n})})

(* journal_metrics keeps the last Sharpe that is not NaN, and calibrates   *)
(* on the trades with a finite probability.                                *)
JournalMetrics(trades, window, periods) ==
  LET closed == ClosedTrades(trades)
      n == Len(closed)
      pnl == Column(closed, "pnl")
      sharpe == [i \in 1 .. n |-> RollingSharpe(pnl, EffectiveWindow(window, n), periods, i)]
      finite == {i \in 1 .. n : IsFinite(sharpe[i])}
      scored == {i \in 1 .. n : IsFinite(closed[i].prob)}
  IN [n_trades |-> n,
      total_pnl |-> Total(pnl),
      rolling_sharpe |-> IF finite = {} THEN NaN ELSE sharpe[Max(finite)],
      n_scored |-> Cardinality(scored),
      calibration_gap |-> CalibrationGap([i \in scored |-> closed[i].prob], Won(closed))]

(* Monitor.snapshot: the dashboard's own retrain_due. *)
SnapshotDue(trades, config) ==
  LET metrics == JournalMetrics(trades, config.sharpe_window, config.periods_per_year) IN
  \/ SharpeBreached(metrics.rolling_sharpe, config.decay)
  \/ CalibrationBreached(metrics.calibration_gap, metrics.n_scored, config.decay)
=============================================================================
