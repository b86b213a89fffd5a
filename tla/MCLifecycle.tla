---------------------------- MODULE MCLifecycle ----------------------------
EXTENDS Lifecycle

(* Calibrated trades that gain and lose, one that is not, one without a    *)
(* probability, one that is open.  Two losses in a row have no variance, a *)
(* loss after a gain has a negative Sharpe ratio.                          *)
MCTrades ==
  {[pnl |-> 1, prob |-> 95], [pnl |-> -2, prob |-> 5], [pnl |-> -2, prob |-> 75],
   [pnl |-> 1, prob |-> NaN], [pnl |-> NaN, prob |-> 95]}

(* The default floor over two trades, and a Sharpe ratio of 1 over three.  *)
low == [sharpe_window |-> 2, min_rolling_sharpe |-> 0, max_calibration_error |-> 10]
high == [sharpe_window |-> 3, min_rolling_sharpe |-> 1, max_calibration_error |-> 10]
MCDecays == {low, high}

(* A dashboard for each of them, and one with settings of its own.         *)
MCMonitors ==
  {[decay |-> d, sharpe_window |-> d.sharpe_window, periods_per_year |-> 1512] : d \in MCDecays}
    \cup {[decay |-> low, sharpe_window |-> 3, periods_per_year |-> 252]}

(* A ratio that loses, one that wins and one that wins more. *)
MCScores == {-1, 1, 2}
=============================================================================
