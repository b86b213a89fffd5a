------------------------------- MODULE Sizing -------------------------------
(***************************************************************************)
(* Layer 6: RiskManager (l6_risk/sizing.py).  One action, Evaluate, is the *)
(* whole of RiskManager.evaluate; Deliver hands the decisions on and makes *)
(* room for the next batch.                                                *)
(*                                                                         *)
(* Arithmetic is exact.  Probabilities are multiples of 1/One, and every   *)
(* risk - of a leg, of a lot step, of the cap - is a multiple of           *)
(* 1/ConfDen of the unit in which RiskPerTrade and CorrelationCap count.   *)
(* The square root of r'Cr and the scale factor cap / sqrt(r'Cr) are kept  *)
(* squared.  ATR, price and contract size enter only through the risk of   *)
(* one lot step.                                                           *)
(***************************************************************************)
EXTENDS Integers, FiniteSetsExt

CONSTANTS
  Symbols,         \* instruments; a batch has at most one request for each
  Probs,           \* meta-probabilities, in 0 .. One
  Grids,           \* [step, min]: risk of one lot step (0: ATR is not positive), min_lot in steps
  Equities,        \* account equities
  Rhos,            \* correlations used, in tenths
  One, Tau,        \* meta_threshold_tau = Tau / One
  KellyNum, KellyDen, MaxMult,   \* kelly_fraction, max_confidence_mult
  RiskPerTrade, CorrelationCap,  \* in risk units
  BreakerPct,      \* max_drawdown_breaker, in percent
  MinusInf         \* the initial _peak_equity, -inf

ASSUME SizingAssumption ==
  /\ IsFiniteSet(Symbols)
  /\ One \in Nat \ {0} /\ Tau \in 0 .. One - 1 /\ Probs \subseteq 0 .. One
  /\ Grids \subseteq [step : Nat, min : Nat \ {0}]
  /\ Equities \subseteq Int /\ Rhos \subseteq -10 .. 10
  /\ KellyNum \in Nat /\ KellyDen \in Nat \ {0} /\ MaxMult \in Nat
  /\ RiskPerTrade \in Nat /\ CorrelationCap \in Nat /\ BreakerPct \in 1 .. 100
  /\ MinusInf \in Int /\ MinusInf <= 0 /\ \A e \in Equities : MinusInf < e

VARIABLES
  peak,    \* RiskManager._peak_equity
  shown,   \* history: every equity evaluated so far
  equity,  \* equity of the batch at hand
  reqs,    \* the batch: symbol -> SizingRequest; empty between batches
  rho,     \* correlation the batch is evaluated with
  out      \* symbol -> SizingDecision

vars == <<peak, shown, equity, reqs, rho, out>>

Requests == [side : {-1, 0, 1}, p : Probs, shock : BOOLEAN, grid : Grids]
Batches == UNION {[S -> Requests] : S \in SUBSET Symbols}
Nothing == [s \in {} |-> 0]

(* SizingDecision: size in signed lot steps, realised risk, reason.        *)
Refusals == {"circuit_breaker", "flat", "regime_standdown", "meta_gate", "below_min_lot"}
Refused(reason) == [steps |-> 0, risk |-> 0, reason |-> reason]

-----------------------------------------------------------------------------
(* confidence_multiplier, times ConfDen.                                   *)

Least(a, b) == IF a <= b THEN a ELSE b
Most(a, b) == IF a >= b THEN a ELSE b

Ref == IF 2 * Tau > One THEN 2 * Tau - One ELSE One - Tau
ConfDen == KellyDen * Ref

(* Mutant: a value beyond the hard cap is discarded. *)
ConfDiscarded(p) ==
  IF p < Tau \/ KellyNum * (2 * p - One) > MaxMult * ConfDen THEN 0
  ELSE Most(0, KellyNum * (2 * p - One))

Conf(p) ==
  IF p < Tau THEN 0 ELSE Least(MaxMult * ConfDen, Most(0, KellyNum * (2 * p - One)))

(* The per-leg gates of evaluate, in order; "ok" is a sized leg.           *)
Gate(r) ==
  IF r.side = 0 THEN "flat"
  ELSE IF r.shock THEN "regime_standdown"
  ELSE IF Conf(r.p) = 0 THEN "meta_gate" ELSE "ok"

LegRisk(r) == RiskPerTrade * Conf(r.p)
Cap == CorrelationCap * ConfDen

(* Ten times r'Cr for signed risks of the active legs.                     *)
(* Mutant: the legs are taken as uncorrelated.                             *)
VarianceUncorrelated(risk, c) ==
  MapThenSumSet(LAMBDA s : 10 * risk[s] * risk[s], DOMAIN risk)
Variance(risk, c) ==
  SumFunction([pair \in (DOMAIN risk) \X (DOMAIN risk) |->
                 (IF pair[1] = pair[2] THEN 10 ELSE c) * risk[pair[1]] * risk[pair[2]]])

(* Whole lot steps in a leg's risk, scaled by Cap / sqrt(var / 10) when    *)
(* the aggregate exceeds the cap.                                          *)
Steps(risk, grid, var) ==
  IF grid.step = 0 THEN 0
  ELSE IF var <= 10 * Cap * Cap THEN risk \div grid.step
  ELSE Max({k \in 0 .. risk \div grid.step :
              k * k * grid.step * grid.step * var <= 10 * risk * risk * Cap * Cap})

(* round_to_lot, in steps. *)
RoundToLot(steps, grid) == IF steps >= grid.min THEN steps ELSE 0

Sized(r, var) ==
  LET k == RoundToLot(Steps(LegRisk(r), r.grid, var), r.grid) IN
  IF k = 0 THEN Refused("below_min_lot")
  ELSE [steps |-> r.side * k, risk |-> k * r.grid.step,
        reason |-> IF var > 10 * Cap * Cap THEN "corr_capped" ELSE "ok"]

(* Mutant: the peak follows the last equity. *)
PeakIsLast(e) == e

NewPeak(e) == Most(peak, e)

(* circuit_breaker_tripped, or no equity left. *)
Halted(e) ==
  \/ NewPeak(e) > 0 /\ 100 * (NewPeak(e) - e) >= BreakerPct * NewPeak(e)
  \/ e <= 0

-----------------------------------------------------------------------------

Init ==
  /\ peak = MinusInf /\ shown = {}
  /\ equity = MinusInf /\ rho = 0      \* no batch yet
  /\ reqs = Nothing /\ out = Nothing

(* The legs that pass the gates, with their signed risks. *)
Active(batch) == {s \in DOMAIN batch : Gate(batch[s]) = "ok"}
Signed(batch) == [s \in Active(batch) |-> batch[s].side * LegRisk(batch[s])]

Evaluate(batch, e, c) ==
  /\ reqs' = batch /\ equity' = e /\ rho' = c
  /\ peak' = NewPeak(e) /\ shown' = shown \cup {e}
  /\ out' = [s \in DOMAIN batch |->
               IF Halted(e) THEN Refused("circuit_breaker")
               ELSE IF s \in Active(batch) THEN Sized(batch[s], Variance(Signed(batch), c))
               ELSE Refused(Gate(batch[s]))]

Deliver ==
  /\ reqs # Nothing
  /\ reqs' = Nothing /\ out' = Nothing
  /\ equity' = MinusInf /\ rho' = 0
  /\ UNCHANGED <<peak, shown>>

Next ==
  \/ reqs = Nothing /\ \E batch \in Batches, e \in Equities, c \in Rhos : Evaluate(batch, e, c)
  \/ Deliver

Spec == Init /\ [][Next]_vars

-----------------------------------------------------------------------------
(* Properties.                                                             *)

(* "Halt on a max-drawdown breach" (sizing.py:6): while the equity is the  *)
(* breaker's percentage or more below any equity the manager was shown     *)
(* before, no leg of any batch is sized.                                   *)
BreakerHalts ==
  \A before \in shown :
    before > 0 /\ 100 * (before - equity) >= BreakerPct * before
      => \A s \in DOMAIN out : out[s].steps = 0

Exposure(s) == reqs[s].side * out[s].risk
RealisedVariance ==
  SumFunction([pair \in (DOMAIN out) \X (DOMAIN out) |->
                 (IF pair[1] = pair[2] THEN 10 ELSE rho) * Exposure(pair[1]) * Exposure(pair[2])])

(* "max aggregate (covariance) risk across legs" (config/default.yaml:56): *)
(* the risk of the positions as rounded is within the cap.                 *)
CapHolds == RealisedVariance <= 10 * Cap * Cap

(* More confidence never buys a smaller position: of two legs with the     *)
(* same lot grid, the one with the higher probability gets the larger one, *)
(* capped or not.                                                          *)
ConfidenceOrders ==
  \A s, t \in DOMAIN reqs :
    /\ Gate(reqs[s]) = "ok" /\ reqs[t].side # 0 /\ ~ reqs[t].shock
    /\ reqs[s].grid = reqs[t].grid /\ reqs[s].p <= reqs[t].p
    => out[s].risk <= out[t].risk
=============================================================================
