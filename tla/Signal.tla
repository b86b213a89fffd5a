------------------------------- MODULE Signal -------------------------------
(***************************************************************************)
(* From a closed bar to a gated side, with the monitor's event hooks       *)
(* (l8_monitoring/monitor.py) beside it: the trust layer is calibrated and *)
(* its threshold tuned, the regime detector is fitted, and then every bar  *)
(* is labelled, told to the monitor and decided on.  Nothing under src/    *)
(* drives this loop: the order of the calls in it is the one of            *)
(* docs/architecture.md, and calls that need not happen may be left out.   *)
(*                                                                         *)
(* Of the trained trust layer only what the live side can see is kept: the *)
(* set of raw scores that pass its gate.                                   *)
(***************************************************************************)
EXTENDS Decision

CONSTANTS
  Hmm,             \* a fitted GaussianHMM
  Rows, MaxRows,   \* feature rows; bound on the rows seen
  TrainingSets,    \* sequences of rows the detector may be fitted on
  OverrideChoices, \* values of PrimaryConfig.regime_overrides
  Outputs,         \* what a member may answer: its classes, their probabilities
  Bets, MaxBets,   \* out-of-fold bets; bound on the calibration set
  Equities, DrawdownAlert   \* equities; MonitorConfig.drawdown_alert, percent

ASSUME SignalAssumption ==
  /\ \A o \in OverrideChoices : \A r \in DOMAIN o : \A m \in DOMAIN o[r] : o[r][m] \in Int
  /\ Equities \subseteq Int /\ NaN \notin Equities
  /\ DrawdownAlert \in 1 .. 100

(* Nothing has weight zero: the code adds a floor to every probability     *)
(* before its logarithm, and a Gaussian density is positive.               *)
ASSUME HmmAssumption ==
  \A k \in States :
    /\ Hmm.start[k] \in Nat \ {0} /\ \A j \in States : Hmm.trans[k][j] \in Nat \ {0}
    /\ \A row \in Rows : Complete(row) => Hmm.emit[k][row] \in Nat \ {0}

(* A member has a column for each class of its fit.                        *)
ASSUME OutputsAssumption ==
  \A o \in Outputs :
    /\ o.classes \in Seq(Classes) /\ o.proba \in [DOMAIN o.classes -> Nat]
    /\ \A i, j \in DOMAIN o.classes : o.classes[i] = o.classes[j] => i = j

(* A meta label is 0 or 1; the labeler's uniqueness weights are positive.   *)
ASSUME BetsAssumption ==
  \A b \in Bets : b.score \in RawScores /\ b.label \in {0, 1} /\ b.weight \in Nat \ {0}

VARIABLES
  phase,        \* "train" or "live"
  overrides,    \* PrimaryConfig.regime_overrides
  bets,         \* what the calibrator will be fitted on
  trust_fitted, \* MetaGatedPrimary._fitted
  gate,         \* raw scores the trained gate lets pass
  mapping,      \* RegimeDetector._state_to_regime
  rows,         \* feature rows so far
  reading,      \* regime read for the last row, or NaN
  decision,     \* what was decided on the last row, or NaN
  last_regime,  \* Monitor._last_regime
  peak,         \* Monitor._peak, or NaN for its initial -inf
  shown,        \* history: equities given to this monitor
  breach,       \* what update_equity was last given and returned
  believed      \* history: the regime according to the alerts

training == <<phase, overrides, bets, trust_fitted, gate>>
market == <<mapping, rows, reading, decision>>
monitor == <<last_regime, peak, shown, breach, believed>>
vars == <<training, market, monitor>>

NoBreach == [equity |-> NaN, breached |-> FALSE]
Unfitted == [s \in {} |-> "range"]

FreshMonitor ==
  /\ last_regime = NaN /\ peak = NaN /\ shown = {} /\ breach = NoBreach /\ believed = NaN

Init ==
  /\ phase = "train" /\ overrides \in OverrideChoices /\ bets = <<>>
  /\ trust_fitted = FALSE /\ gate = {}
  /\ mapping = Unfitted /\ rows = <<>> /\ reading = NaN /\ decision = NaN
  /\ FreshMonitor

-----------------------------------------------------------------------------
(* Training.                                                               *)

(* MetaLabelModel.fit collects out-of-fold scores. *)
CollectBet(b) ==
  /\ phase = "train" /\ Len(bets) < MaxBets
  /\ bets' = Append(bets, b)
  /\ UNCHANGED <<phase, overrides, trust_fitted, gate, market, monitor>>

(* train_meta_labeler: calibrate, refit the base, which scores the bets    *)
(* anew, and tune.                                                         *)
TrainTrust ==
  /\ phase = "train" /\ bets # <<>>
  /\ LET cal == Calibrator(bets) IN
     \E raw \in [DOMAIN bets -> RawScores] :
       gate' = {s \in RawScores : PassesAt(cal, s, TuneThreshold(cal, bets, raw))}
  /\ phase' = "live" /\ bets' = <<>> /\ trust_fitted' = TRUE
  /\ UNCHANGED <<overrides, market, monitor>>

(* MetaGatedPrimary.fit: calibrate if there are enough bets, and keep the  *)
(* configured threshold.                                                   *)
FitGated ==
  /\ phase = "train"
  /\ trust_fitted' = EnoughBets(bets)
  /\ LET cal == Calibrator(bets) IN
     gate' = IF trust_fitted' THEN {s \in RawScores : PassesAt(cal, s, DefaultTau)} ELSE {}
  /\ phase' = "live" /\ bets' = <<>>
  /\ UNCHANGED <<overrides, market, monitor>>

(* RegimeDetector.fit raises on too few complete rows; a process fits its  *)
(* detector once.                                                          *)
FitRegimes(training_rows) ==
  /\ phase = "live" /\ mapping = Unfitted /\ Fittable(training_rows)
  /\ mapping' = LearnMapping(Hmm, Frame(training_rows))
  /\ UNCHANGED <<training, rows, reading, decision, monitor>>

-----------------------------------------------------------------------------
(* A bar.                                                                  *)

NewRow(row) ==
  /\ phase = "live" /\ Len(rows) < MaxRows
  /\ rows' = Append(rows, row) /\ reading' = NaN /\ decision' = NaN
  /\ UNCHANGED <<training, mapping, monitor>>

(* Mutant: the flip is looked for after the regime was stored.             *)
FlippedAfterStore(regime) == FALSE

(* Monitor.on_regime: is the regime a change to the one read before?       *)
Flipped(regime) == last_regime # NaN /\ regime # last_regime

(* RegimeDetector.predict on the rows so far, then Monitor.on_regime; the  *)
(* first reading of a process is a baseline.                               *)
ReadRegime ==
  /\ rows # <<>> /\ mapping # Unfitted /\ reading = NaN
  /\ reading' = Label(Hmm, mapping, rows, Len(rows))
  /\ last_regime' = reading'
  /\ believed' = IF last_regime = NaN \/ Flipped(reading') THEN reading' ELSE believed
  /\ UNCHANGED <<training, mapping, rows, decision, peak, shown, breach>>

(* PrimarySignalModel.predict_side and the gate; without a reading the     *)
(* global weights are used.                                                *)
Decide(outputs, raw) ==
  /\ rows # <<>> /\ decision = NaN
  /\ LET weights == IF reading = NaN THEN Normalize(BaseWeights)
                    ELSE RegimeWeights(overrides, reading)
         answers == [m \in Members |-> Answer(m, outputs[m], Len(rows))]
         side == Side(Blend(weights, answers))
     IN decision' = [outputs |-> outputs, side |-> side,
                     bet |-> Gated(side, trust_fitted, raw \in gate)]
  /\ UNCHANGED <<training, mapping, rows, reading, monitor>>

-----------------------------------------------------------------------------
(* The monitor.                                                            *)

Higher(old, equity) == IF old = NaN THEN equity ELSE Max({old, equity})

(* Mutant: the drawdown is measured from the equity shown before.          *)
LastEquity(equity) == equity

NewPeak(equity) == Higher(peak, equity)

DrawdownReached(top, equity) == top > 0 /\ (top - equity) * 100 >= DrawdownAlert * top

(* update_equity *)
UpdateEquity(equity) ==
  /\ phase = "live"
  /\ peak' = NewPeak(equity)
  /\ shown' = shown \cup {equity}
  /\ breach' = [equity |-> equity, breached |-> DrawdownReached(peak', equity)]
  /\ UNCHANGED <<training, market, last_regime, believed>>

(* The process starts again: the detector must be fitted, the monitor      *)
(* knows nothing. *)
Restart ==
  /\ phase = "live"
  /\ mapping' = Unfitted /\ reading' = NaN /\ decision' = NaN
  /\ last_regime' = NaN /\ peak' = NaN /\ shown' = {} /\ breach' = NoBreach /\ believed' = NaN
  /\ UNCHANGED <<training, rows>>

Next ==
  \/ \E b \in Bets : CollectBet(b)
  \/ TrainTrust \/ FitGated
  \/ \E t \in TrainingSets : FitRegimes(t)
  \/ \E r \in Rows : NewRow(r)
  \/ ReadRegime
  \/ \E outputs \in [Members -> Outputs], raw \in RawScores : Decide(outputs, raw)
  \/ \E e \in Equities : UpdateEquity(e)
  \/ Restart

Spec == Init /\ [][Next]_vars

-----------------------------------------------------------------------------
(* Properties.                                                             *)

Paths(n) == [1 .. n -> States]

(* The weights of the beginnings of a path of states with the observations. *)
PathWeights(obs, path) ==
  LET upto[t \in DOMAIN obs] ==
        Hmm.emit[path[t]][obs[t]] *
          (IF t = 1 THEN Hmm.start[path[1]] ELSE upto[t - 1] * Hmm.trans[path[t - 1]][path[t]])
  IN upto

(* decode gives a "most-likely state path" (hmm.py:138) among all paths,   *)
(* and predict_proba the probability of each state "given all              *)
(* observations" (hmm.py:130): the weight of the paths through it.         *)
InferenceIsExact ==
  LET obs == Frame(rows)
      weight == Tabulated([p \in Paths(Len(obs)) |-> PathWeights(obs, p)[Len(obs)]])
      posterior == Posterior(Hmm, obs)
      best == weight[Decode(Hmm, obs)]
  IN reading # NaN /\ obs # <<>> =>
       /\ \A p \in DOMAIN weight : weight[p] <= best
       /\ \A t \in DOMAIN obs : \A k \in States :
            posterior[t][k] = SumFunctionOnSet(weight, {p \in DOMAIN weight : p[t] = k})

(* The nearest non-decreasing fit at i, by the max-min formula. *)
MaxMin(seq, i) ==
  LET labels == [j \in DOMAIN seq |-> seq[j].label * seq[j].weight]
      weights == [j \in DOMAIN seq |-> seq[j].weight]
      mean(a, b) == (SumFunctionOnSet(labels, a .. b) * Scale)
                      \div SumFunctionOnSet(weights, a .. b)
  IN Max({Min({mean(a, b) : b \in i .. Len(seq)}) : a \in 1 .. i})

(* "Pool-adjacent-violators: nearest non-decreasing fit" (calibration.py:  *)
(* 39): the loop over blocks finds it, and neither collapsing tied scores  *)
(* nor interpolating nor the tuned threshold lets a bet with a higher raw  *)
(* score fail where one with a lower score passes.                         *)
IsotonicIsNearest ==
  /\ LET sorted == Sorted(bets) fitted == Fitted(sorted)
     IN \A i \in DOMAIN bets : fitted[i] = MaxMin(sorted, i)
  /\ LET cal == Calibrator(bets) IN \A x, y \in DOMAIN cal : x < y => cal[x] <= cal[y]
  /\ \A r \in gate, s \in RawScores : r < s => s \in gate

(* The probability that the columns of an output give to each class.       *)
Given(output) ==
  [c \in Classes |->
    SumFunctionOnSet(output.proba, {j \in DOMAIN output.classes : output.classes[j] = c})]

(* The side a member would bet by its own output; without a full window    *)
(* it says nothing.                                                        *)
OwnSide(m, output, n) == IF Waits(m, n) THEN 0 ELSE Side(Given(output))
LeansTo(m, output, n, side) ==
  ~ Waits(m, n) /\ (Given(output)[1] - Given(output)[-1]) * side > 0

(* Whatever the regime's weights - negative, all zero, for members that do *)
(* not exist - and whatever classes a member's fit has seen, neither the   *)
(* alignment of the columns nor the blend turns members around: when each  *)
(* of them would bet one way by its own columns, so does the ensemble, it  *)
(* never bets a way no member leans, and the gate only takes bets away.    *)
UnanimityHolds ==
  decision # NaN =>
    LET own == {OwnSide(m, decision.outputs[m], Len(rows)) : m \in Members}
    IN /\ \A s \in {-1, 1} : own = {s} => decision.side = s
       /\ decision.side # 0 =>
            \E m \in Members : LeansTo(m, decision.outputs[m], Len(rows), decision.side)
       /\ decision.bet \in {0, decision.side}

(* Who follows the monitor since its start knows the regime of the last    *)
(* reading, which with the override is shock whenever the rule gate says   *)
(* so ("stand-down priority", detector.py:81); update_equity alerts        *)
(* exactly when the equity is the alert's percentage below an equity it    *)
(* was given, and a snapshot shows that drawdown exactly when the next     *)
(* call would alert.                                                       *)
MonitorTells ==
  /\ reading # NaN /\ last_regime # NaN => believed = reading
  /\ ShockOverride /\ reading # NaN /\ RuleGate(Last(rows)) = "shock" => reading = "shock"
  /\ shown # {} => (breach.breached <=> \E e \in shown : DrawdownReached(e, breach.equity))
  /\ \A e \in Equities :
       DrawdownReached(Higher(peak, e), e) <=> \E f \in shown \cup {e} : DrawdownReached(f, e)
=============================================================================
