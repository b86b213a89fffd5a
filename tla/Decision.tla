------------------------------ MODULE Decision ------------------------------
(***************************************************************************)
(* How a bar becomes a bet: the primary ensemble's side (l3_primary/base.py *)
(* and ensemble.py) and the trust layer's calibration, threshold and gate  *)
(* (l5_meta/calibration.py, meta_model.py, pipeline.py).                   *)
(***************************************************************************)
EXTENDS Regimes

CONSTANTS
  Members,          \* names of the ensemble members
  SequenceMembers,  \* those that need a window of rows (deep.py)
  Lookback,         \* its length
  BaseWeights,      \* PrimaryConfig.members: member -> weight
  FlatThreshold,    \* PrimaryConfig.flat_threshold, in percent
  Unit,             \* a member's probabilities are multiples of 1/Unit
  RawScores,        \* scores the meta base gives, in order
  Scale,            \* calibrated probabilities are multiples of 1/Scale
  TauGrid, DefaultTau, MinTrades,  \* of tune_threshold; thresholds in 1/Scale
  CVFolds           \* MetaConfig.cv_folds

ASSUME DecisionAssumption ==
  /\ IsFiniteSet(Members) /\ BaseWeights \in [Members -> Int] /\ FlatThreshold \in 0 .. 100
  /\ SequenceMembers \subseteq Members /\ Lookback \in Nat
  /\ Unit \in Nat /\ Unit % 3 = 0 /\ Scale \in Nat /\ RawScores \subseteq Int
  /\ DefaultTau \in 0 .. Scale /\ TauGrid \in Seq(0 .. Scale)
  /\ MinTrades \in Nat /\ CVFolds \in Nat \ {0}

Classes == {-1, 0, 1}

-----------------------------------------------------------------------------
(* The ensemble.                                                           *)

(* _normalize, up to the common divisor. *)
Normalize(weights) ==
  LET vec == [m \in Members |-> IF m \in DOMAIN weights THEN Max({0, weights[m]}) ELSE 0]
  IN IF \A m \in Members : vec[m] = 0 THEN [m \in Members |-> 1] ELSE vec

(* _regime_weights: an empty override counts as none. *)
RegimeWeights(overrides, regime) ==
  Normalize(IF regime \in DOMAIN overrides /\ DOMAIN overrides[regime] # {}
            THEN overrides[regime] ELSE BaseWeights)

(* Mutant: the columns in canonical order, whatever classes they are for.  *)
AlignInOrder(output) ==
  [c \in Classes |-> IF c + 2 \in DOMAIN output.proba THEN output.proba[c + 2] ELSE 0]

(* align_proba: an output of a member is a record of its classes_ and of   *)
(* proba, a column for each of them; a class that was absent from the fit  *)
(* has probability 0.                                                      *)
Align(output) ==
  [c \in Classes |->
    LET at == {j \in DOMAIN output.classes : output.classes[j] = c}
    IN IF at = {} THEN 0 ELSE output.proba[Max(at)]]

Neutral == [c \in Classes |-> Unit \div 3]

(* What member m gives for the n-th row of a frame: a sequence member says *)
(* nothing before it has a full window (make_sequences, predict_proba).    *)
Waits(m, n) == m \in SequenceMembers /\ n < Lookback
Answer(m, output, n) == IF Waits(m, n) THEN Neutral ELSE Align(output)

Blend(weights, probas) ==
  [c \in Classes |-> SumFunction([m \in Members |-> weights[m] * probas[m][c]])]

(* normalize_rows and probas_to_side. *)
Side(blend) ==
  LET mass == blend[-1] + blend[0] + blend[1]
      margin == blend[1] - blend[-1]
      size == IF margin < 0 THEN -margin ELSE margin
  IN IF margin = 0 \/ size * 100 < FlatThreshold * (IF mass = 0 THEN 1 ELSE mass) THEN 0
     ELSE IF margin > 0 THEN 1 ELSE -1

-----------------------------------------------------------------------------
(* IsotonicCalibrator; a bet is a record [score, label, weight].           *)

(* Is the mean of block a not below the mean of block b?                  *)
Violates(a, b) == a.sum * b.weight >= b.sum * a.weight

Joined(a, b) == [sum |-> a.sum + b.sum, weight |-> a.weight + b.weight, count |-> a.count + b.count]

(* Mutant: one pooling per bet instead of the loop.                        *)
PoolOnce(blocks, new) ==
  LET n == Len(blocks)
  IN IF n > 0 /\ Violates(blocks[n], new)
     THEN Append(SubSeq(blocks, 1, n - 1), Joined(blocks[n], new))
     ELSE Append(blocks, new)

(* The inner loop of _pava: last[k] is the last block once those from k on *)
(* are popped and pooled, and it stops when the block before is below it.  *)
Pool(blocks, new) ==
  LET n == Len(blocks) + 1
      last[k \in 1 .. n] == IF k = n THEN new ELSE Joined(blocks[k], last[k + 1])
      stop == Max({k \in 1 .. n : k = 1 \/ ~ Violates(blocks[k - 1], last[k])})
  IN Append(SubSeq(blocks, 1, stop - 1), last[stop])

Single(bet) == [sum |-> bet.label * bet.weight, weight |-> bet.weight, count |-> 1]

(* _pava: blocks of neighbours with their weighted sum, weight and size. *)
Pava(bets) ==
  LET upto[i \in DOMAIN bets] == Pool(IF i = 1 THEN <<>> ELSE upto[i - 1], Single(bets[i]))
  IN IF bets = <<>> THEN <<>> ELSE upto[Len(bets)]

(* The value _pava gives each bet. *)
Fitted(bets) ==
  LET blocks == Pava(bets)
      value(b) == (blocks[b].sum * Scale) \div blocks[b].weight
  IN FlattenSeq([b \in DOMAIN blocks |-> [i \in 1 .. blocks[b].count |-> value(b)]])

(* The bets in the stable order of their scores: as many are before a bet  *)
(* as have a lower score, or the same one and came earlier.                *)
Sorted(bets) ==
  LET before(i) == {j \in DOMAIN bets : \/ bets[j].score < bets[i].score
                                        \/ (bets[j].score = bets[i].score /\ j < i)}
  IN Tabulated([k \in DOMAIN bets |->
                  bets[CHOOSE i \in DOMAIN bets : Cardinality(before(i)) = k - 1]])

(* fit: score -> mean of the fitted values of its bets. *)
Calibrator(bets) ==
  LET sorted == Sorted(bets)
      at(x) == {i \in DOMAIN sorted : sorted[i].score = x}
      fitted == Fitted(sorted)
  IN Tabulated([x \in {bets[i].score : i \in DOMAIN bets} |->
                  SumFunctionOnSet(fitted, at(x)) \div Cardinality(at(x))])

(* predict(score) >= tau, with np.interp between the grid points. *)
PassesAt(cal, score, tau) ==
  LET below == {x \in DOMAIN cal : x <= score}
      above == {x \in DOMAIN cal : x >= score}
      a == IF below = {} THEN Min(above) ELSE Max(below)
      b == IF above = {} THEN Max(below) ELSE Min(above)
  IN IF a >= b THEN cal[a] >= tau
     ELSE cal[a] * (b - score) + cal[b] * (score - a) >= tau * (b - a)

(* tune_threshold without returns: the first threshold of the grid with    *)
(* the highest precision among those that take enough bets; raw is the     *)
(* score the refitted base gives each bet.                                 *)
TuneThreshold(cal, bets, raw) ==
  LET taken(tau) == {i \in DOMAIN bets : PassesAt(cal, raw[i], tau)}
      right(tau) == {i \in taken(tau) : bets[i].label = 1}
      better(tau, best) ==
        best.n = 0 \/ Cardinality(right(tau)) * best.n > best.right * Cardinality(taken(tau))
      try(best, tau) ==
        IF Cardinality(taken(tau)) >= Max({MinTrades, 1}) /\ better(tau, best)
        THEN [tau |-> tau, n |-> Cardinality(taken(tau)), right |-> Cardinality(right(tau))]
        ELSE best
  IN FoldLeft(try, [tau |-> DefaultTau, n |-> 0, right |-> 0], TauGrid).tau

(* MetaGatedPrimary.fit: are there enough bets to learn a trust layer? *)
EnoughBets(bets) == Len(bets) >= 2 * CVFolds

(* MetaGatedPrimary.predict: a trust layer that was not fitted lets every  *)
(* side pass.                                                              *)
Gated(side, fitted, passed) == IF fitted /\ ~ passed THEN 0 ELSE side
=============================================================================
