------------------------------ MODULE Regimes ------------------------------
(***************************************************************************)
(* Layer 2: the regime of every bar (l2_regime/hmm.py, detector.py).       *)
(*                                                                         *)
(* A row of features is a record [hurst, ker, atr] in percent, NaN while a *)
(* feature warms up; the HMM reads the rows without NaN.  Its parameters   *)
(* are positive integer weights, in the place of the exponentials of the   *)
(* code's log probabilities: sums of logarithms become products, logsumexp *)
(* becomes a sum, and argmax is the same.                                  *)
(***************************************************************************)
EXTENDS Integers, SequencesExt

CONSTANTS
  NaN,
  NStates,            \* RegimeConfig.n_states
  MinRowsPerState,    \* the 5 of "n_states * 5" rows a fit needs
  HurstTrend, KerTrend, ShockAtr,  \* thresholds, in percent
  ShockOverride                    \* RegimeConfig.shock_override

ASSUME RegimesAssumption ==
  /\ NStates \in Nat \ {0} /\ MinRowsPerState \in Nat
  /\ {HurstTrend, KerTrend, ShockAtr} \subseteq 0 .. 100
  /\ ShockOverride \in BOOLEAN

States == 0 .. NStates - 1
AtLeast(x, y) == x # NaN /\ x >= y
Complete(row) == \A f \in DOMAIN row : row[f] # NaN

SumOver(S, f(_)) == MapThenSumSet(f, S)

(* f itself; the comparison makes TLC compute its values once and not at   *)
(* every use.                                                              *)
Tabulated(f) == CHOOSE g \in {f} : g = f

(* numpy's argmax and Python's max: the first of several. *)
ArgMax(f) == CHOOSE k \in DOMAIN f : \A j \in DOMAIN f : f[j] < f[k] \/ (f[j] = f[k] /\ k <= j)

-----------------------------------------------------------------------------
(* GaussianHMM.                                                            *)

(* One row of each recursion, from the row before or after it. *)
ForwardRow(hmm, obs, t, before) ==
  Tabulated([k \in States |->
    hmm.emit[k][obs[t]] *
      (IF t = 1 THEN hmm.start[k]
       ELSE SumFunction([j \in States |-> before[j] * hmm.trans[j][k]]))])

Forward(hmm, obs) ==
  LET alpha[t \in DOMAIN obs] == ForwardRow(hmm, obs, t, alpha[t - 1]) IN Tabulated(alpha)

(* Mutant: the emission of the row itself counts twice.                    *)
BackwardOwnEmission(hmm, obs, t, after) ==
  Tabulated([j \in States |->
    IF t = Len(obs) THEN 1
    ELSE SumFunction([k \in States |-> hmm.trans[j][k] * hmm.emit[k][obs[t]] * after[k]])])

BackwardRow(hmm, obs, t, after) ==
  Tabulated([j \in States |->
    IF t = Len(obs) THEN 1
    ELSE SumFunction([k \in States |-> hmm.trans[j][k] * hmm.emit[k][obs[t + 1]] * after[k]])])

Backward(hmm, obs) ==
  LET beta[t \in DOMAIN obs] == BackwardRow(hmm, obs, t, beta[t + 1]) IN Tabulated(beta)

(* predict_proba, times the likelihood of obs. *)
Posterior(hmm, obs) ==
  LET alpha == Forward(hmm, obs) beta == Backward(hmm, obs)
  IN Tabulated([t \in DOMAIN obs |-> Tabulated([k \in States |-> alpha[t][k] * beta[t][k]])])

(* decode: Viterbi with back pointers. *)
Via(hmm, scores, k) == Tabulated([j \in States |-> scores[j] * hmm.trans[j][k]])

ViterbiRow(hmm, obs, t, before) ==
  Tabulated([k \in States |->
    hmm.emit[k][obs[t]] *
      (IF t = 1 THEN hmm.start[k] ELSE LET m == Via(hmm, before, k) IN m[ArgMax(m)])])

Viterbi(hmm, obs) ==
  LET delta[t \in DOMAIN obs] == ViterbiRow(hmm, obs, t, delta[t - 1]) IN Tabulated(delta)

Decode(hmm, obs) ==
  LET table == Viterbi(hmm, obs)
      states[t \in DOMAIN obs] ==
        IF t = Len(obs) THEN ArgMax(table[t]) ELSE ArgMax(Via(hmm, table[t], states[t + 1]))
  IN Tabulated(states)

-----------------------------------------------------------------------------
(* RegimeDetector.                                                         *)

(* dropna *)
Frame(rows) ==
  FoldLeft(LAMBDA kept, row : IF Complete(row) THEN Append(kept, row) ELSE kept, <<>>, rows)

(* _learn_mapping: of the states that are some row's most likely one, the  *)
(* one with the highest mean ATR percentile is shock, of the others the    *)
(* one with the highest mean Hurst exponent is trend.                      *)
LearnMapping(hmm, frame) ==
  LET posterior == Posterior(hmm, frame)
      where(s) == {t \in DOMAIN frame : ArgMax(posterior[t]) = s}
      uniq == {s \in States : where(s) # {}}
      total(s, field) == SumOver(where(s), LAMBDA t : frame[t][field])
      top(S, field) ==
        CHOOSE s \in S : \A r \in S :
          LET mine == total(s, field) * Cardinality(where(r))
              other == total(r, field) * Cardinality(where(s))
          IN other < mine \/ (other = mine /\ s <= r)
      shock == top(uniq, "atr")
  IN [s \in uniq |-> IF s = shock THEN "shock"
                     ELSE IF s = top(uniq \ {shock}, "hurst") THEN "trend" ELSE "range"]

(* Enough complete rows for a fit? *)
Fittable(rows) == Len(Frame(rows)) >= NStates * MinRowsPerState

(* gate and predict_rules. *)
RuleGate(row) ==
  IF AtLeast(row.atr, ShockAtr) THEN "shock"
  ELSE IF AtLeast(row.hurst, HurstTrend) /\ AtLeast(row.ker, KerTrend) THEN "trend" ELSE "range"

(* The place of row i in the frame. *)
Place(rows, i) == Len(Frame(SubSeq(rows, 1, i)))

(* predict_regimes: the label of row i; its probabilities are left out.    *)
(* Incomplete rows are range, and so is a state without a regime.          *)
Label(hmm, mapping, rows, i) ==
  LET state == Decode(hmm, Frame(rows))[Place(rows, i)] IN
  IF ShockOverride /\ AtLeast(rows[i].atr, ShockAtr) THEN "shock"
  ELSE IF Complete(rows[i]) /\ state \in DOMAIN mapping THEN mapping[state] ELSE "range"
=============================================================================
