---------------------------- MODULE MetaTraining ----------------------------
(***************************************************************************)
(* Layer 5: how the trust model is trained (l5_meta/pipeline.py,           *)
(* meta_model.py, features.py), by the two callers there are:              *)
(*   "train"  TrainingPipeline.train (lifecycle/training.py), through      *)
(*            train_meta_labeler, on every event;                          *)
(*   "gate"   MetaGatedPrimary.fit, on the train events of one fold of     *)
(*            run_validation, which then predicts the fold's test events.  *)
(*                                                                         *)
(* What matters is which labels each score and each fitted model has seen, *)
(* so a model is the set of events it was fitted on.                       *)
(***************************************************************************)
EXTENDS Splitters

CONSTANTS
  Indexes,       \* indexes of labelled events
  NBars, MaxSpan,
  CVFolds,       \* MetaConfig.cv_folds
  EmbargoPct,    \* default embargo_pct of PurgedKFold, in percent
  HoldoutPct, CPCVGroups, CPCVTestGroups, WalkSplits, WalkModes, ProtocolEmbargoPct,
                 \* ValidationConfig: the outer protocol, as in Validation
  RecentWindow, MinPeriods               \* of the recent win-rate, in events

ASSUME MetaAssumption ==
  /\ NBars \in Nat /\ Indexes \subseteq SUBSET (0 .. NBars - 1) /\ MaxSpan \in Nat
  /\ CVFolds \in Nat /\ CVFolds >= 2
  /\ CPCVTestGroups \in Nat /\ CPCVGroups \in Nat
  /\ 1 <= CPCVTestGroups /\ CPCVTestGroups < CPCVGroups
  /\ WalkSplits \in Nat /\ WalkSplits >= 2 /\ WalkModes \subseteq {"anchored", "rolling"}
  /\ EmbargoPct \in 0 .. 100 /\ HoldoutPct \in 0 .. 100 /\ ProtocolEmbargoPct \in 0 .. 100
  /\ RecentWindow \in Nat /\ MinPeriods \in Nat

VARIABLES
  pc,        \* statement reached
  caller,    \* "train" or "gate"
  t1,        \* label spans of the whole index: the gate's self.t1
  rows,      \* X.index of the call
  test,      \* gate: the events to be predicted with the result
  todo,      \* folds the loop has still to visit
  judge,     \* oof_side: event -> events its primary was fitted on
  bets,      \* events with oof_side # 0
  winrate,   \* event -> events whose outcomes its prim_recent_winrate averages
  scores,    \* oof of MetaLabelModel.fit: bet -> bets its base was fitted on
  meta,      \* bets the final base_ is fitted on
  primary    \* events the serving primary is fitted on

vars == <<pc, caller, t1, rows, test, todo, judge, bets, winrate, scores, meta, primary>>

Empty == [e \in {} |-> {}]
Folds == 0 .. CVFolds - 1

Spans(I) ==
  {t \in {[e \in I |-> e + bars[e]] : bars \in [I -> 1 .. MaxSpan]} : \A e \in I : t[e] < NBars}

Fresh ==
  /\ judge = Empty /\ bets = {} /\ winrate = Empty
  /\ scores = Empty /\ meta = {}

Init ==
  /\ pc = "idle" /\ caller = "train" /\ t1 = [e \in {} |-> 0]
  /\ rows = {} /\ test = {} /\ todo = {} /\ primary = {}
  /\ Fresh

(* A function with the values of f changed to v on S. *)
Set(f, S, v) == [e \in (DOMAIN f) \cup S |-> IF e \in S THEN v ELSE f[e]]

-----------------------------------------------------------------------------
(* The callers.                                                            *)

(* TrainingPipeline.train fits the serving primary first. *)
StartTrain(I) ==
  /\ pc = "idle"
  /\ pc' = "primary" /\ caller' = "train" /\ todo' = Folds
  /\ t1' \in Spans(I)
  /\ rows' = I /\ test' = {} /\ primary' = I
  /\ UNCHANGED <<judge, bets, winrate, scores, meta>>

(* Every fold run_validation fits an estimator for: each combination of    *)
(* CPCV test groups and each walk-forward step over the development set,   *)
(* and the holdout.                                                        *)
CPCVCombos == {c \in SUBSET (0 .. CPCVGroups - 1) : Cardinality(c) = CPCVTestGroups}

OuterSplits(t, I) ==
  LET hold == HoldoutSplit(t, I, HoldoutPct)
      dev == hold.train
  IN {CPCVSplit(t, dev, CPCVGroups, combo, ProtocolEmbargoPct) : combo \in CPCVCombos}
     \cup {WalkSplit(t, dev, WalkSplits, i, ProtocolEmbargoPct, mode = "anchored") :
             i \in 1 .. WalkSplits, mode \in WalkModes}
     \cup {hold}

(* Mutant: the estimator uses all the rows it was constructed with.        *)
AllRows(outer) == outer.train \cup outer.test

(* fit gets the train rows; self.t1 is reindexed to them. *)
FitRows(outer) == outer.train

(* Folds without train or test events are skipped, and nothing can be      *)
(* fitted on an empty development set.                                     *)
StartGate(I) ==
  /\ pc = "idle"
  /\ pc' = "primary" /\ caller' = "gate" /\ todo' = Folds
  /\ t1' \in Spans(I)
  /\ \E outer \in OuterSplits(t1', I) :
       /\ outer.train # {} /\ outer.test # {}
       /\ rows' = FitRows(outer) /\ test' = outer.test
  /\ UNCHANGED <<judge, bets, winrate, scores, meta, primary>>

Back == /\ pc' = "idle" /\ caller' = "train" /\ t1' = [e \in {} |-> 0]
        /\ rows' = {} /\ test' = {} /\ todo' = {} /\ primary' = {}
        /\ judge' = Empty /\ bets' = {} /\ winrate' = Empty
        /\ scores' = Empty /\ meta' = {}

-----------------------------------------------------------------------------
(* _oof_primary.                                                           *)

(* Mutant: plain k-fold. *)
OOFSplitPlain(g) == Split(rows \ Group(rows, CVFolds, g), Group(rows, CVFolds, g))

OOFSplit(g) == KFoldSplit(t1, rows, CVFolds, g, EmbargoPct)

(* One fold; the primary may bet on any of the events it predicts.  A      *)
(* member may refuse to be fitted on nothing, which ends the call.         *)
PrimaryFold ==
  /\ pc = "primary" /\ todo # {}
  /\ LET g == Min(todo) split == OOFSplit(g) IN
     \/ /\ todo' = todo \ {g}
        /\ judge' = Set(judge, split.test, split.train)
        /\ \E acted \in SUBSET split.test : bets' = bets \cup acted
        /\ UNCHANGED <<pc, caller, t1, rows, test, winrate, scores, meta, primary>>
     \/ split.train = {} /\ Back

(* build_meta_features: shift(1).rolling(recent_window, min_periods).mean. *)
WinRateRows(e) ==
  LET prior == {f \in rows : Rank(rows, f) \in Rank(rows, e) - RecentWindow .. Rank(rows, e) - 1}
  IN IF Cardinality(prior) >= MinPeriods THEN prior ELSE {}

(* train_meta_labeler passes meta_labels to build_meta_features, the gate  *)
(* does not; the gate learns no trust layer from too few bets.             *)
BuildFeatures ==
  /\ pc = "primary" /\ todo = {}
  /\ winrate' = IF caller = "train" THEN [e \in rows |-> WinRateRows(e)] ELSE Empty
  /\ IF caller = "gate" /\ Cardinality(bets) < CVFolds * 2
     THEN pc' = "refit" /\ UNCHANGED todo
     ELSE pc' = "meta" /\ todo' = Folds
  /\ UNCHANGED <<caller, t1, rows, test, judge, bets, scores, meta, primary>>

-----------------------------------------------------------------------------
(* MetaLabelModel.fit, on the bets.                                        *)

(* Mutant: the contiguous folds of _splits without t1, unpurged. *)
MetaSplitContiguous(g) == Split(bets \ Group(bets, CVFolds, g), Group(bets, CVFolds, g))

MetaSplit(g) == KFoldSplit(t1, bets, CVFolds, g, EmbargoPct)

(* A base fitted on nothing scores NaN, which the calibrator leaves out.   *)
MetaFold ==
  /\ pc = "meta" /\ todo # {}
  /\ LET g == Min(todo) split == MetaSplit(g) IN
     /\ todo' = todo \ {g}
     /\ scores' = IF split.train = {} THEN scores ELSE Set(scores, split.test, split.train)
  /\ UNCHANGED <<pc, caller, t1, rows, test, judge, bets, winrate, meta, primary>>

(* The calibrator is fitted on the scores, the base on all bets.           *)
Calibrate ==
  /\ pc = "meta" /\ todo = {}
  /\ meta' = bets
  /\ pc' = IF caller = "train" THEN "tune" ELSE "refit"
  /\ UNCHANGED <<caller, t1, rows, test, todo, judge, bets, winrate, scores, primary>>

(* predict_proba on the bets the base was fitted on, and tune_threshold on *)
(* those probabilities; an isotonic calibrator without scores raises.      *)
Tune ==
  /\ pc = "tune"
  /\ IF scores = Empty THEN Back
     ELSE /\ pc' = "done"
          /\ UNCHANGED <<caller, t1, rows, test, todo, judge, bets, winrate, scores, meta, primary>>

RefitPrimary ==
  /\ pc = "refit"
  /\ primary' = rows /\ pc' = "done"
  /\ UNCHANGED <<caller, t1, rows, test, todo, judge, bets, winrate, scores, meta>>

(* The result is returned; the gate predicts test with it.                 *)
Return == pc = "done" /\ Back

Next ==
  \/ \E I \in Indexes : StartTrain(I) \/ StartGate(I)
  \/ PrimaryFold \/ BuildFeatures
  \/ MetaFold \/ Calibrate \/ Tune \/ RefitPrimary
  \/ Return

Spec == Init /\ [][Next]_vars

-----------------------------------------------------------------------------
(* Properties.                                                             *)

(* Does a label of S share a bar with the label of e? *)
Sees(S, e) == \E a \in S : Overlap(t1, a, e)

(* "The meta-model must be trained on the primary's out-of-fold            *)
(* predictions, never in-sample" (meta_model.py:12-13): whatever events    *)
(* the call is given, no side that is judged comes from a primary that saw *)
(* the event's label or one overlapping it, and every bet has been judged. *)
JudgedOutOfFold ==
  /\ bets \subseteq DOMAIN judge
  /\ \A e \in DOMAIN judge : ~ Sees(judge[e], e)

(* "The probability map is never learned in-sample" (meta_model.py:116):   *)
(* no score given to the calibrator comes from a base that saw the bet or  *)
(* a label overlapping it, although the bets are a sparse index.           *)
CalibratedOutOfFold == \A e \in DOMAIN scores : ~ Sees(scores[e], e)

(* The gate's result is judged on unseen events (harness.py:5-8): none of  *)
(* the models fitted inside a fold - the out-of-fold primaries, the bases, *)
(* the calibrator, the final ones - saw a label overlapping a test label.  *)
OuterUnseen ==
  \A e \in test :
    /\ ~ Sees(meta, e) /\ ~ Sees(primary, e)
    /\ \A f \in DOMAIN judge : ~ Sees(judge[f] \cup {f}, e)
    /\ \A f \in DOMAIN scores : ~ Sees(scores[f] \cup {f}, e)

(* "Trailing win-rate of the primary's PRIOR bets (shift -> point-in-time)" *)
(* (features.py:56): the outcomes averaged for an event were known when it *)
(* started.                                                                *)
WinRatePointInTime == \A e \in DOMAIN winrate : \A f \in winrate[e] : t1[f] <= e
=============================================================================
