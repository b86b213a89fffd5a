----------------------------- MODULE Validation -----------------------------
(***************************************************************************)
(* The validation protocol: run_validation and oof_predict                 *)
(* (validation/harness.py) driving the splitters.  What a model has seen   *)
(* is what matters here, so a fit is the set of events it is fitted on and *)
(* the set it predicts; scores and the verdict are not modelled.           *)
(***************************************************************************)
EXTENDS Splitters

CONSTANTS
  Indexes,        \* event indexes to validate on: sets of bar times
  NBars,          \* bars in the history
  MaxSpan,        \* bound on the length of a label (labeling: vertical_bars)
  CPCVGroups, CPCVTestGroups,   \* cpcv_n_groups, cpcv_n_test_groups
  WalkSplits, WalkModes,        \* walk_forward_splits, values of walk_forward_mode
  KFolds,         \* n_splits of oof_predict's PurgedKFold
  EmbargoPct, HoldoutPct        \* embargo_pct and holdout_pct, in percent

Bars == 0 .. NBars - 1

ASSUME ValidationAssumption ==
  /\ NBars \in Nat /\ Indexes \subseteq SUBSET Bars /\ MaxSpan \in Nat
  /\ CPCVTestGroups \in Nat /\ CPCVGroups \in Nat
  /\ 1 <= CPCVTestGroups /\ CPCVTestGroups < CPCVGroups
  /\ WalkSplits \in Nat /\ WalkSplits >= 2 /\ WalkModes \subseteq {"anchored", "rolling"}
  /\ KFolds \in Nat /\ KFolds >= 2
  /\ EmbargoPct \in 0 .. 100 /\ HoldoutPct \in 0 .. 100

VARIABLES
  pc,         \* the loop or statement reached
  t1,         \* event -> end of its label; its domain is the index
  dev, hold,  \* the development set and the holdout
  todo,       \* folds the loop has still to visit
  fold,       \* the fit just made: its train and test events
  touched,    \* history: events fitted on or predicted in this call
  predicted   \* oof_predict: how often preds[e] has been written

vars == <<pc, t1, dev, hold, todo, fold, touched, predicted>>

NoFit == Split({}, {})
NoData == [e \in {} |-> 0]

(* Label spans the triple-barrier labeler can give an index. *)
Spans(I) ==
  {t \in {[e \in I |-> e + bars[e]] : bars \in [I -> 1 .. MaxSpan]} : \A e \in I : t[e] \in Bars}

CPCVCombos == {c \in SUBSET (0 .. CPCVGroups - 1) : Cardinality(c) = CPCVTestGroups}

Init ==
  /\ pc = "idle" /\ t1 = NoData
  /\ dev = {} /\ hold = {} /\ todo = {}
  /\ fold = NoFit /\ touched = {} /\ predicted = NoData

Fit(split) ==
  /\ fold' = split
  /\ touched' = touched \cup split.train \cup split.test

NotFitted == fold' = NoFit /\ UNCHANGED touched

-----------------------------------------------------------------------------
(* run_validation.                                                         *)

(* The call, and step 1: carve the holdout. *)
StartValidation(I) ==
  /\ pc = "idle"
  /\ t1' \in Spans(I)
  /\ dev' = HoldoutSplit(t1', I, HoldoutPct).train
  /\ hold' = HoldoutSplit(t1', I, HoldoutPct).test
  /\ pc' = "cpcv" /\ todo' = CPCVCombos
  /\ UNCHANGED <<fold, touched, predicted>>

(* itertools.combinations yields in lexicographic order. *)
FirstCombo(combos) ==
  CHOOSE c \in combos : \A d \in combos \ {c} : Min((c \ d) \cup (d \ c)) \in c

(* Step 2, one iteration; folds without train or test events are skipped.  *)
CPCVFold ==
  /\ pc = "cpcv" /\ todo # {}
  /\ LET combo == FirstCombo(todo)
         split == CPCVSplit(t1, dev, CPCVGroups, combo, EmbargoPct)
     IN /\ todo' = todo \ {combo}
        /\ IF split.train # {} /\ split.test # {} THEN Fit(split) ELSE NotFitted
  /\ UNCHANGED <<pc, t1, dev, hold, predicted>>

StartWalkForward ==
  /\ pc = "cpcv" /\ todo = {}
  /\ pc' \in WalkModes /\ todo' = 1 .. WalkSplits
  /\ NotFitted
  /\ UNCHANGED <<t1, dev, hold, predicted>>

(* Step 3, one iteration, in order. *)
WalkFold ==
  /\ pc \in WalkModes /\ todo # {}
  /\ LET i == Min(todo)
         split == WalkSplit(t1, dev, WalkSplits, i, EmbargoPct, pc = "anchored")
     IN /\ todo' = todo \ {i}
        /\ IF split.train # {} /\ split.test # {} THEN Fit(split) ELSE NotFitted
  /\ UNCHANGED <<pc, t1, dev, hold, predicted>>

(* Step 4: fit on all of dev, predict the holdout; nothing to fit on       *)
(* raises and ends the call.                                               *)
FitHoldout ==
  /\ pc \in WalkModes /\ todo = {}
  /\ pc' = "last"
  /\ IF dev # {} THEN Fit(Split(dev, hold)) ELSE NotFitted
  /\ UNCHANGED <<t1, dev, hold, todo, predicted>>

-----------------------------------------------------------------------------
(* oof_predict.                                                            *)

StartOOF(I) ==
  /\ pc = "idle"
  /\ t1' \in Spans(I)
  /\ predicted' = [e \in I |-> 0]
  /\ pc' = "oof" /\ todo' = 0 .. KFolds - 1
  /\ UNCHANGED <<dev, hold, fold, touched>>

OOFFold ==
  /\ pc = "oof" /\ todo # {}
  /\ LET g == Min(todo)
         split == KFoldSplit(t1, DOMAIN t1, KFolds, g, EmbargoPct)
     IN /\ todo' = todo \ {g}
        /\ Fit(split)
        /\ predicted' = [e \in DOMAIN t1 |-> predicted[e] + (IF e \in split.test THEN 1 ELSE 0)]
  /\ UNCHANGED <<pc, t1, dev, hold>>

Return ==
  /\ pc = "last" \/ (pc = "oof" /\ todo = {})
  /\ pc' = "idle" /\ t1' = NoData
  /\ dev' = {} /\ hold' = {} /\ todo' = {}
  /\ fold' = NoFit /\ touched' = {} /\ predicted' = NoData

Next ==
  \/ \E I \in Indexes : StartValidation(I) \/ StartOOF(I)
  \/ CPCVFold \/ StartWalkForward \/ WalkFold \/ FitHoldout
  \/ OOFFold
  \/ Return

Spec == Init /\ [][Next]_vars

-----------------------------------------------------------------------------
(* Properties.                                                             *)

(* Every set the protocol handles is a part of the index it was called on. *)
TypeOK ==
  /\ pc \in {"idle", "cpcv", "last", "oof"} \cup WalkModes
  /\ DOMAIN t1 \in Indexes \cup {{}} /\ t1 \in [DOMAIN t1 -> Bars]
  /\ \A e \in DOMAIN t1 : t1[e] \in e + 1 .. e + MaxSpan
  /\ dev \subseteq DOMAIN t1 /\ hold \subseteq DOMAIN t1
  /\ IF pc = "cpcv" THEN todo \subseteq CPCVCombos
     ELSE todo \subseteq 0 .. Larger(WalkSplits, KFolds)
  /\ fold \in [train : SUBSET DOMAIN t1, test : SUBSET DOMAIN t1]
  /\ touched \subseteq DOMAIN t1
  /\ predicted = NoData \/ predicted \in [DOMAIN t1 -> 0 .. 1]

(* "A model that never saw it (nor any label overlapping it)"              *)
(* (harness.py:147-148): no fit, of any kind of fold, trains on a label    *)
(* that shares a bar with a label it is tested on.                         *)
NoLeak == \A a \in fold.train, b \in fold.test : ~ Overlap(t1, a, b)

(* The index a cross-validation loop splits. *)
Indexed == IF pc = "cpcv" THEN dev ELSE DOMAIN t1

WithinEmbargo(a, b) ==
  /\ t1[b] < a
  /\ Cardinality({e \in Indexed : t1[b] < e /\ e <= a}) <= Portion(Indexed, EmbargoPct)

(* Purging is exact: in a cross-validation fold every event is trained on, *)
(* tested, within the embargo, or overlaps a tested label - none is lost   *)
(* to merged intervals that swallow what lies between test blocks          *)
(* (cpcv.py:36-38).                                                        *)
OnlyLeaksDropped ==
  pc \in {"cpcv", "oof"} /\ fold # NoFit =>
    \A a \in Indexed \ (fold.train \cup fold.test) :
      \E b \in fold.test : Overlap(t1, a, b) \/ WithinEmbargo(a, b)

(* "A final never-touched holdout" (harness.py:5): until the last fit, no  *)
(* event that was fitted or predicted is in the holdout, or has a label    *)
(* that reaches into it.                                                   *)
HoldoutUnseen ==
  pc \in {"cpcv"} \cup WalkModes =>
    \A a \in touched, b \in hold : a # b /\ ~ Overlap(t1, a, b)

(* Walk-forward fits use the past only: every label fitted on has ended    *)
(* before the first tested event starts (walkforward.py:53-56).            *)
ForwardOnly ==
  pc \in {"last"} \cup WalkModes => \A a \in fold.train, b \in fold.test : t1[a] < b

(* oof_predict leaves exactly one prediction per event. *)
PredictedOnce ==
  pc = "oof" /\ todo = {} => \A e \in DOMAIN t1 : predicted[e] = 1

(* "Additionally drop train observations falling within a short window     *)
(* after each test block" (cpcv.py:10-11): no fold trains on one of the    *)
(* next embargo events after a tested label's end.                         *)
EmbargoHolds ==
  pc \in {"cpcv", "oof"} => \A a \in fold.train, b \in fold.test : ~ WithinEmbargo(a, b)
=============================================================================
