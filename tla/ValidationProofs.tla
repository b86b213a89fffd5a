-------------------------- MODULE ValidationProofs --------------------------
(***************************************************************************)
(* Proofs about Validation, for every index, history, number of folds and  *)
(* size of embargo and holdout.  What one split guarantees is in           *)
(* DataProofs; IInv keeps, with the fold at hand, enough of how it         *)
(* was made.                                                               *)
(***************************************************************************)
EXTENDS Validation, DataProofs

-----------------------------------------------------------------------------
(* The protocol.                                                           *)

(* How the fold at hand was made. *)
FoldShape ==
  /\ pc = "idle" => fold = NoFit
  /\ pc \in {"cpcv", "oof"} =>
       \/ fold = NoFit
       \/ \E test \in SUBSET Indexed : fold = PurgedSplit(t1, Indexed, test, EmbargoPct)
  /\ pc \in {"last"} \cup WalkModes => \A a \in fold.train, b \in fold.test : t1[a] < b

(* What the development set keeps clear of, and how long. *)
DevShape ==
  /\ pc = "idle" => touched = {} /\ dev = {} /\ hold = {}
  /\ pc \in {"cpcv"} \cup WalkModes =>
       touched \subseteq dev /\ \A a \in dev, b \in hold : t1[a] < b

(* The folds oof_predict has been through are the ones it has written.     *)
Written(e) == \E g \in (0 .. KFolds - 1) \ todo : e \in Group(DOMAIN t1, KFolds, g)

OOFShape ==
  IF pc = "oof" THEN
    /\ todo \subseteq 0 .. KFolds - 1
    /\ predicted = [e \in DOMAIN t1 |-> IF Written(e) THEN 1 ELSE 0]
  ELSE predicted = NoData

IInv == TypeOK /\ FoldShape /\ DevShape /\ OOFShape

LEMMA SpansLabel ==
  ASSUME NEW I \in Indexes, NEW t \in Spans(I)
  PROVE  /\ DOMAIN t = I /\ t \in [I -> Bars] /\ \A e \in I : t[e] \in e + 1 .. e + MaxSpan
         /\ I \in SUBSET Nat /\ Labels(t, I, NBars)
<1>1. PICK bars \in [I -> 1 .. MaxSpan] : t = [e \in I |-> e + bars[e]]
  BY DEF Spans
<1>2. I \in SUBSET (0 .. NBars - 1) /\ NBars \in Nat /\ MaxSpan \in Nat
  BY ValidationAssumption DEF Bars
<1>3. \A e \in I : t[e] \in Bars
  BY DEF Spans
<1>4. \A e \in I : t[e] \in e + 1 .. e + MaxSpan
  <2> TAKE e \in I
  <2>1. t[e] = e + bars[e] /\ bars[e] \in 1 .. MaxSpan /\ e \in Nat
    BY <1>1, <1>2
  <2> QED BY <1>2, <2>1
<1>5. DOMAIN t = I /\ t \in [I -> Bars]
  BY <1>1, <1>3
<1>6. Labels(t, I, NBars)
  <2>1. I \subseteq 0 .. NBars /\ t \in [I -> 0 .. NBars]
    BY <1>2, <1>5 DEF Bars
  <2>2. \A e \in I : e <= t[e]
    BY <1>2, <1>4
  <2> QED BY <2>1, <2>2 DEF Labels
<1>7. I \in SUBSET Nat
  BY <1>2
<1> QED BY <1>4, <1>5, <1>6, <1>7

(* A typed state's spans are labels, so the lemmas above apply to it.      *)
LEMMA StateLabels ==
  ASSUME TypeOK
  PROVE  /\ Labels(t1, DOMAIN t1, NBars) /\ NBars \in Nat /\ DOMAIN t1 \in SUBSET (0 .. NBars)
         /\ dev \in SUBSET DOMAIN t1 /\ Indexed \in SUBSET DOMAIN t1
         /\ EmbargoPct \in 0 .. 100
<1>1. DOMAIN t1 \in SUBSET (0 .. NBars - 1) /\ NBars \in Nat /\ MaxSpan \in Nat
  BY ValidationAssumption DEF TypeOK, Bars
<1>2. t1 \in [DOMAIN t1 -> 0 .. NBars]
  BY <1>1 DEF TypeOK, Bars
<1>3. ASSUME NEW e \in DOMAIN t1 PROVE e <= t1[e]
  <2>1. e \in Nat /\ t1[e] \in e + 1 .. e + MaxSpan
    BY <1>1 DEF TypeOK
  <2> QED BY <1>1, <2>1
<1>4. DOMAIN t1 \subseteq 0 .. NBars
  BY <1>1
<1>5. Labels(t1, DOMAIN t1, NBars)
  BY <1>2, <1>3, <1>4 DEF Labels
<1> QED BY <1>1, <1>4, <1>5, ValidationAssumption DEF TypeOK, Indexed

LEMMA Modes == WalkModes \subseteq {"anchored", "rolling"}
  BY ValidationAssumption

LEMMA FoldRange ==
  /\ KFolds \in Nat \ {0} /\ 0 .. KFolds - 1 \subseteq 0 .. Larger(WalkSplits, KFolds)
  /\ 1 .. WalkSplits \subseteq 0 .. Larger(WalkSplits, KFolds)
  /\ 0 .. Larger(WalkSplits, KFolds) \subseteq Nat
  BY ValidationAssumption DEF Larger

LEMMA InitInv == Init => IInv
<1> SUFFICES ASSUME Init PROVE IInv
  OBVIOUS
<1> USE DEF Init
<1>1. /\ DOMAIN t1 = {} /\ t1 \in [{} -> Bars] /\ predicted = NoData /\ todo = {}
      /\ fold.train = {} /\ fold.test = {}
  BY DEF NoData, NoFit, Split
<1>2. TypeOK
  <2>1. fold \in [train : SUBSET DOMAIN t1, test : SUBSET DOMAIN t1]
    BY DEF NoFit, Split
  <2> QED BY <1>1, <2>1 DEF TypeOK
<1>3. FoldShape /\ DevShape /\ OOFShape
  BY Modes DEF FoldShape, DevShape, OOFShape
<1> QED BY <1>2, <1>3 DEF IInv

LEMMA StartValidationInv ==
  ASSUME IInv, NEW I \in Indexes, StartValidation(I)
  PROVE  IInv'
<1>1. /\ pc = "idle" /\ pc' = "cpcv" /\ todo' = CPCVCombos
      /\ UNCHANGED <<fold, touched, predicted>>
  BY DEF StartValidation
<1>2. t1' \in Spans(I)
  BY DEF StartValidation
<1>3. /\ DOMAIN t1' = I /\ t1' \in [I -> Bars]
      /\ \A e \in I : t1'[e] \in e + 1 .. e + MaxSpan
      /\ Labels(t1', I, NBars) /\ NBars \in Nat /\ HoldoutPct \in 0 .. 100
  BY <1>2, SpansLabel, ValidationAssumption
<1>4. dev' \subseteq I /\ hold' \subseteq I /\ \A a \in dev', b \in hold' : t1'[a] < b
  <2> DEFINE h == HoldoutSplit(t1', I, HoldoutPct)
  <2>1. h.train \subseteq I /\ h.test \subseteq I /\ \A a \in h.train, b \in h.test : t1'[a] < b
    BY <1>3, HoldoutAfter
  <2>2. dev' = h.train /\ hold' = h.test
    BY DEF StartValidation
  <2> QED BY <2>1, <2>2
<1>5. fold' = NoFit /\ touched' = {}
  BY <1>1 DEF IInv, FoldShape, DevShape
<1>6. predicted' = NoData
  BY <1>1 DEF IInv, OOFShape
<1>7. TypeOK'
  <2>1. fold' \in [train : SUBSET DOMAIN t1', test : SUBSET DOMAIN t1']
    BY <1>5 DEF NoFit, Split
  <2> QED BY <1>1, <1>3, <1>4, <1>5, <1>6, <2>1 DEF TypeOK
<1>8. FoldShape' /\ DevShape' /\ OOFShape'
  BY <1>1, <1>4, <1>5, <1>6, Modes DEF FoldShape, DevShape, OOFShape
<1> QED BY <1>7, <1>8 DEF IInv

(* What a fit on a part of an index, or none, leaves of the typing.        *)
LEMMA FitTyped ==
  ASSUME TypeOK, UNCHANGED t1, NEW split,
         split.train \subseteq DOMAIN t1, split.test \subseteq DOMAIN t1,
         split = Split(split.train, split.test), Fit(split)
  PROVE  /\ fold' \in [train : SUBSET DOMAIN t1', test : SUBSET DOMAIN t1']
         /\ touched' \subseteq DOMAIN t1'
<1>1. split \in [train : SUBSET DOMAIN t1, test : SUBSET DOMAIN t1]
  BY DEF Split
<1> QED BY <1>1 DEF Fit, TypeOK

LEMMA NoFitTyped ==
  ASSUME TypeOK, UNCHANGED t1, NotFitted
  PROVE  /\ fold' \in [train : SUBSET DOMAIN t1', test : SUBSET DOMAIN t1']
         /\ touched' \subseteq DOMAIN t1'
<1>1. NoFit \in [train : SUBSET DOMAIN t1, test : SUBSET DOMAIN t1]
  BY DEF NoFit, Split
<1> QED BY <1>1 DEF NotFitted, TypeOK

LEMMA CPCVFoldInv ==
  ASSUME IInv, CPCVFold
  PROVE  IInv'
<1> DEFINE combo == FirstCombo(todo)
           test == UNION {Group(dev, CPCVGroups, g) : g \in combo}
           split == PurgedSplit(t1, dev, test, EmbargoPct)
<1>1. pc = "cpcv" /\ UNCHANGED <<pc, t1, dev, hold, predicted>> /\ todo' = todo \ {combo}
  BY DEF CPCVFold
<1>2. Fit(split) \/ NotFitted
  BY DEF CPCVFold, CPCVSplit
<1>3. test \in SUBSET dev
  BY DEF Group
<1> HIDE DEF combo, test
<1>4. /\ Labels(t1, DOMAIN t1, NBars) /\ NBars \in Nat /\ dev \in SUBSET DOMAIN t1
      /\ EmbargoPct \in 0 .. 100 /\ TypeOK /\ FoldShape /\ DevShape /\ OOFShape
  BY StateLabels DEF IInv
<1>5. split.train \subseteq dev /\ split.test \subseteq dev
  <2>1. split.train \subseteq dev /\ split.test = test
    BY DEF PurgedSplit, Split, Embargo, Purge
  <2> QED BY <1>3, <2>1
<1>6. split = Split(split.train, split.test)
  BY DEF PurgedSplit, Split
<1>7. Fit(split) => fold' = split /\ touched' \subseteq touched \cup dev
  BY <1>5 DEF Fit
<1> HIDE DEF split
<1>8. /\ fold' \in [train : SUBSET DOMAIN t1', test : SUBSET DOMAIN t1']
      /\ touched' \subseteq DOMAIN t1'
  BY <1>1, <1>2, <1>4, <1>5, <1>6, FitTyped, NoFitTyped
<1>9. TypeOK'
  BY <1>1, <1>4, <1>8 DEF TypeOK
<1>10. FoldShape'
  <2>1. fold' = NoFit \/ fold' = split
    BY <1>2, <1>7 DEF NotFitted
  <2>2. Indexed' = dev
    BY <1>1 DEF Indexed
  <2> QED BY <1>1, <1>3, <2>1, <2>2, Modes DEF FoldShape, split
<1>11. DevShape'
  <2>1. touched' \subseteq dev
    BY <1>1, <1>2, <1>4, <1>7 DEF DevShape, NotFitted
  <2> QED BY <1>1, <1>4, <2>1, Modes DEF DevShape
<1>12. OOFShape'
  BY <1>1, <1>4 DEF OOFShape
<1> QED BY <1>9, <1>10, <1>11, <1>12 DEF IInv

LEMMA StartWalkForwardInv ==
  ASSUME IInv, StartWalkForward
  PROVE  IInv'
<1>1. /\ pc = "cpcv" /\ pc' \in WalkModes /\ todo' = 1 .. WalkSplits /\ NotFitted
      /\ UNCHANGED <<t1, dev, hold, predicted>>
  BY DEF StartWalkForward
<1>2. TypeOK /\ FoldShape /\ DevShape /\ OOFShape
  BY DEF IInv
<1>3. /\ fold' \in [train : SUBSET DOMAIN t1', test : SUBSET DOMAIN t1']
      /\ touched' \subseteq DOMAIN t1'
  BY <1>1, <1>2, NoFitTyped
<1>4. pc' \in {"anchored", "rolling"}
  BY <1>1, Modes
<1>5. TypeOK'
  BY <1>1, <1>2, <1>3, <1>4, FoldRange DEF TypeOK
<1>6. fold'.train = {} /\ touched' = touched
  BY <1>1 DEF NotFitted, NoFit, Split
<1>7. FoldShape' /\ DevShape' /\ OOFShape'
  BY <1>1, <1>2, <1>4, <1>6 DEF FoldShape, DevShape, OOFShape
<1> QED BY <1>5, <1>7 DEF IInv

LEMMA WalkFoldInv ==
  ASSUME IInv, WalkFold
  PROVE  IInv'
<1> DEFINE i == Min(todo)
           split == WalkSplit(t1, dev, WalkSplits, i, EmbargoPct, pc = "anchored")
<1>1. pc \in WalkModes /\ UNCHANGED <<pc, t1, dev, hold, predicted>> /\ todo' = todo \ {i}
  BY DEF WalkFold
<1>2. Fit(split) \/ NotFitted
  BY DEF WalkFold
<1> HIDE DEF i
<1>3. /\ Labels(t1, DOMAIN t1, NBars) /\ NBars \in Nat /\ dev \in SUBSET DOMAIN t1
      /\ EmbargoPct \in 0 .. 100 /\ TypeOK /\ FoldShape /\ DevShape /\ OOFShape
  BY StateLabels DEF IInv
<1>4. /\ split.train \subseteq dev /\ split.test \subseteq dev
      /\ \A a \in split.train, b \in split.test : t1[a] < b
  BY <1>3, WalkAfter
<1>5. split = Split(split.train, split.test)
  BY DEF WalkSplit, Split
<1> HIDE DEF split
<1>6. Fit(split) => fold' = split /\ touched' \subseteq touched \cup dev
  BY <1>4 DEF Fit
<1>7. /\ fold' \in [train : SUBSET DOMAIN t1', test : SUBSET DOMAIN t1']
      /\ touched' \subseteq DOMAIN t1'
  BY <1>1, <1>2, <1>3, <1>4, <1>5, FitTyped, NoFitTyped
<1>8. pc \in {"anchored", "rolling"}
  BY <1>1, Modes
<1>9. TypeOK'
  BY <1>1, <1>3, <1>7, <1>8 DEF TypeOK
<1>10. FoldShape'
  <2>1. \A a \in fold'.train, b \in fold'.test : t1[a] < b
    BY <1>2, <1>4, <1>6 DEF NotFitted, NoFit, Split
  <2> QED BY <1>1, <1>8, <2>1 DEF FoldShape
<1>11. DevShape'
  <2>1. touched' \subseteq dev
    BY <1>1, <1>2, <1>3, <1>6 DEF DevShape, NotFitted
  <2> QED BY <1>1, <1>3, <1>8, <2>1 DEF DevShape
<1>12. OOFShape'
  BY <1>1, <1>3, <1>8 DEF OOFShape
<1> QED BY <1>9, <1>10, <1>11, <1>12 DEF IInv

LEMMA FitHoldoutInv ==
  ASSUME IInv, FitHoldout
  PROVE  IInv'
<1> DEFINE split == Split(dev, hold)
<1>1. pc \in WalkModes /\ todo = {} /\ pc' = "last" /\ UNCHANGED <<t1, dev, hold, todo, predicted>>
  BY DEF FitHoldout
<1>2. Fit(split) \/ NotFitted
  BY DEF FitHoldout
<1>3. TypeOK /\ FoldShape /\ DevShape /\ OOFShape
  BY DEF IInv
<1>4. split.train = dev /\ split.test = hold /\ split = Split(split.train, split.test)
  BY DEF Split
<1> HIDE DEF split
<1>5. dev \subseteq DOMAIN t1 /\ hold \subseteq DOMAIN t1
  BY <1>3 DEF TypeOK
<1>6. /\ fold' \in [train : SUBSET DOMAIN t1', test : SUBSET DOMAIN t1']
      /\ touched' \subseteq DOMAIN t1'
  BY <1>1, <1>2, <1>3, <1>4, <1>5, FitTyped, NoFitTyped
<1>7. pc \in {"anchored", "rolling"} /\ "last" \notin WalkModes
  BY <1>1, Modes
<1>8. TypeOK'
  BY <1>1, <1>3, <1>6, <1>7 DEF TypeOK
<1>9. FoldShape'
  <2>1. \A a \in dev, b \in hold : t1[a] < b
    BY <1>1, <1>3 DEF DevShape
  <2>2. \A a \in fold'.train, b \in fold'.test : t1[a] < b
    BY <1>2, <1>4, <2>1 DEF Fit, NotFitted, NoFit, Split
  <2> QED BY <1>1, <2>2 DEF FoldShape
<1>10. DevShape' /\ OOFShape'
  BY <1>1, <1>3, <1>7 DEF DevShape, OOFShape
<1> QED BY <1>8, <1>9, <1>10 DEF IInv

LEMMA StartOOFInv ==
  ASSUME IInv, NEW I \in Indexes, StartOOF(I)
  PROVE  IInv'
<1>1. /\ pc = "idle" /\ pc' = "oof" /\ todo' = 0 .. KFolds - 1
      /\ predicted' = [e \in I |-> 0] /\ t1' \in Spans(I)
      /\ UNCHANGED <<dev, hold, fold, touched>>
  BY DEF StartOOF
<1>2. /\ DOMAIN t1' = I /\ t1' \in [I -> Bars]
      /\ \A e \in I : t1'[e] \in e + 1 .. e + MaxSpan
  BY <1>1, SpansLabel
<1>3. /\ fold' = NoFit /\ touched' = {} /\ dev' = {} /\ hold' = {}
  BY <1>1 DEF IInv, FoldShape, DevShape
<1>4. TypeOK'
  <2>1. fold' \in [train : SUBSET DOMAIN t1', test : SUBSET DOMAIN t1']
    BY <1>3 DEF NoFit, Split
  <2>2. predicted' \in [DOMAIN t1' -> 0 .. 1]
    BY <1>1, <1>2
  <2> QED BY <1>1, <1>2, <1>3, <2>1, <2>2, FoldRange DEF TypeOK
<1>5. OOFShape'
  <2>1. \A e : ~ Written(e)'
    BY <1>1 DEF Written
  <2>2. predicted' = [e \in DOMAIN t1' |-> IF Written(e)' THEN 1 ELSE 0]
    BY <1>1, <1>2, <2>1
  <2> QED BY <1>1, <2>2 DEF OOFShape
<1>6. FoldShape' /\ DevShape'
  BY <1>1, <1>3, Modes DEF FoldShape, DevShape
<1> QED BY <1>4, <1>5, <1>6 DEF IInv

LEMMA OOFFoldInv ==
  ASSUME IInv, OOFFold
  PROVE  IInv'
<1> DEFINE g == Min(todo)
           I == DOMAIN t1
           test == Group(I, KFolds, g)
           split == PurgedSplit(t1, I, test, EmbargoPct)
<1>1. /\ pc = "oof" /\ todo # {} /\ UNCHANGED <<pc, t1, dev, hold>> /\ todo' = todo \ {g}
      /\ Fit(split)
      /\ predicted' = [e \in I |-> predicted[e] + (IF e \in split.test THEN 1 ELSE 0)]
  BY DEF OOFFold, KFoldSplit
<1>2. /\ TypeOK /\ FoldShape /\ DevShape /\ OOFShape /\ todo \subseteq 0 .. KFolds - 1
      /\ predicted = [e \in I |-> IF Written(e) THEN 1 ELSE 0]
      /\ NBars \in Nat /\ I \in SUBSET (0 .. NBars) /\ KFolds \in Nat \ {0}
  BY <1>1, StateLabels, FoldRange DEF IInv, OOFShape
<1>3. g \in todo /\ g \in Nat
  <2>1. todo \in SUBSET Nat
    BY <1>2
  <2> QED BY <1>1, <2>1, MinIs
<1> HIDE DEF g
<1>4. test \in SUBSET I
  BY DEF Group
<1>5. split.test = test /\ split.train \subseteq I /\ split = Split(split.train, split.test)
  BY DEF PurgedSplit, Split, Embargo, Purge
<1>6. \A e \in I : Written(e)' <=> Written(e) \/ e \in test
  BY <1>1, <1>2, <1>3 DEF Written
<1>7. \A e \in test : ~ Written(e)
  <2> SUFFICES ASSUME NEW e \in test, NEW h \in (0 .. KFolds - 1) \ todo,
                      e \in Group(I, KFolds, h)
               PROVE  FALSE
    BY DEF Written
  <2>1. h \in Nat /\ h # g
    BY <1>2, <1>3
  <2>2. Group(I, KFolds, g) \cap Group(I, KFolds, h) = {}
    BY <1>2, <1>3, <2>1, GroupsPartition
  <2> QED BY <2>2
<1> HIDE DEF test, split
<1>8. predicted' = [e \in I |-> IF Written(e)' THEN 1 ELSE 0]
  <2>1. \A e \in I : predicted[e] + (IF e \in split.test THEN 1 ELSE 0)
                     = IF Written(e)' THEN 1 ELSE 0
    <3> TAKE e \in I
    <3>1. predicted[e] = IF Written(e) THEN 1 ELSE 0
      BY <1>2
    <3>2. CASE e \in test
      BY <1>5, <1>6, <1>7, <3>1, <3>2
    <3>3. CASE e \notin test
      BY <1>5, <1>6, <3>1, <3>3
    <3> QED BY <3>2, <3>3
  <2> QED BY <1>1, <2>1
<1>9. /\ fold' \in [train : SUBSET DOMAIN t1', test : SUBSET DOMAIN t1']
      /\ touched' \subseteq DOMAIN t1'
  BY <1>1, <1>2, <1>4, <1>5, FitTyped
<1>10. TypeOK'
  <2>1. predicted' \in [DOMAIN t1' -> 0 .. 1]
    BY <1>1, <1>8
  <2> QED BY <1>1, <1>2, <1>9, <2>1, FoldRange DEF TypeOK
<1>11. FoldShape'
  <2>1. fold' = split /\ Indexed' = I
    BY <1>1 DEF Fit, Indexed
  <2> QED BY <1>1, <1>4, <2>1, Modes DEF FoldShape, split
<1>12. DevShape'
  BY <1>1, Modes DEF DevShape
<1>13. OOFShape'
  BY <1>1, <1>2, <1>8 DEF OOFShape
<1> QED BY <1>10, <1>11, <1>12, <1>13 DEF IInv

LEMMA ReturnInv ==
  ASSUME IInv, Return
  PROVE  IInv'
<1>1. /\ pc' = "idle" /\ t1' = NoData /\ dev' = {} /\ hold' = {} /\ todo' = {}
      /\ fold' = NoFit /\ touched' = {} /\ predicted' = NoData
  BY DEF Return
<1>2. DOMAIN t1' = {} /\ t1' \in [{} -> Bars] /\ fold'.train = {} /\ fold'.test = {}
  BY <1>1 DEF NoData, NoFit, Split
<1>3. TypeOK'
  <2>1. fold' \in [train : SUBSET DOMAIN t1', test : SUBSET DOMAIN t1']
    BY <1>1 DEF NoFit, Split
  <2> QED BY <1>1, <1>2, <2>1 DEF TypeOK
<1>4. FoldShape' /\ DevShape' /\ OOFShape'
  BY <1>1, <1>2, Modes DEF FoldShape, DevShape, OOFShape
<1> QED BY <1>3, <1>4 DEF IInv

LEMMA StepInv == IInv /\ [Next]_vars => IInv'
<1> SUFFICES ASSUME IInv, [Next]_vars PROVE IInv'
  OBVIOUS
<1>1. ASSUME NEW I \in Indexes, StartValidation(I) PROVE IInv'
  BY <1>1, StartValidationInv
<1>2. ASSUME NEW I \in Indexes, StartOOF(I) PROVE IInv'
  BY <1>2, StartOOFInv
<1>3. CASE CPCVFold
  BY <1>3, CPCVFoldInv
<1>4. CASE StartWalkForward
  BY <1>4, StartWalkForwardInv
<1>5. CASE WalkFold
  BY <1>5, WalkFoldInv
<1>6. CASE FitHoldout
  BY <1>6, FitHoldoutInv
<1>7. CASE OOFFold
  BY <1>7, OOFFoldInv
<1>8. CASE Return
  BY <1>8, ReturnInv
<1>9. CASE UNCHANGED vars
  BY <1>9 DEF IInv, TypeOK, FoldShape, DevShape, OOFShape, Written, Indexed, vars
<1> QED BY <1>1, <1>2, <1>3, <1>4, <1>5, <1>6, <1>7, <1>8, <1>9 DEF Next

LEMMA Invariant == Spec => []IInv
<1> QED BY InitInv, StepInv, PTL DEF Spec

-----------------------------------------------------------------------------
(* The results.                                                            *)

(* Every set the protocol handles stays inside the index it was given.     *)
THEOREM TypeCorrect == Spec => []TypeOK
<1>1. IInv => TypeOK
  BY DEF IInv
<1> QED BY <1>1, Invariant, PTL

(* Walk-forward and holdout fits see only labels that ended before the     *)
(* first event they are judged on (walkforward.py:53-56).                  *)
THEOREM FitsUseThePast == Spec => []ForwardOnly
<1>1. IInv => ForwardOnly
  BY DEF IInv, FoldShape, ForwardOnly
<1> QED BY <1>1, Invariant, PTL

(* No fold of run_validation or oof_predict trains on a label that shares  *)
(* a bar with a tested one, whatever the index, spans, folds and embargo   *)
(* (harness.py:147-148).                                                   *)
THEOREM NoFoldLeaks == Spec => []NoLeak
<1>1. ASSUME IInv PROVE NoLeak
  <2>1. /\ Labels(t1, DOMAIN t1, NBars) /\ NBars \in Nat /\ Indexed \in SUBSET DOMAIN t1
        /\ EmbargoPct \in 0 .. 100 /\ TypeOK /\ FoldShape
    BY <1>1, StateLabels DEF IInv
  <2>2. CASE fold = NoFit
    BY <2>2 DEF NoLeak, NoFit, Split
  <2>3. CASE pc \in {"cpcv", "oof"} /\ fold # NoFit
    <3>1. PICK test \in SUBSET Indexed : fold = PurgedSplit(t1, Indexed, test, EmbargoPct)
      BY <2>1, <2>3 DEF FoldShape
    <3> DEFINE s == PurgedSplit(t1, Indexed, test, EmbargoPct)
    <3>2. \A a \in s.train, b \in s.test : ~ Overlap(t1, a, b)
      BY <2>1, PurgedSplitExact
    <3> HIDE DEF s
    <3> QED BY <3>1, <3>2 DEF NoLeak, s
  <2>4. CASE pc \in {"last"} \cup WalkModes
    <3> SUFFICES ASSUME NEW a \in fold.train, NEW b \in fold.test PROVE ~ Overlap(t1, a, b)
      BY DEF NoLeak
    <3>1. a \in DOMAIN t1 /\ b \in DOMAIN t1 /\ t1[a] < b
      BY <2>1, <2>4 DEF TypeOK, FoldShape
    <3>2. b \in Nat /\ t1[a] \in Nat
      BY <2>1, <3>1 DEF Labels
    <3> QED BY <3>1, <3>2 DEF Overlap
  <2>5. pc \in {"idle", "cpcv", "last", "oof"} \cup WalkModes
    BY <2>1 DEF TypeOK
  <2> QED BY <2>1, <2>2, <2>3, <2>4, <2>5 DEF FoldShape
<1> QED BY <1>1, Invariant, PTL

(* Purging costs no more than it must: an event of a cross-validation fold *)
(* that is not used overlaps a tested label or is embargoed                *)
(* (cpcv.py:36-38).                                                        *)
THEOREM PurgingIsExact == Spec => []OnlyLeaksDropped
<1>1. ASSUME IInv PROVE OnlyLeaksDropped
  <2> SUFFICES ASSUME pc \in {"cpcv", "oof"}, fold # NoFit
               PROVE  \A a \in Indexed \ (fold.train \cup fold.test) :
                        \E b \in fold.test : Overlap(t1, a, b) \/ WithinEmbargo(a, b)
    BY DEF OnlyLeaksDropped
  <2>1. /\ Labels(t1, DOMAIN t1, NBars) /\ NBars \in Nat /\ Indexed \in SUBSET DOMAIN t1
        /\ EmbargoPct \in 0 .. 100 /\ FoldShape
    BY <1>1, StateLabels DEF IInv
  <2>2. PICK test \in SUBSET Indexed : fold = PurgedSplit(t1, Indexed, test, EmbargoPct)
    BY <2>1 DEF FoldShape
  <2> DEFINE s == PurgedSplit(t1, Indexed, test, EmbargoPct)
  <2> HIDE DEF s
  <2>3. Excused(t1, Indexed, EmbargoPct, s)
    BY <2>1, PurgedSplitExact DEF s
  <2>4. fold = s
    BY <2>2 DEF s
  <2> QED BY <2>3, <2>4 DEF Excused, WithinEmbargo
<1> QED BY <1>1, Invariant, PTL

(* Until the last fit nothing that was fitted or predicted is in the       *)
(* holdout or has a label that reaches into it (harness.py:5).             *)
THEOREM HoldoutNeverTouched == Spec => []HoldoutUnseen
<1>1. ASSUME IInv PROVE HoldoutUnseen
  <2> SUFFICES ASSUME pc \in {"cpcv"} \cup WalkModes, NEW a \in touched, NEW b \in hold
               PROVE  a # b /\ ~ Overlap(t1, a, b)
    BY DEF HoldoutUnseen
  <2>1. a \in DOMAIN t1 /\ b \in DOMAIN t1 /\ t1[a] < b
    BY <1>1 DEF IInv, DevShape, TypeOK
  <2>2. a \in Nat /\ b \in Nat /\ t1[a] \in Nat /\ a <= t1[a]
    BY <1>1, <2>1, StateLabels DEF IInv, Labels
  <2> QED BY <2>1, <2>2 DEF Overlap
<1> QED BY <1>1, Invariant, PTL

(* oof_predict, when it returns, has predicted every event exactly once:   *)
(* its folds partition the index (cpcv.py:159, harness.py:151-156).        *)
THEOREM EveryEventOnce == Spec => []PredictedOnce
<1>1. ASSUME IInv PROVE PredictedOnce
  <2> SUFFICES ASSUME pc = "oof", todo = {}, NEW e \in DOMAIN t1 PROVE predicted[e] = 1
    BY DEF PredictedOnce
  <2>1. /\ NBars \in Nat /\ DOMAIN t1 \in SUBSET (0 .. NBars) /\ KFolds \in Nat \ {0}
        /\ predicted = [f \in DOMAIN t1 |-> IF Written(f) THEN 1 ELSE 0]
    BY <1>1, StateLabels, FoldRange DEF IInv, OOFShape
  <2>2. \E g \in 0 .. KFolds - 1 : e \in Group(DOMAIN t1, KFolds, g)
    BY <2>1, GroupsPartition
  <2>3. Written(e)
    BY <2>2 DEF Written
  <2> QED BY <2>1, <2>3
<1> QED BY <1>1, Invariant, PTL
=============================================================================
