----------------------------- MODULE MetaProofs -----------------------------
(***************************************************************************)
(* Proofs about MetaTraining, for every index, label spans, number of      *)
(* folds and embargo: at no depth of the nested cross-validations has a    *)
(* model seen a label that overlaps the one it is asked about.             *)
(***************************************************************************)
EXTENDS MetaTraining, DataProofs

(* No label of fitted shares a bar with a label of asked. *)
Clean(fitted, asked) == \A a \in fitted, b \in asked : ~ Overlap(t1, a, b)

(* Label spans of the call, and what is kept clear of what. *)
CallShape ==
  /\ Labels(t1, DOMAIN t1, NBars)
  /\ rows \in SUBSET DOMAIN t1 /\ test \in SUBSET DOMAIN t1
  /\ Clean(rows, test)

(* What the primaries are fitted on, and the bets they are asked about.    *)
PrimaryShape ==
  /\ bets \subseteq DOMAIN judge /\ DOMAIN judge \subseteq rows /\ primary \subseteq rows
  /\ \A e \in DOMAIN judge : judge[e] \subseteq rows /\ \A a \in judge[e] : ~ Overlap(t1, a, e)

(* What the bases are fitted on, and the bets they score.                  *)
MetaShape ==
  /\ meta \subseteq bets /\ DOMAIN scores \subseteq bets
  /\ \A e \in DOMAIN scores : scores[e] \subseteq bets /\ \A a \in scores[e] : ~ Overlap(t1, a, e)

IdleShape == pc = "idle" => Fresh /\ primary = {}

MInv == CallShape /\ PrimaryShape /\ MetaShape /\ IdleShape

-----------------------------------------------------------------------------
(* The values a call starts from and returns to. *)

LEMMA BlankInv ==
  ASSUME t1 = [e \in {} |-> 0], rows = {}, test = {}, primary = {}, Fresh
  PROVE  MInv
<1>1. Labels(t1, DOMAIN t1, NBars)
  <2>1. DOMAIN t1 = {} /\ t1 \in [{} -> 0 .. NBars]
    OBVIOUS
  <2> QED BY <2>1 DEF Labels
<1>2. DOMAIN judge = {} /\ DOMAIN scores = {} /\ bets = {} /\ meta = {}
  BY DEF Fresh, Empty
<1> QED BY <1>1, <1>2 DEF MInv, CallShape, PrimaryShape, MetaShape, IdleShape, Clean

(* The spans the labeler gives an index are label spans. *)
LEMMA SpansLabel ==
  ASSUME NEW I \in Indexes, NEW t \in Spans(I)
  PROVE  Labels(t, I, NBars) /\ DOMAIN t = I /\ NBars \in Nat
<1>1. PICK bars \in [I -> 1 .. MaxSpan] : t = [e \in I |-> e + bars[e]]
  BY DEF Spans
<1>2. I \in SUBSET (0 .. NBars - 1) /\ NBars \in Nat /\ MaxSpan \in Nat
  BY MetaAssumption
<1>3. \A e \in I : t[e] < NBars
  BY DEF Spans
<1>4. \A e \in I : t[e] \in 0 .. NBars /\ e <= t[e]
  <2> TAKE e \in I
  <2>1. t[e] = e + bars[e] /\ bars[e] \in 1 .. MaxSpan /\ e \in Nat
    BY <1>1, <1>2
  <2> QED BY <1>2, <1>3, <2>1
<1>5. DOMAIN t = I /\ t \in [I -> 0 .. NBars]
  BY <1>1, <1>4
<1>6. I \subseteq 0 .. NBars
  BY <1>2
<1> QED BY <1>2, <1>4, <1>5, <1>6 DEF Labels

(* A split that purges and embargoes some of the events is clean.          *)
LEMMA PurgedClean ==
  ASSUME NEW t, NEW I, Labels(t, I, NBars), NEW D \in SUBSET I, NEW group \in SUBSET D,
         NEW pct \in 0 .. 100
  PROVE  LET s == PurgedSplit(t, D, group, pct) IN
         /\ s.train \subseteq D /\ s.test \subseteq D
         /\ \A a \in s.train, b \in s.test : ~ Overlap(t, a, b)
<1>1. NBars \in Nat
  BY MetaAssumption
<1> DEFINE s == PurgedSplit(t, D, group, pct)
<1>2. s.test = group
  BY DEF PurgedSplit, Split
<1>3. s.train \subseteq D
  BY <1>1, PurgedSplitExact
<1>4. \A a \in s.train, b \in s.test : ~ Overlap(t, a, b)
  BY <1>1, PurgedSplitExact
<1> QED BY <1>2, <1>3, <1>4

(* So is a fold of the purged k-fold ...                                   *)
LEMMA FoldClean ==
  ASSUME NEW t, NEW I, Labels(t, I, NBars), NEW D \in SUBSET I, NEW k, NEW g
  PROVE  LET s == KFoldSplit(t, D, k, g, EmbargoPct) IN
         /\ s.train \subseteq D /\ s.test \subseteq D
         /\ \A a \in s.train, b \in s.test : ~ Overlap(t, a, b)
<1>1. Group(D, k, g) \in SUBSET D /\ EmbargoPct \in 0 .. 100
  BY MetaAssumption DEF Group
<1> QED BY <1>1, PurgedClean DEF KFoldSplit

(* ... and a combination of CPCV test groups.                              *)
LEMMA CPCVClean ==
  ASSUME NEW t, NEW I, Labels(t, I, NBars), NEW D \in SUBSET I, NEW k, NEW combo
  PROVE  LET s == CPCVSplit(t, D, k, combo, ProtocolEmbargoPct) IN
         /\ s.train \subseteq D /\ s.test \subseteq D
         /\ \A a \in s.train, b \in s.test : ~ Overlap(t, a, b)
<1>1. \A g : Group(D, k, g) \subseteq D
  BY DEF Group
<1>2. UNION {Group(D, k, g) : g \in combo} \in SUBSET D /\ ProtocolEmbargoPct \in 0 .. 100
  BY <1>1, MetaAssumption
<1> QED BY <1>2, PurgedClean DEF CPCVSplit

(* Labels that end before the test events start overlap none of theirs.    *)
LEMMA EndedClean ==
  ASSUME NEW t, NEW I, Labels(t, I, NBars), NEW early \in SUBSET I, NEW late \in SUBSET I,
         \A a \in early, b \in late : t[a] < b
  PROVE  \A a \in early, b \in late : ~ Overlap(t, a, b)
<1> SUFFICES ASSUME NEW a \in early, NEW b \in late PROVE ~ Overlap(t, a, b)
  OBVIOUS
<1>1. t[a] \in Nat /\ b \in Nat /\ t[a] < b
  BY MetaAssumption DEF Labels
<1> QED BY <1>1 DEF Overlap

(* So every fold the validation protocol fits an estimator for is clean.   *)
LEMMA OuterClean ==
  ASSUME NEW I \in Indexes, NEW t \in Spans(I), NEW outer \in OuterSplits(t, I)
  PROVE  /\ outer.train \subseteq I /\ outer.test \subseteq I
         /\ \A a \in outer.train, b \in outer.test : ~ Overlap(t, a, b)
<1> DEFINE hold == HoldoutSplit(t, I, HoldoutPct)
           dev == hold.train
<1>1. /\ Labels(t, I, NBars) /\ NBars \in Nat
      /\ HoldoutPct \in 0 .. 100 /\ ProtocolEmbargoPct \in 0 .. 100
  BY SpansLabel, MetaAssumption
<1>2. /\ hold.train \subseteq I /\ hold.test \subseteq I
      /\ \A a \in hold.train, b \in hold.test : t[a] < b
  BY <1>1, HoldoutAfter
<1>3. CASE outer = hold
  <2> HIDE DEF hold
  <2> QED BY <1>1, <1>2, <1>3, EndedClean
<1>4. CASE \E combo \in CPCVCombos :
             outer = CPCVSplit(t, dev, CPCVGroups, combo, ProtocolEmbargoPct)
  <2>1. dev \in SUBSET I
    BY <1>2
  <2> HIDE DEF dev
  <2>2. outer.train \subseteq dev /\ outer.test \subseteq dev
    BY <1>1, <1>4, <2>1, CPCVClean
  <2>3. \A a \in outer.train, b \in outer.test : ~ Overlap(t, a, b)
    BY <1>1, <1>4, <2>1, CPCVClean
  <2> QED BY <2>1, <2>2, <2>3
<1>5. CASE \E i \in 1 .. WalkSplits, mode \in WalkModes :
             outer = WalkSplit(t, dev, WalkSplits, i, ProtocolEmbargoPct, mode = "anchored")
  <2>1. dev \in SUBSET I
    BY <1>2
  <2> HIDE DEF dev
  <2>2. PICK i, anchored : outer = WalkSplit(t, dev, WalkSplits, i, ProtocolEmbargoPct, anchored)
    BY <1>5
  <2>3. outer.train \subseteq dev /\ outer.test \subseteq dev
    BY <1>1, <2>1, <2>2, WalkAfter
  <2>4. \A a \in outer.train, b \in outer.test : t[a] < b
    BY <1>1, <2>1, <2>2, WalkAfter
  <2>5. outer.train \in SUBSET I /\ outer.test \in SUBSET I
    BY <2>1, <2>3
  <2> QED BY <1>1, <2>4, <2>5, EndedClean
<1> QED BY <1>3, <1>4, <1>5 DEF OuterSplits

-----------------------------------------------------------------------------
(* One step.                                                               *)

LEMMA StartTrainInv ==
  ASSUME MInv, NEW I \in Indexes, StartTrain(I)
  PROVE  MInv'
<1>1. Labels(t1', I, NBars) /\ DOMAIN t1' = I
  BY SpansLabel DEF StartTrain
<1>2. judge' = Empty /\ bets' = {} /\ scores' = Empty /\ meta' = {}
  BY DEF StartTrain, MInv, IdleShape, Fresh
<1>3. DOMAIN judge' = {} /\ DOMAIN scores' = {}
  BY <1>2 DEF Empty
<1>4. rows' = I /\ test' = {} /\ primary' = I /\ pc' # "idle"
  BY DEF StartTrain
<1> QED
  BY <1>1, <1>2, <1>3, <1>4 DEF MInv, CallShape, PrimaryShape, MetaShape, IdleShape, Clean

LEMMA StartGateInv ==
  ASSUME MInv, NEW I \in Indexes, StartGate(I)
  PROVE  MInv'
<1>1. t1' \in Spans(I) /\ Labels(t1', I, NBars) /\ DOMAIN t1' = I
  BY SpansLabel DEF StartGate
<1>2. /\ judge' = Empty /\ bets' = {} /\ scores' = Empty /\ meta' = {}
      /\ primary' = {} /\ pc' # "idle"
  BY DEF StartGate, MInv, IdleShape, Fresh
<1>3. DOMAIN judge' = {} /\ DOMAIN scores' = {}
  BY <1>2 DEF Empty
<1>4. rows' \subseteq I /\ test' \subseteq I /\ Clean(rows, test)'
  <2>1. PICK outer \in OuterSplits(t1', I) : rows' = outer.train /\ test' = outer.test
    BY DEF StartGate, FitRows
  <2>2. /\ outer.train \subseteq I /\ outer.test \subseteq I
        /\ \A a \in outer.train, b \in outer.test : ~ Overlap(t1', a, b)
    BY <1>1, OuterClean
  <2> QED BY <2>1, <2>2 DEF Clean
<1> QED
  BY <1>1, <1>2, <1>3, <1>4 DEF MInv, CallShape, PrimaryShape, MetaShape, IdleShape

LEMMA BackInv == Back => MInv'
<1> SUFFICES ASSUME Back PROVE MInv'
  OBVIOUS
<1>1. Labels(t1, DOMAIN t1, NBars)'
  <2>1. DOMAIN t1' = {} /\ t1' \in [{} -> 0 .. NBars]
    BY DEF Back
  <2> QED BY <2>1 DEF Labels
<1>2. DOMAIN judge' = {} /\ DOMAIN scores' = {}
  BY DEF Back, Empty
<1> QED
  BY <1>1, <1>2 DEF Back, MInv, CallShape, PrimaryShape, MetaShape, IdleShape, Clean, Fresh

LEMMA PrimaryFoldInv ==
  ASSUME MInv, PrimaryFold
  PROVE  MInv'
<1> DEFINE g == Min(todo)
           split == OOFSplit(g)
<1>1. CASE Back
  BY <1>1, BackInv
<1>2. CASE ~ Back
  <2>1. /\ judge' = Set(judge, split.test, split.train)
        /\ \E acted \in SUBSET split.test : bets' = bets \cup acted
        /\ UNCHANGED <<pc, t1, rows, test, scores, meta, primary>>
    BY <1>2 DEF PrimaryFold
  <2>2. /\ split.train \subseteq rows /\ split.test \subseteq rows
        /\ \A a \in split.train, b \in split.test : ~ Overlap(t1, a, b)
    BY FoldClean DEF OOFSplit, MInv, CallShape
  <2>3. pc # "idle"
    BY DEF PrimaryFold
  <2> HIDE DEF split
  <2>4. DOMAIN judge' = (DOMAIN judge) \cup split.test
    BY <2>1 DEF Set
  <2>5. ASSUME NEW e \in DOMAIN judge'
        PROVE  judge'[e] \subseteq rows /\ \A a \in judge'[e] : ~ Overlap(t1, a, e)
    <3>1. judge'[e] = IF e \in split.test THEN split.train ELSE judge[e]
      BY <2>1, <2>4, <2>5 DEF Set
    <3> QED BY <2>2, <2>4, <2>5, <3>1 DEF MInv, PrimaryShape
  <2>6. bets \subseteq bets' /\ bets' \subseteq bets \cup split.test
    BY <2>1
  <2>7. PrimaryShape'
    BY <2>1, <2>2, <2>4, <2>5, <2>6 DEF MInv, PrimaryShape
  <2>8. MetaShape'
    BY <2>1, <2>6 DEF MInv, MetaShape
  <2> QED BY <2>1, <2>3, <2>7, <2>8 DEF MInv, CallShape, IdleShape, Clean
<1> QED BY <1>1, <1>2

LEMMA MetaFoldInv ==
  ASSUME MInv, MetaFold
  PROVE  MInv'
<1> DEFINE g == Min(todo)
           split == MetaSplit(g)
<1>1. /\ UNCHANGED <<pc, t1, rows, test, judge, bets, meta, primary>> /\ pc # "idle"
      /\ scores' = scores \/ scores' = Set(scores, split.test, split.train)
  BY DEF MetaFold
<1>2. bets \in SUBSET DOMAIN t1 /\ Labels(t1, DOMAIN t1, NBars)
  BY DEF MInv, CallShape, PrimaryShape
<1>3. /\ split.train \subseteq bets /\ split.test \subseteq bets
      /\ \A a \in split.train, b \in split.test : ~ Overlap(t1, a, b)
  BY <1>2, FoldClean DEF MetaSplit
<1> HIDE DEF split
<1>4. MetaShape'
  <2>1. CASE scores' = scores
    BY <1>1, <2>1 DEF MInv, MetaShape
  <2>2. CASE scores' = Set(scores, split.test, split.train)
    <3>1. DOMAIN scores' = (DOMAIN scores) \cup split.test
      BY <2>2 DEF Set
    <3>2. ASSUME NEW e \in DOMAIN scores'
          PROVE  scores'[e] \subseteq bets /\ \A a \in scores'[e] : ~ Overlap(t1, a, e)
      <4>1. scores'[e] = IF e \in split.test THEN split.train ELSE scores[e]
        BY <2>2, <3>1, <3>2 DEF Set
      <4> QED BY <1>3, <3>1, <3>2, <4>1 DEF MInv, MetaShape
    <3> QED BY <1>1, <1>3, <3>1, <3>2 DEF MInv, MetaShape
  <2> QED BY <1>1, <2>1, <2>2
<1> QED BY <1>1, <1>4 DEF MInv, CallShape, PrimaryShape, IdleShape, Clean

(* The steps between the folds make no model from anything new. *)
LEMMA OtherStepsInv ==
  ASSUME MInv, BuildFeatures \/ Calibrate \/ Tune \/ RefitPrimary \/ UNCHANGED vars
  PROVE  MInv'
<1> USE DEF MInv, CallShape, PrimaryShape, MetaShape, IdleShape, Clean, Fresh
<1>1. CASE BuildFeatures
  BY <1>1 DEF BuildFeatures
<1>2. CASE Calibrate
  BY <1>2 DEF Calibrate
<1>3. CASE Tune
  BY <1>3, BackInv DEF Tune
<1>4. CASE RefitPrimary
  BY <1>4 DEF RefitPrimary
<1>5. CASE UNCHANGED vars
  BY <1>5 DEF vars
<1> QED BY <1>1, <1>2, <1>3, <1>4, <1>5

LEMMA StepKeepsMInv == MInv /\ [Next]_vars => MInv'
<1> SUFFICES ASSUME MInv, [Next]_vars PROVE MInv'
  OBVIOUS
<1>1. CASE \E I \in Indexes : StartTrain(I) \/ StartGate(I)
  BY <1>1, StartTrainInv, StartGateInv
<1>2. CASE PrimaryFold
  BY <1>2, PrimaryFoldInv
<1>3. CASE MetaFold
  BY <1>3, MetaFoldInv
<1>4. CASE Return
  BY <1>4, BackInv DEF Return
<1>5. CASE BuildFeatures \/ Calibrate \/ Tune \/ RefitPrimary \/ UNCHANGED vars
  BY <1>5, OtherStepsInv
<1> QED BY <1>1, <1>2, <1>3, <1>4, <1>5 DEF Next

LEMMA MInvariant == Spec => []MInv
<1>1. Init => MInv
  BY BlankInv DEF Init
<1> QED BY <1>1, StepKeepsMInv, PTL DEF Spec

-----------------------------------------------------------------------------
(* The theorems.                                                           *)

(* The sides the meta labels are made from come from primaries that saw no *)
(* label overlapping the event's (_oof_primary).                           *)
THEOREM BetsJudgedOutOfFold == Spec => []JudgedOutOfFold
<1>1. MInv => JudgedOutOfFold
  BY DEF MInv, PrimaryShape, JudgedOutOfFold, Sees
<1> QED BY <1>1, MInvariant, PTL

(* The calibrator is fitted on scores of bases that saw no label           *)
(* overlapping the bet's (MetaLabelModel.fit).                             *)
THEOREM ScoresOutOfFold == Spec => []CalibratedOutOfFold
<1>1. MInv => CalibratedOutOfFold
  BY DEF MInv, MetaShape, CalibratedOutOfFold, Sees
<1> QED BY <1>1, MInvariant, PTL

(* Nothing fitted inside a fold of run_validation has seen a label that    *)
(* overlaps one of the fold's test labels (MetaGatedPrimary.fit).          *)
THEOREM NestedFitsUnseen == Spec => []OuterUnseen
<1>1. ASSUME MInv, NEW e \in test, NEW S, S \subseteq rows PROVE ~ Sees(S, e)
  BY <1>1 DEF MInv, CallShape, Clean, Sees
<1>2. ASSUME MInv PROVE OuterUnseen
  <2>1. bets \subseteq rows /\ meta \subseteq rows /\ primary \subseteq rows
    BY <1>2 DEF MInv, PrimaryShape, MetaShape
  <2>2. \A f \in DOMAIN judge : judge[f] \cup {f} \subseteq rows
    BY <1>2 DEF MInv, PrimaryShape
  <2>3. \A f \in DOMAIN scores : scores[f] \cup {f} \subseteq rows
    BY <1>2, <2>1 DEF MInv, MetaShape
  <2> QED BY <1>1, <1>2, <2>1, <2>2, <2>3 DEF OuterUnseen
<1> QED BY <1>2, MInvariant, PTL
=============================================================================
