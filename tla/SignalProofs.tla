---------------------------- MODULE SignalProofs ----------------------------
(***************************************************************************)
(* The monitor's hooks, the ensemble's decision, the inference in the      *)
(* hidden Markov model and the isotonic fit, for every positive HMM,       *)
(* mapping of its states, set of members, weights, thresholds, answers and *)
(* number of rows and bets.                                                *)
(***************************************************************************)
EXTENDS Signal, DataProofs

-----------------------------------------------------------------------------
(* The monitor.                                                            *)

(* The peak is the greatest equity of those given, and the last call was   *)
(* judged against it; the regime believed is the one read last.            *)
PeakIs(top, equities) ==
  IF equities = {} THEN top = NaN ELSE top \in equities /\ \A e \in equities : e <= top

MonitorOK ==
  /\ shown \subseteq Equities /\ PeakIs(peak, shown)
  /\ shown # {} => /\ breach.equity \in Equities
                   /\ breach.breached = DrawdownReached(peak, breach.equity)
  /\ reading # NaN => last_regime = reading
  /\ last_regime # NaN => believed = last_regime
  /\ ShockOverride /\ reading # NaN /\ AtLeast(rows[Len(rows)].atr, ShockAtr) => reading = "shock"

(* A drawdown from some equity is one from the highest of them. *)
LEMMA FromPeak ==
  ASSUME NEW equities \in SUBSET Equities, equities # {},
         NEW top, PeakIs(top, equities), NEW equity \in Equities
  PROVE  DrawdownReached(top, equity) <=> \E e \in equities : DrawdownReached(e, equity)
<1>1. top \in equities /\ \A e \in equities : e <= top
  BY DEF PeakIs
<1>2. ASSUME NEW e \in equities, DrawdownReached(e, equity) PROVE DrawdownReached(top, equity)
  <2>1. e \in Int /\ top \in Int /\ equity \in Int /\ e <= top
    BY <1>1, SignalAssumption
  <2>2. e > 0 /\ (e - equity) * 100 >= DrawdownAlert * e
    BY <1>2 DEF DrawdownReached
  <2>3. DrawdownAlert * (top - e) <= 100 * (top - e)
    <3>1. DrawdownAlert \in Int /\ DrawdownAlert <= 100 /\ top - e \in Nat
      BY <2>1, SignalAssumption
    <3> QED BY <3>1, TimesMonotone
  <2>4. DrawdownAlert * (top - e) = DrawdownAlert * top - DrawdownAlert * e
        /\ DrawdownAlert * top \in Int /\ DrawdownAlert * e \in Int
    BY <2>1, SignalAssumption
  <2> DEFINE x == DrawdownAlert * top
             y == DrawdownAlert * e
  <2>5. x - y <= 100 * (top - e) /\ x \in Int /\ y \in Int /\ (e - equity) * 100 >= y
    BY <2>2, <2>3, <2>4
  <2> HIDE DEF x, y
  <2>6. top > 0 /\ (top - equity) * 100 >= x
    BY <2>1, <2>2, <2>5
  <2> QED BY <2>6 DEF x, DrawdownReached
<1> QED BY <1>1, <1>2

(* A new equity makes the peak the greatest of one more. *)
LEMMA PeakGrows ==
  ASSUME NEW equities \in SUBSET Equities, NEW top, PeakIs(top, equities), NEW equity \in Equities
  PROVE  PeakIs(Higher(top, equity), equities \cup {equity})
<1>1. CASE equities = {}
  <2>1. equity <= equity
    BY SignalAssumption
  <2> QED BY <1>1, <2>1 DEF PeakIs, Higher
<1>2. CASE equities # {}
  <2>1. top \in equities /\ \A e \in equities : e <= top
    BY <1>2 DEF PeakIs
  <2>2. top # NaN /\ top \in Int /\ equity \in Int
    BY <2>1, SignalAssumption
  <2>3. Max({top, equity}) = IF equity <= top THEN top ELSE equity
    BY <2>2 DEF Max
  <2>4. \A e \in equities \cup {equity} : e \in Int
    BY SignalAssumption
  <2> QED BY <2>1, <2>2, <2>3, <2>4 DEF PeakIs, Higher
<1> QED BY <1>1, <1>2

LEMMA MonitorStep == MonitorOK /\ [Next]_vars => MonitorOK'
<1> SUFFICES ASSUME MonitorOK, [Next]_vars PROVE MonitorOK'
  OBVIOUS
<1> USE DEF training, market, monitor
<1>1. ASSUME UNCHANGED <<rows, reading, monitor>> PROVE MonitorOK'
  BY <1>1 DEF MonitorOK, PeakIs, DrawdownReached, AtLeast
<1>2. ASSUME UNCHANGED monitor, reading' = NaN PROVE MonitorOK'
  BY <1>2 DEF MonitorOK, PeakIs, DrawdownReached, AtLeast
<1>3. CASE ReadRegime
  <2>1. UNCHANGED <<shown, peak, breach, rows>>
    BY <1>3 DEF ReadRegime
  <2>2. last_regime' = reading' /\ believed' = reading'
    BY <1>3 DEF ReadRegime, Flipped, MonitorOK
  <2>3. ShockOverride /\ AtLeast(rows[Len(rows)].atr, ShockAtr) => reading' = "shock"
    BY <1>3 DEF ReadRegime, Label
  <2> QED BY <2>1, <2>2, <2>3 DEF MonitorOK, PeakIs, DrawdownReached, AtLeast
<1>4. ASSUME NEW e \in Equities, UpdateEquity(e) PROVE MonitorOK'
  <2>1. UNCHANGED <<rows, reading, last_regime, believed>>
    BY <1>4 DEF UpdateEquity
  <2>2. /\ peak' = Higher(peak, e) /\ shown' = shown \cup {e}
        /\ breach' = [equity |-> e, breached |-> DrawdownReached(peak', e)]
    BY <1>4 DEF UpdateEquity, NewPeak
  <2>3. PeakIs(peak', shown') /\ shown' \subseteq Equities
    BY <2>2, PeakGrows DEF MonitorOK
  <2> QED BY <2>1, <2>2, <2>3 DEF MonitorOK, AtLeast, PeakIs, DrawdownReached
<1>5. CASE Restart
  BY <1>5 DEF Restart, MonitorOK, PeakIs
<1>6. CASE TrainTrust \/ FitGated
  BY <1>1, <1>6 DEF TrainTrust, FitGated
<1>7. ASSUME NEW b \in Bets, CollectBet(b) PROVE MonitorOK'
  BY <1>1, <1>7 DEF CollectBet
<1>8. ASSUME NEW t \in TrainingSets, FitRegimes(t) PROVE MonitorOK'
  BY <1>1, <1>8 DEF FitRegimes
<1>9. ASSUME NEW r \in Rows, NewRow(r) PROVE MonitorOK'
  BY <1>2, <1>9 DEF NewRow
<1>10. ASSUME NEW outputs \in [Members -> Outputs], NEW raw \in RawScores, Decide(outputs, raw)
       PROVE  MonitorOK'
  BY <1>1, <1>10 DEF Decide
<1>11. CASE UNCHANGED vars
  BY <1>1, <1>11 DEF vars
<1> QED BY <1>3, <1>4, <1>5, <1>6, <1>7, <1>8, <1>9, <1>10, <1>11 DEF Next

(* Whoever follows the alerts knows the regime of the last reading, a      *)
(* shock of the rule gate is read as one unless the override is off, and   *)
(* the drawdown alerts are those from the highest equity since the start,  *)
(* for every HMM, every mapping of its states and every sequence of        *)
(* equities and restarts.                                                  *)
THEOREM MonitorIsRight == Spec => []MonitorTells
<1>1. Init => MonitorOK
  BY DEF Init, FreshMonitor, MonitorOK, PeakIs
<1>2. MonitorOK => MonitorTells
  <2> SUFFICES ASSUME MonitorOK PROVE MonitorTells
    OBVIOUS
  <2>1. reading # NaN /\ last_regime # NaN => believed = reading
    BY DEF MonitorOK
  <2>2. ShockOverride /\ reading # NaN /\ RuleGate(Last(rows)) = "shock" => reading = "shock"
    BY DEF MonitorOK, RuleGate, Last
  <2>3. shown # {} => (breach.breached <=> \E e \in shown : DrawdownReached(e, breach.equity))
    BY FromPeak DEF MonitorOK
  <2>4. ASSUME NEW e \in Equities
        PROVE  DrawdownReached(Higher(peak, e), e)
                 <=> \E f \in shown \cup {e} : DrawdownReached(f, e)
    <3>1. PeakIs(Higher(peak, e), shown \cup {e}) /\ shown \cup {e} \in SUBSET Equities
      BY PeakGrows DEF MonitorOK
    <3> QED BY <3>1, FromPeak
  <2> QED BY <2>1, <2>2, <2>3, <2>4 DEF MonitorTells
<1> QED BY <1>1, <1>2, MonitorStep, PTL DEF Spec

-----------------------------------------------------------------------------
(* The ensemble.                                                           *)

Weights == [Members -> Nat]
Answers == [Members -> [Classes -> Nat]]

(* How far a blend leans to side s rather than to the other one. *)
Lean(b, s) == b[s] - b[-s]
Mass(b) == b[-1] + b[0] + b[1]

LEMMA WeightsAre ==
  ASSUME NEW w, \A m \in DOMAIN w : w[m] \in Int
  PROVE  /\ Normalize(w) \in Weights
         /\ Members # {} => \E m \in Members : Normalize(w)[m] > 0
<1> DEFINE vec == [m \in Members |-> IF m \in DOMAIN w THEN Max({0, w[m]}) ELSE 0]
<1>1. \A x \in Int : Max({0, x}) \in Nat
  BY DEF Max
<1>2. vec \in Weights
  BY <1>1 DEF Weights
<1>3. CASE \A m \in Members : vec[m] = 0
  <2>1. Normalize(w) = [m \in Members |-> 1]
    BY <1>3 DEF Normalize
  <2> QED BY <2>1 DEF Weights
<1>4. CASE \E m \in Members : vec[m] # 0
  <2>1. Normalize(w) = vec
    BY <1>4 DEF Normalize
  <2> HIDE DEF vec
  <2>2. PICK m \in Members : vec[m] # 0
    BY <1>4
  <2>3. vec[m] > 0
    BY <1>2, <2>2 DEF Weights
  <2> QED BY <1>2, <2>1, <2>3
<1> QED BY <1>3, <1>4

(* The columns are put where they belong. *)
LEMMA AlignedIs ==
  ASSUME NEW output \in Outputs
  PROVE  Align(output) = Given(output) /\ Align(output) \in [Classes -> Nat]
<1> DEFINE classes == output.classes
           proba == output.proba
           D == DOMAIN classes
           at(c) == {j \in D : classes[j] = c}
<1>1. /\ D = 1 .. Len(classes) /\ Len(classes) \in Nat
      /\ \A j \in D : proba[j] \in Nat
      /\ \A i, j \in D : classes[i] = classes[j] => i = j
  BY OutputsAssumption
<1> HIDE DEF classes, proba, D
<1>2. ASSUME NEW c \in Classes
      PROVE  /\ (IF at(c) = {} THEN 0 ELSE proba[Max(at(c))]) = SumFunctionOnSet(proba, at(c))
             /\ (IF at(c) = {} THEN 0 ELSE proba[Max(at(c))]) \in Nat
  <2>1. CASE at(c) = {}
    BY <2>1, SumEmpty
  <2>2. CASE at(c) # {}
    <3>1. PICK j \in D : at(c) = {j}
      BY <1>1, <2>2
    <3>2. proba[j] \in Nat /\ j \in Int
      BY <1>1
    <3>3. Max({j}) = j
      BY <3>2 DEF Max
    <3>4. SumFunctionOnSet(proba, {j}) = proba[j] * Cardinality({j})
      <4>1. IsFiniteSet({j}) /\ proba[j] \in Int /\ \A x \in {j} : proba[x] = proba[j]
        BY <3>2, FS_Singleton
      <4> QED BY <4>1, SumConstant
    <3>5. SumFunctionOnSet(proba, {j}) = proba[j]
      <4>1. Cardinality({j}) = 1
        BY FS_Singleton
      <4>2. \A x \in Nat : x * 1 = x
        OBVIOUS
      <4> QED BY <3>2, <3>4, <4>1, <4>2
    <3> HIDE DEF at
    <3> QED BY <2>2, <3>1, <3>2, <3>3, <3>5
  <2> QED BY <2>1, <2>2
<1>3. Align(output) = [c \in Classes |-> IF at(c) = {} THEN 0 ELSE proba[Max(at(c))]]
  BY DEF Align, classes, proba, D
<1>4. Given(output) = [c \in Classes |-> SumFunctionOnSet(proba, at(c))]
  BY DEF Given, classes, proba, D
<1> HIDE DEF at
<1> QED BY <1>2, <1>3, <1>4

LEMMA AnswersAre ==
  ASSUME NEW m, NEW output \in Outputs, NEW n
  PROVE  /\ Answer(m, output, n) \in [Classes -> Nat]
         /\ Side(Answer(m, output, n)) = OwnSide(m, output, n)
         /\ \A s \in {-1, 1} : Lean(Answer(m, output, n), s) > 0 => LeansTo(m, output, n, s)
<1>1. /\ Neutral \in [Classes -> Nat] /\ Neutral[1] = Neutral[-1]
      /\ Neutral[1] \in Int /\ Neutral[-1] \in Int
  BY DecisionAssumption DEF Neutral, Classes
<1>2. CASE Waits(m, n)
  <2>1. Answer(m, output, n) = Neutral
    BY <1>2 DEF Answer
  <2>2. Side(Neutral) = 0
    BY <1>1 DEF Side
  <2>3. \A s \in {-1, 1} : ~ (Lean(Neutral, s) > 0)
    BY <1>1 DEF Lean
  <2> QED BY <1>1, <1>2, <2>1, <2>2, <2>3 DEF OwnSide
<1>3. CASE ~ Waits(m, n)
  <2>1. /\ Answer(m, output, n) = Given(output)
        /\ Given(output) \in [Classes -> Nat]
    BY <1>3, AlignedIs DEF Answer
  <2>2. Given(output)[1] \in Nat /\ Given(output)[-1] \in Nat
    BY <2>1 DEF Classes
  <2>3. ASSUME NEW s \in {-1, 1}, Lean(Given(output), s) > 0 PROVE LeansTo(m, output, n, s)
    <3>1. CASE s = 1
      BY <1>3, <2>2, <2>3, <3>1 DEF Lean, LeansTo
    <3>2. CASE s = -1
      BY <1>3, <2>2, <2>3, <3>2 DEF Lean, LeansTo
    <3> QED BY <3>1, <3>2
  <2> QED BY <1>3, <2>1, <2>3 DEF OwnSide
<1> QED BY <1>2, <1>3

(* What side a row of nonnegative numbers gives. *)
LEMMA SideIs ==
  ASSUME NEW b \in [Classes -> Nat], NEW s \in {-1, 1}
  PROVE  Side(b) = s <=> Lean(b, s) > 0 /\ Lean(b, s) * 100 >= FlatThreshold * Mass(b)
<1>1. b[-1] \in Nat /\ b[0] \in Nat /\ b[1] \in Nat
  BY DEF Classes
<1> DEFINE mass == Mass(b)
           margin == b[1] - b[-1]
           size == IF margin < 0 THEN -margin ELSE margin
<1>2. mass \in Nat /\ margin \in Int /\ (mass = 0 => margin = 0)
  <2> DEFINE p == b[-1]
             q == b[0]
             r == b[1]
  <2>1. p \in Nat /\ q \in Nat /\ r \in Nat
    BY <1>1
  <2> HIDE DEF p, q, r
  <2>2. p + q + r \in Nat /\ r - p \in Int /\ (p + q + r = 0 => r - p = 0)
    BY <2>1
  <2> QED BY <2>2, Zenon DEF Mass, p, q, r
<1>3. Lean(b, s) = IF s = 1 THEN margin ELSE -margin
  BY <1>1 DEF Lean
<1>4. Side(b) = IF margin = 0 \/ size * 100 < FlatThreshold * (IF mass = 0 THEN 1 ELSE mass) THEN 0
                ELSE IF margin > 0 THEN 1 ELSE -1
  BY DEF Side, Mass
<1>5. mass # 0 => Side(b) = IF margin = 0 \/ size * 100 < FlatThreshold * mass THEN 0
                            ELSE IF margin > 0 THEN 1 ELSE -1
  BY <1>4
<1>6. mass = 0 => Side(b) = 0
  BY <1>2, <1>4
<1>7. FlatThreshold * mass \in Int
  BY <1>2, DecisionAssumption
<1> DEFINE floor == FlatThreshold * mass
<1> HIDE DEF mass, margin, floor
<1>8. CASE mass = 0
  BY <1>2, <1>3, <1>6, <1>8
<1>9. CASE mass # 0
  <2>1. Side(b) = IF margin = 0 \/ size * 100 < floor THEN 0 ELSE IF margin > 0 THEN 1 ELSE -1
    BY <1>5, <1>9 DEF floor
  <2>2. Side(b) = s <=> Lean(b, s) > 0 /\ Lean(b, s) * 100 >= floor
    BY <1>2, <1>3, <1>7, <2>1 DEF floor
  <2> QED BY <2>2 DEF floor, mass
<1> QED BY <1>8, <1>9

(* The weighted sum of a number per member. *)
Weighted(weights, f) == [m \in Members |-> weights[m] * f[m]]
SumUp(f) == SumFunctionOnSet(f, Members)

Leans(answers, s) == [m \in Members |-> Lean(answers[m], s)]
Masses(answers) == [m \in Members |-> Mass(answers[m])]

LEMMA BlendIs ==
  ASSUME NEW weights \in Weights, NEW answers \in Answers
  PROVE  /\ Blend(weights, answers) \in [Classes -> Nat]
         /\ \A s \in {-1, 1} :
              Lean(Blend(weights, answers), s) = SumUp(Weighted(weights, Leans(answers, s)))
         /\ Mass(Blend(weights, answers)) = SumUp(Weighted(weights, Masses(answers)))
<1> DEFINE part(c) == [m \in Members |-> weights[m] * answers[m][c]]
           blend == Blend(weights, answers)
<1>1. \A c \in Classes : \A m \in Members :
        answers[m][c] \in Nat /\ weights[m] \in Nat /\ part(c)[m] = weights[m] * answers[m][c]
  BY DEF Weights, Answers
<1>2. \A c \in Classes : \A m \in Members : part(c)[m] \in Nat
  BY <1>1
<1>3. \A c \in Classes : blend[c] = SumUp(part(c))
  BY Zenon DEF Blend, SumFunction, SumUp
<1>4. \A c \in Classes : SumUp(part(c)) \in Nat
  <2> SUFFICES ASSUME NEW c \in Classes PROVE SumUp(part(c)) \in Nat
    OBVIOUS
  <2> DEFINE p == part(c)
  <2>1. \A m \in Members : p[m] \in Nat
    BY <1>2
  <2> HIDE DEF p
  <2>2. SumUp(p) \in Nat
    BY <2>1, SumPositive, DecisionAssumption DEF SumUp
  <2> QED BY <2>2 DEF p
<1>5. blend \in [Classes -> Nat]
  <2>1. blend = [c \in Classes |-> blend[c]]
    BY DEF Blend
  <2> HIDE DEF blend, part
  <2> QED BY <1>3, <1>4, <2>1
<1>6. ASSUME NEW s \in {-1, 1}
      PROVE  Lean(blend, s) = SumUp(Weighted(weights, Leans(answers, s)))
  <2> DEFINE x == part(s)
             y == part(-s)
             d == Weighted(weights, Leans(answers, s))
  <2>1. s \in Classes /\ -s \in Classes
    BY DEF Classes
  <2>2. ASSUME NEW m \in Members PROVE x[m] \in Int /\ y[m] \in Int /\ d[m] \in Int /\ x[m] = y[m] + d[m]
    <3>1. weights[m] \in Nat /\ answers[m][s] \in Nat /\ answers[m][-s] \in Nat
      BY <1>1, <2>1
    <3>2. d[m] = weights[m] * (answers[m][s] - answers[m][-s])
      BY DEF Weighted, Leans, Lean
    <3>3. x[m] = weights[m] * answers[m][s] /\ y[m] = weights[m] * answers[m][-s]
      OBVIOUS
    <3>4. \A w, p, q \in Nat : /\ w * p \in Int /\ w * q \in Int /\ w * (p - q) \in Int
                              /\ w * p = w * q + w * (p - q)
      OBVIOUS
    <3> HIDE DEF x, y, d
    <3> QED BY <3>1, <3>2, <3>3, <3>4
  <2>3. blend[s] = SumUp(x) /\ blend[-s] = SumUp(y)
    BY <1>3, <2>1
  <2>4. SumUp(y) \in Int
    BY <1>4, <2>1
  <2> HIDE DEF x, y, d, blend
  <2>5. SumUp(x) = SumUp(y) + SumUp(d)
    BY <2>2, SumPlus, DecisionAssumption DEF SumUp
  <2>6. SumUp(d) \in Int
    BY <2>2, SumInt, DecisionAssumption DEF SumUp
  <2>7. Lean(blend, s) = SumUp(d)
    BY <2>3, <2>4, <2>5, <2>6 DEF Lean
  <2> QED BY <2>7 DEF d
<1>7. Mass(blend) = SumUp(Weighted(weights, Masses(answers)))
  <2> DEFINE x == part(-1)
             y == part(0)
             z == part(1)
             xy == [m \in Members |-> x[m] + y[m]]
             d == Weighted(weights, Masses(answers))
  <2>1. -1 \in Classes /\ 0 \in Classes /\ 1 \in Classes
    BY DEF Classes
  <2>2. ASSUME NEW m \in Members
        PROVE  /\ x[m] \in Int /\ y[m] \in Int /\ z[m] \in Int /\ xy[m] \in Int
               /\ xy[m] = x[m] + y[m] /\ d[m] = xy[m] + z[m]
    <3>1. weights[m] \in Nat /\ answers[m][-1] \in Nat /\ answers[m][0] \in Nat /\ answers[m][1] \in Nat
      BY <1>1, <2>1
    <3>2. d[m] = weights[m] * (answers[m][-1] + answers[m][0] + answers[m][1])
      BY DEF Weighted, Masses, Mass
    <3>3. /\ x[m] = weights[m] * answers[m][-1] /\ y[m] = weights[m] * answers[m][0]
          /\ z[m] = weights[m] * answers[m][1]
      OBVIOUS
    <3>4. \A w, p, q, r \in Nat : /\ w * p \in Int /\ w * q \in Int /\ w * r \in Int
                                 /\ w * (p + q + r) = (w * p + w * q) + w * r
      OBVIOUS
    <3>5. xy[m] = x[m] + y[m]
      OBVIOUS
    <3> HIDE DEF x, y, z, d, xy
    <3> QED BY <3>1, <3>2, <3>3, <3>4, <3>5
  <2>3. blend[-1] = SumUp(x) /\ blend[0] = SumUp(y) /\ blend[1] = SumUp(z)
    BY <1>3, <2>1
  <2> HIDE DEF x, y, z, xy, d, blend
  <2>4. SumUp(xy) = SumUp(x) + SumUp(y)
    BY <2>2, SumPlus, DecisionAssumption DEF SumUp
  <2>5. SumUp(d) = SumUp(xy) + SumUp(z)
    <3>1. \A m \in Members : xy[m] \in Int /\ z[m] \in Int /\ d[m] = xy[m] + z[m]
      BY <2>2
    <3> QED BY <3>1, SumPlus, DecisionAssumption DEF SumUp
  <2>6. Mass(blend) = SumUp(d)
    BY <2>3, <2>4, <2>5 DEF Mass
  <2> QED BY <2>6 DEF d
<1> QED BY <1>5, <1>6, <1>7

(* When every member would bet one way, so does the blend. *)
LEMMA AllAgree ==
  ASSUME NEW weights \in Weights, NEW answers \in Answers, NEW s \in {-1, 1},
         \A m \in Members : Side(answers[m]) = s, \E m \in Members : weights[m] > 0
  PROVE  Side(Blend(weights, answers)) = s
<1> DEFINE leans == Leans(answers, s)
           masses == Masses(answers)
           d == Weighted(weights, leans)
           e == Weighted(weights, masses)
           hundred == [m \in Members |-> 100 * d[m]]
           flat == [m \in Members |-> FlatThreshold * e[m]]
<1>1. ASSUME NEW m \in Members
      PROVE  /\ weights[m] \in Nat /\ leans[m] \in Nat /\ leans[m] > 0 /\ masses[m] \in Nat
             /\ FlatThreshold * masses[m] <= 100 * leans[m]
  <2>1. answers[m] \in [Classes -> Nat] /\ weights[m] \in Nat
    BY DEF Answers, Weights
  <2>2. Lean(answers[m], s) > 0 /\ Lean(answers[m], s) * 100 >= FlatThreshold * Mass(answers[m])
    BY <2>1, SideIs
  <2>3. Lean(answers[m], s) \in Int /\ Mass(answers[m]) \in Nat
    BY <2>1 DEF Lean, Mass, Classes
  <2>4. leans[m] = Lean(answers[m], s) /\ masses[m] = Mass(answers[m])
    BY DEF Leans, Masses
  <2>5. FlatThreshold * masses[m] \in Int
    BY <2>3, <2>4, DecisionAssumption
  <2> HIDE DEF leans, masses
  <2> QED BY <2>1, <2>2, <2>3, <2>4, <2>5
<1>2. ASSUME NEW m \in Members
      PROVE  /\ d[m] = weights[m] * leans[m] /\ e[m] = weights[m] * masses[m]
             /\ d[m] \in Nat /\ e[m] \in Nat
             /\ hundred[m] = 100 * d[m] /\ flat[m] = FlatThreshold * e[m]
             /\ hundred[m] \in Int /\ flat[m] \in Int
             /\ flat[m] <= hundred[m]
  <2>1. d[m] = weights[m] * leans[m] /\ e[m] = weights[m] * masses[m]
        /\ hundred[m] = 100 * d[m] /\ flat[m] = FlatThreshold * e[m]
    BY DEF Weighted
  <2> HIDE DEF leans, masses, d, e, hundred, flat
  <2> DEFINE w == weights[m]
             x == leans[m]
             y == masses[m]
  <2>2. w \in Nat /\ x \in Nat /\ y \in Nat /\ FlatThreshold \in Nat /\ FlatThreshold * y <= 100 * x
    BY <1>1, DecisionAssumption
  <2>3. FlatThreshold * y \in Int /\ 100 * x \in Int /\ w * x \in Nat /\ w * y \in Nat
    BY <2>2
  <2>4. (FlatThreshold * y) * w <= (100 * x) * w
    BY <2>2, <2>3, TimesMonotone
  <2>5. \A f, p, q, v \in Nat : /\ (f * q) * v = f * (v * q) /\ (100 * p) * v = 100 * (v * p)
                               /\ f * (v * q) \in Int /\ 100 * (v * p) \in Int
    OBVIOUS
  <2>6. /\ (FlatThreshold * y) * w = FlatThreshold * (w * y) /\ (100 * x) * w = 100 * (w * x)
        /\ FlatThreshold * (w * y) \in Int /\ 100 * (w * x) \in Int
    BY <2>2, <2>5
  <2> QED BY <2>1, <2>3, <2>4, <2>6
<1>3. /\ Blend(weights, answers) \in [Classes -> Nat]
      /\ Lean(Blend(weights, answers), s) = SumUp(d)
      /\ Mass(Blend(weights, answers)) = SumUp(e)
  BY BlendIs
<1> HIDE DEF d, e, hundred, flat, leans, masses
<1>4. SumUp(d) \in Nat /\ SumUp(d) > 0
  <2>1. SumUp(d) \in Nat /\ \A m \in Members : d[m] <= SumUp(d)
    BY <1>2, SumPositive, DecisionAssumption DEF SumUp
  <2>2. PICK m \in Members : weights[m] > 0
    OBVIOUS
  <2>3. d[m] > 0
    <3>1. \A p, q \in Nat : p > 0 /\ q > 0 => p * q > 0
      OBVIOUS
    <3> QED BY <1>1, <1>2, <2>2, <3>1
  <2>4. d[m] \in Nat /\ d[m] <= SumUp(d)
    BY <1>2, <2>1
  <2> QED BY <2>1, <2>3, <2>4
<1>5. SumUp(hundred) = 100 * SumUp(d)
  <2>1. IsFiniteSet(Members) /\ \A m \in Members : d[m] \in Int /\ hundred[m] = 100 * d[m]
    BY <1>2, DecisionAssumption
  <2> QED BY <2>1, SumTimes DEF SumUp
<1>6. SumUp(flat) = FlatThreshold * SumUp(e)
  <2>1. FlatThreshold \in Int /\ \A m \in Members : e[m] \in Int /\ flat[m] = FlatThreshold * e[m]
    BY <1>2, DecisionAssumption
  <2> QED BY <2>1, SumTimes, DecisionAssumption DEF SumUp
<1>7. SumUp(flat) <= SumUp(hundred)
  BY <1>2, SumMonotone, DecisionAssumption DEF SumUp
<1>8. SumUp(d) * 100 >= FlatThreshold * SumUp(e)
  <2>1. SumUp(flat) \in Int
    BY <1>2, SumInt, DecisionAssumption DEF SumUp
  <2> QED BY <1>4, <1>5, <1>6, <1>7, <2>1
<1> QED BY <1>3, <1>4, <1>8, SideIs

(* Where no member leans, the blend does not. *)
LEMMA NobodyLeans ==
  ASSUME NEW weights \in Weights, NEW answers \in Answers, NEW s \in {-1, 1},
         \A m \in Members : ~(Lean(answers[m], s) > 0)
  PROVE  Side(Blend(weights, answers)) # s
<1> DEFINE leans == Leans(answers, s)
           d == Weighted(weights, leans)
           zero == [m \in Members |-> 0]
<1>1. ASSUME NEW m \in Members
      PROVE  d[m] \in Int /\ zero[m] \in Int /\ d[m] <= zero[m] /\ zero[m] = 0
  <2>1. answers[m] \in [Classes -> Nat] /\ weights[m] \in Nat
    BY DEF Answers, Weights
  <2>2. Lean(answers[m], s) \in Int /\ Lean(answers[m], s) <= 0
    BY <2>1 DEF Lean, Classes
  <2>3. d[m] = weights[m] * Lean(answers[m], s) /\ zero[m] = 0
    BY DEF Weighted, Leans
  <2>4. \A w \in Nat : \A x \in Int : x <= 0 => w * x \in Int /\ w * x <= 0
    <3> SUFFICES ASSUME NEW w \in Nat, NEW x \in Int, x <= 0 PROVE w * x \in Int /\ w * x <= 0
      OBVIOUS
    <3>1. x * w <= 0 * w
      BY TimesMonotone
    <3> QED BY <3>1
  <2> HIDE DEF d, zero
  <2> QED BY <2>1, <2>2, <2>3, <2>4
<1>2. /\ Blend(weights, answers) \in [Classes -> Nat]
      /\ Lean(Blend(weights, answers), s) = SumUp(d)
  BY BlendIs
<1> HIDE DEF d, zero
<1>3. SumUp(d) <= SumUp(zero)
  BY <1>1, SumMonotone, DecisionAssumption DEF SumUp
<1>4. SumUp(zero) = 0 * Cardinality(Members) /\ Cardinality(Members) \in Nat
  <2>1. 0 \in Int /\ \A m \in Members : zero[m] = 0
    BY <1>1
  <2> QED BY <2>1, SumConstant, FS_CardinalityType, DecisionAssumption DEF SumUp
<1>5. SumUp(d) \in Int
  BY <1>1, SumInt, DecisionAssumption DEF SumUp
<1>6. ~(SumUp(d) > 0)
  BY <1>3, <1>4, <1>5
<1> QED BY <1>2, <1>6, SideIs

-----------------------------------------------------------------------------
(* A decision comes from nonnegative weights, not all zero, and from what  *)
(* each member answers.                                                    *)
DecidedFrom(weights) ==
  /\ weights \in Weights
  /\ Members # {} => \E m \in Members : weights[m] > 0
  /\ decision.outputs \in [Members -> Outputs]
  /\ decision.side =
       Side(Blend(weights, [m \in Members |-> Answer(m, decision.outputs[m], Len(rows))]))
  /\ decision.bet \in {0, decision.side}

DecisionOK ==
  /\ overrides \in OverrideChoices
  /\ decision # NaN => \E weights \in Weights : DecidedFrom(weights)

LEMMA RegimeWeightsAre ==
  ASSUME NEW o \in OverrideChoices, NEW regime
  PROVE  /\ RegimeWeights(o, regime) \in Weights
         /\ Members # {} => \E m \in Members : RegimeWeights(o, regime)[m] > 0
<1> DEFINE w == IF regime \in DOMAIN o /\ DOMAIN o[regime] # {} THEN o[regime] ELSE BaseWeights
<1>1. \A m \in DOMAIN w : w[m] \in Int
  BY SignalAssumption, DecisionAssumption
<1>2. RegimeWeights(o, regime) = Normalize(w)
  BY DEF RegimeWeights
<1> HIDE DEF w
<1> QED BY <1>1, <1>2, WeightsAre

LEMMA DecisionStep == DecisionOK /\ [Next]_vars => DecisionOK'
<1> SUFFICES ASSUME DecisionOK, [Next]_vars PROVE DecisionOK'
  OBVIOUS
<1> USE DEF training, market, monitor
<1>1. ASSUME UNCHANGED <<overrides, decision, rows>> PROVE DecisionOK'
  BY <1>1 DEF DecisionOK, DecidedFrom
<1>2. ASSUME UNCHANGED overrides, decision' = NaN PROVE DecisionOK'
  BY <1>2 DEF DecisionOK
<1>3. ASSUME NEW outputs \in [Members -> Outputs], NEW raw \in RawScores, Decide(outputs, raw)
      PROVE  DecisionOK'
  <2> DEFINE weights == IF reading = NaN THEN Normalize(BaseWeights)
                        ELSE RegimeWeights(overrides, reading)
             answers == [m \in Members |-> Answer(m, outputs[m], Len(rows))]
             side == Side(Blend(weights, answers))
  <2>1. /\ decision' = [outputs |-> outputs, side |-> side,
                        bet |-> Gated(side, trust_fitted, raw \in gate)]
        /\ overrides' = overrides /\ rows' = rows
    BY <1>3 DEF Decide
  <2>2. weights \in Weights /\ (Members # {} => \E m \in Members : weights[m] > 0)
    <3>1. \A m \in DOMAIN BaseWeights : BaseWeights[m] \in Int
      BY DecisionAssumption
    <3> QED BY <3>1, WeightsAre, RegimeWeightsAre DEF DecisionOK
  <2>3. Gated(side, trust_fitted, raw \in gate) \in {0, side}
    BY DEF Gated
  <2> HIDE DEF weights, answers
  <2>4. /\ decision'.outputs = outputs /\ decision'.side = Side(Blend(weights, answers))
        /\ decision'.bet \in {0, decision'.side}
    BY <2>1, <2>3
  <2>5. answers = [m \in Members |-> Answer(m, decision'.outputs[m], Len(rows'))]
    BY <2>1, <2>4 DEF answers
  <2> QED BY <2>1, <2>2, <2>4, <2>5 DEF DecisionOK, DecidedFrom
<1>4. CASE ReadRegime
  BY <1>1, <1>4 DEF ReadRegime
<1>5. ASSUME NEW e \in Equities, UpdateEquity(e) PROVE DecisionOK'
  BY <1>1, <1>5 DEF UpdateEquity
<1>6. CASE Restart
  BY <1>2, <1>6 DEF Restart
<1>7. CASE TrainTrust \/ FitGated
  BY <1>1, <1>7 DEF TrainTrust, FitGated
<1>8. ASSUME NEW b \in Bets, CollectBet(b) PROVE DecisionOK'
  BY <1>1, <1>8 DEF CollectBet
<1>9. ASSUME NEW t \in TrainingSets, FitRegimes(t) PROVE DecisionOK'
  BY <1>1, <1>9 DEF FitRegimes
<1>10. ASSUME NEW r \in Rows, NewRow(r) PROVE DecisionOK'
  BY <1>2, <1>10 DEF NewRow
<1>11. CASE UNCHANGED vars
  BY <1>1, <1>11 DEF vars
<1> QED BY <1>3, <1>4, <1>5, <1>6, <1>7, <1>8, <1>9, <1>10, <1>11 DEF Next

(* For every set of members, weights with any sign, overrides, thresholds  *)
(* and outputs over any classes: a unanimous ensemble bets as its members  *)
(* would by their own columns, and never a way that no member leans.       *)
THEOREM UnanimityIsKept == Spec => []UnanimityHolds
<1>1. Init => DecisionOK
  BY DEF Init, DecisionOK
<1>2. DecisionOK => UnanimityHolds
  <2> SUFFICES ASSUME DecisionOK, decision # NaN PROVE UnanimityHolds
    BY DEF UnanimityHolds
  <2> DEFINE n == Len(rows)
             outputs == decision.outputs
             answers == [m \in Members |-> Answer(m, outputs[m], n)]
             own == {OwnSide(m, outputs[m], n) : m \in Members}
  <2>1. PICK weights \in Weights : DecidedFrom(weights)
    BY DEF DecisionOK
  <2>2. /\ outputs \in [Members -> Outputs] /\ decision.side = Side(Blend(weights, answers))
        /\ Members # {} => \E m \in Members : weights[m] > 0
        /\ decision.bet \in {0, decision.side}
    BY <2>1 DEF DecidedFrom
  <2> HIDE DEF n, outputs
  <2>3. ASSUME NEW m \in Members
        PROVE  /\ answers[m] \in [Classes -> Nat] /\ Side(answers[m]) = OwnSide(m, outputs[m], n)
               /\ \A s \in {-1, 1} : Lean(answers[m], s) > 0 => LeansTo(m, outputs[m], n, s)
    <3>1. outputs[m] \in Outputs /\ answers[m] = Answer(m, outputs[m], n)
      BY <2>2
    <3> HIDE DEF answers
    <3> QED BY <3>1, AnswersAre
  <2>4. answers \in Answers
    <3>1. answers = [m \in Members |-> answers[m]]
      OBVIOUS
    <3> HIDE DEF answers
    <3> QED BY <2>3, <3>1 DEF Answers
  <2> HIDE DEF answers
  <2>5. ASSUME NEW s \in {-1, 1}, own = {s} PROVE decision.side = s
    <3>1. Members # {} /\ \A m \in Members : Side(answers[m]) = s
      BY <2>3, <2>5
    <3> QED BY <2>2, <2>4, <3>1, AllAgree
  <2>6. ASSUME decision.side # 0 PROVE \E m \in Members : LeansTo(m, outputs[m], n, decision.side)
    <3>1. decision.side \in {-1, 1}
      BY <2>2, <2>6 DEF Side
    <3>2. PICK m \in Members : Lean(answers[m], decision.side) > 0
      BY <2>2, <2>4, <3>1, NobodyLeans
    <3> QED BY <2>3, <3>1, <3>2
  <2> QED BY <2>2, <2>5, <2>6 DEF UnanimityHolds, n, outputs
<1> QED BY <1>1, <1>2, DecisionStep, PTL DEF Spec

-----------------------------------------------------------------------------
(* Inference in the hidden Markov model.                                   *)

Seen == {row \in Rows : Complete(row)}
Observed(obs) == obs \in Seq(Seen) /\ obs # <<>>

Em(obs, t, k) == Hmm.emit[k][obs[t]]

LEMMA TabulatedIs ==
  ASSUME NEW f PROVE Tabulated(f) = f
  BY DEF Tabulated

LEMMA ParametersAre ==
  ASSUME NEW obs, Observed(obs)
  PROVE  /\ Len(obs) \in Nat \ {0} /\ DOMAIN obs = 1 .. Len(obs)
         /\ IsFiniteSet(States) /\ 0 \in States
         /\ \A k \in States : Hmm.start[k] \in Nat \ {0}
         /\ \A j \in States, k \in States : Hmm.trans[j][k] \in Nat \ {0}
         /\ \A k \in States : \A t \in 1 .. Len(obs) : Em(obs, t, k) \in Nat \ {0}
<1>1. Len(obs) \in Nat \ {0} /\ DOMAIN obs = 1 .. Len(obs) /\ \A t \in 1 .. Len(obs) : obs[t] \in Seen
  BY DEF Observed
<1>2. NStates \in Nat \ {0}
  BY RegimesAssumption
<1>3. IsFiniteSet(States) /\ 0 \in States
  BY <1>2, FS_Interval DEF States
<1>4. \A k \in States : \A t \in 1 .. Len(obs) : Em(obs, t, k) \in Nat \ {0}
  BY <1>1, HmmAssumption DEF Seen, Em
<1> QED BY <1>1, <1>3, <1>4, HmmAssumption

ScoreRows == [States -> Nat]

(* What reaches state k from the row before. *)
Reaching(before, k) == SumFunctionOnSet([j \in States |-> before[j] * Hmm.trans[j][k]], States)

LEMMA ForwardRowIs ==
  ASSUME NEW obs, Observed(obs), NEW t \in 1 .. Len(obs), NEW before, t = 1 \/ before \in ScoreRows
  PROVE  /\ ForwardRow(Hmm, obs, t, before) \in ScoreRows
         /\ ForwardRow(Hmm, obs, t, before)
              = [k \in States |-> Em(obs, t, k) * (IF t = 1 THEN Hmm.start[k] ELSE Reaching(before, k))]
<1> DEFINE val(k) == Em(obs, t, k) * (IF t = 1 THEN Hmm.start[k] ELSE Reaching(before, k))
<1>1. ForwardRow(Hmm, obs, t, before) = [k \in States |-> val(k)]
  BY TabulatedIs, Zenon DEF ForwardRow, SumFunction, Reaching, Em
<1>2. ASSUME NEW k \in States PROVE val(k) \in Nat
  <2>1. Em(obs, t, k) \in Nat /\ Hmm.start[k] \in Nat
    BY ParametersAre
  <2>2. t # 1 => Reaching(before, k) \in Nat
    <3> SUFFICES ASSUME t # 1 PROVE Reaching(before, k) \in Nat
      OBVIOUS
    <3> DEFINE f == [j \in States |-> before[j] * Hmm.trans[j][k]]
    <3>1. IsFiniteSet(States)
      BY ParametersAre
    <3>2. \A j \in States : f[j] \in Nat
      <4> TAKE j \in States
      <4>1. before[j] \in Nat /\ Hmm.trans[j][k] \in Nat
        BY ParametersAre DEF ScoreRows
      <4> QED BY <4>1
    <3> HIDE DEF f
    <3>3. SumFunctionOnSet(f, States) \in Nat
      BY <3>1, <3>2, SumPositive
    <3> QED BY <3>3 DEF Reaching, f
  <2> QED BY <2>1, <2>2
<1> HIDE DEF val
<1>3. [k \in States |-> val(k)] \in ScoreRows
  BY <1>2 DEF ScoreRows
<1> QED BY <1>1, <1>3 DEF val

LEMMA ForwardIs ==
  ASSUME NEW obs, Observed(obs)
  PROVE  \A t \in 1 .. Len(obs) :
           /\ Forward(Hmm, obs)[t] \in ScoreRows
           /\ Forward(Hmm, obs)[t] = ForwardRow(Hmm, obs, t, Forward(Hmm, obs)[t - 1])
<1> DEFINE n == Len(obs)
           base == [k \in States |-> 0]
           step == [tv \in (1 .. n) \X ScoreRows |-> ForwardRow(Hmm, obs, tv[1], tv[2])]
           Eqn(a) == a = [t \in DOMAIN obs |-> ForwardRow(Hmm, obs, t, a[t - 1])]
           c == CHOOSE c : Eqn(c)
<1>1. n \in Nat \ {0} /\ DOMAIN obs = 1 .. n
  BY ParametersAre
<1>2. base \in ScoreRows
  BY DEF ScoreRows
<1>3. step \in [(1 .. n) \X ScoreRows -> ScoreRows]
  BY ForwardRowIs
<1> HIDE DEF base
<1>4. PICK a : Recurs(a, n, ScoreRows, base, step)
  <2> HIDE DEF step, n
  <2>1. n \in Nat
    BY <1>1
  <2> QED BY Zenon, <1>2, <1>3, <2>1, RecursionExists
<1>5. ASSUME NEW t \in 1 .. n PROVE a[t] = ForwardRow(Hmm, obs, t, a[t - 1])
  <2> DEFINE v == IF t = 1 THEN base ELSE a[t - 1]
  <2>1. v \in ScoreRows
    <3>1. t # 1 => t - 1 \in 1 .. n
      BY <1>1
    <3> QED BY <1>2, <1>4, <3>1 DEF Recurs
  <2>2. a[t] = ForwardRow(Hmm, obs, t, v)
    BY <1>4, <2>1 DEF Recurs
  <2>3. ForwardRow(Hmm, obs, t, v) = ForwardRow(Hmm, obs, t, a[t - 1])
    <3>1. CASE t = 1
      BY <3>1, ForwardRowIs
    <3>2. CASE t # 1
      BY <3>2
    <3> QED BY <3>1, <3>2
  <2> QED BY <2>2, <2>3
<1>6. Eqn(c)
  <2>1. a = [t \in 1 .. n |-> a[t]]
    BY <1>4 DEF Recurs
  <2>2. Eqn(a)
    BY <1>1, <1>5, <2>1
  <2> HIDE DEF Eqn
  <2> QED BY <2>2
<1>7. Forward(Hmm, obs) = c
  BY TabulatedIs, Zenon DEF Forward
<1> HIDE DEF c
<1>8. \A t \in 1 .. n : c[t] = ForwardRow(Hmm, obs, t, c[t - 1])
  BY <1>1, <1>6
<1> DEFINE Good == {t \in 1 .. n : c[t] \in ScoreRows}
<1>9. ASSUME NEW t \in 1 .. n, t = 1 \/ t - 1 \in Good PROVE t \in Good
  BY <1>8, <1>9, ForwardRowIs
<1>10. 1 .. n \subseteq Good
  <2> HIDE DEF Good, n
  <2> QED BY <1>1, <1>9, UpTheRange
<1> QED BY <1>7, <1>8, <1>10

(* What state j leads to in the row after. *)
Leading(obs, t, after, j) ==
  SumFunctionOnSet([k \in States |-> Hmm.trans[j][k] * Em(obs, t + 1, k) * after[k]], States)

LEMMA BackwardRowIs ==
  ASSUME NEW obs, Observed(obs), NEW t \in 1 .. Len(obs), NEW after,
         t = Len(obs) \/ after \in ScoreRows
  PROVE  /\ BackwardRow(Hmm, obs, t, after) \in ScoreRows
         /\ BackwardRow(Hmm, obs, t, after)
              = [j \in States |-> IF t = Len(obs) THEN 1 ELSE Leading(obs, t, after, j)]
<1> DEFINE val(j) == IF t = Len(obs) THEN 1 ELSE Leading(obs, t, after, j)
<1>1. BackwardRow(Hmm, obs, t, after) = [j \in States |-> val(j)]
  BY TabulatedIs, Zenon DEF BackwardRow, SumFunction, Leading, Em
<1>2. ASSUME NEW j \in States, t # Len(obs) PROVE Leading(obs, t, after, j) \in Nat
  <2> DEFINE f == [k \in States |-> Hmm.trans[j][k] * Em(obs, t + 1, k) * after[k]]
  <2>1. IsFiniteSet(States)
    BY ParametersAre
  <2>2. t + 1 \in 1 .. Len(obs)
    BY <1>2, ParametersAre
  <2>3. \A k \in States : f[k] \in Nat
    <3> TAKE k \in States
    <3>1. Hmm.trans[j][k] \in Nat /\ Em(obs, t + 1, k) \in Nat /\ after[k] \in Nat
      BY <1>2, <2>2, ParametersAre DEF ScoreRows
    <3> QED BY <3>1
  <2> HIDE DEF f
  <2>4. SumFunctionOnSet(f, States) \in Nat
    BY <2>1, <2>3, SumPositive
  <2> QED BY <2>4 DEF Leading, f
<1>3. \A j \in States : val(j) \in Nat
  BY <1>2
<1> HIDE DEF val
<1>4. [j \in States |-> val(j)] \in ScoreRows
  BY <1>3 DEF ScoreRows
<1> QED BY <1>1, <1>4 DEF val

LEMMA BackwardIs ==
  ASSUME NEW obs, Observed(obs)
  PROVE  \A t \in 1 .. Len(obs) :
           /\ Backward(Hmm, obs)[t] \in ScoreRows
           /\ Backward(Hmm, obs)[t] = BackwardRow(Hmm, obs, t, Backward(Hmm, obs)[t + 1])
<1> DEFINE n == Len(obs)
           base == [k \in States |-> 0]
           step == [tv \in (1 .. n) \X ScoreRows |-> BackwardRow(Hmm, obs, tv[1], tv[2])]
           Eqn(a) == a = [t \in DOMAIN obs |-> BackwardRow(Hmm, obs, t, a[t + 1])]
           c == CHOOSE c : Eqn(c)
<1>1. n \in Nat \ {0} /\ DOMAIN obs = 1 .. n
  BY ParametersAre
<1>2. base \in ScoreRows
  BY DEF ScoreRows
<1>3. step \in [(1 .. n) \X ScoreRows -> ScoreRows]
  BY BackwardRowIs
<1> HIDE DEF base
<1>4. PICK a : RecursDown(a, n, ScoreRows, base, step)
  <2> HIDE DEF step, n
  <2>1. n \in Nat
    BY <1>1
  <2> QED BY Zenon, <1>2, <1>3, <2>1, RecursionExistsDown
<1>5. ASSUME NEW t \in 1 .. n PROVE a[t] = BackwardRow(Hmm, obs, t, a[t + 1])
  <2> DEFINE v == IF t = n THEN base ELSE a[t + 1]
  <2>1. v \in ScoreRows
    <3>1. t # n => t + 1 \in 1 .. n
      <4> HIDE DEF n
      <4> QED BY <1>1
    <3> QED BY <1>2, <1>4, <3>1 DEF RecursDown
  <2>2. a[t] = BackwardRow(Hmm, obs, t, v)
    BY <1>4, <2>1 DEF RecursDown
  <2>3. BackwardRow(Hmm, obs, t, v) = BackwardRow(Hmm, obs, t, a[t + 1])
    <3>1. CASE t = n
      BY <3>1, BackwardRowIs
    <3>2. CASE t # n
      BY <3>2
    <3> QED BY <3>1, <3>2
  <2> QED BY <2>2, <2>3
<1>6. Eqn(c)
  <2>1. a = [t \in 1 .. n |-> a[t]]
    BY <1>4 DEF RecursDown
  <2>2. Eqn(a)
    BY <1>1, <1>5, <2>1
  <2> HIDE DEF Eqn
  <2> QED BY <2>2
<1>7. Backward(Hmm, obs) = c
  BY TabulatedIs, Zenon DEF Backward
<1> HIDE DEF c
<1>8. \A t \in 1 .. n : c[t] = BackwardRow(Hmm, obs, t, c[t + 1])
  BY <1>1, <1>6
<1> DEFINE Good == {t \in 1 .. n : c[t] \in ScoreRows}
<1>9. ASSUME NEW t \in 1 .. n, t = n \/ t + 1 \in Good PROVE t \in Good
  BY <1>8, <1>9, BackwardRowIs
<1>10. 1 .. n \subseteq Good
  <2> HIDE DEF Good, n
  <2> QED BY <1>1, <1>9, DownTheRange
<1> QED BY <1>7, <1>8, <1>10

(* The weight of a path's first t states. *)
Upto(obs, p, t) == PathWeights(obs, p)[t]

LEMMA PathWeightsIs ==
  ASSUME NEW obs, Observed(obs), NEW p \in Paths(Len(obs)), NEW t \in 1 .. Len(obs)
  PROVE  /\ Upto(obs, p, t) \in Nat \ {0}
         /\ Upto(obs, p, t) =
              Em(obs, t, p[t]) * (IF t = 1 THEN Hmm.start[p[1]]
                                  ELSE Upto(obs, p, t - 1) * Hmm.trans[p[t - 1]][p[t]])
<1> DEFINE n == Len(obs)
           Pos == Nat \ {0}
           Val(i, v) == Em(obs, i, p[i]) * (IF i = 1 THEN Hmm.start[p[1]]
                                            ELSE v * Hmm.trans[p[i - 1]][p[i]])
           step == [tv \in (1 .. n) \X Pos |-> Val(tv[1], tv[2])]
           Eqn(a) == a = [i \in DOMAIN obs |-> Val(i, a[i - 1])]
           c == CHOOSE c : Eqn(c)
<1>1. n \in Nat \ {0} /\ DOMAIN obs = 1 .. n
  BY ParametersAre
<1>2. ASSUME NEW i \in 1 .. n, NEW v, i = 1 \/ v \in Pos PROVE Val(i, v) \in Pos
  <2>1. p[i] \in States /\ p[1] \in States /\ (i # 1 => p[i - 1] \in States)
    BY <1>1 DEF Paths
  <2>2. Em(obs, i, p[i]) \in Pos /\ Hmm.start[p[1]] \in Pos
        /\ (i # 1 => Hmm.trans[p[i - 1]][p[i]] \in Pos)
    BY <2>1, ParametersAre
  <2> DEFINE e == Em(obs, i, p[i])
             s == Hmm.start[p[1]]
             a == Hmm.trans[p[i - 1]][p[i]]
  <2> HIDE DEF e, s, a
  <2>3. CASE i = 1
    <3>1. e * s \in Pos
      BY <2>2 DEF e, s
    <3> QED BY <2>3, <3>1 DEF e, s
  <2>4. CASE i # 1
    <3>1. e \in Pos /\ a \in Pos /\ v \in Pos
      BY <1>2, <2>2, <2>4 DEF e, a
    <3>2. v * a \in Pos
      BY <3>1
    <3>3. e * (v * a) \in Pos
      BY <3>1, <3>2
    <3> QED BY <2>4, <3>3 DEF e, a
  <2> QED BY <2>3, <2>4
<1>3. step \in [(1 .. n) \X Pos -> Pos]
  <2> HIDE DEF Val, Pos
  <2> QED BY <1>2
<1>4. PICK a : Recurs(a, n, Pos, 1, step)
  <2> HIDE DEF step
  <2>1. n \in Nat /\ 1 \in Pos
    BY <1>1
  <2> HIDE DEF n, Pos
  <2> QED BY Zenon, <1>3, <2>1, RecursionExists
<1>5. ASSUME NEW i \in 1 .. n PROVE a[i] = Val(i, a[i - 1])
  <2> DEFINE v == IF i = 1 THEN 1 ELSE a[i - 1]
  <2>1. v \in Pos
    <3>1. i # 1 => i - 1 \in 1 .. n
      BY <1>1
    <3> QED BY <1>4, <3>1 DEF Recurs
  <2>2. a[i] = Val(i, v)
    <3> HIDE DEF Val, Pos
    <3> QED BY <1>4, <2>1 DEF Recurs
  <2>3. Val(i, v) = Val(i, a[i - 1])
    BY <1>1
  <2> QED BY <2>2, <2>3
<1>6. Eqn(c)
  <2>1. a = [i \in 1 .. n |-> a[i]]
    BY <1>4 DEF Recurs
  <2>2. Eqn(a)
    <3> HIDE DEF Val
    <3> QED BY <1>1, <1>5, <2>1
  <2> HIDE DEF Eqn
  <2> QED BY <2>2
<1>7. PathWeights(obs, p) = c
  BY Zenon DEF PathWeights, Em
<1> HIDE DEF c
<1>8. \A i \in 1 .. n : c[i] = Val(i, c[i - 1])
  <2> HIDE DEF Val
  <2> QED BY <1>1, <1>6
<1> DEFINE Good == {i \in 1 .. n : c[i] \in Pos}
<1>9. ASSUME NEW i \in 1 .. n, i = 1 \/ i - 1 \in Good PROVE i \in Good
  <2> HIDE DEF Val, Pos
  <2> QED BY <1>2, <1>8, <1>9
<1>10. 1 .. n \subseteq Good
  <2> HIDE DEF Good, n
  <2> QED BY <1>1, <1>9, UpTheRange
<1>11. c[t] = Val(t, c[t - 1]) /\ c[t] \in Pos
  <2> HIDE DEF Val, Pos
  <2> QED BY <1>8, <1>10
<1> QED BY <1>7, <1>11 DEF Upto

(* What argmax finds among the states. *)
LEMMA ArgMaxIs ==
  ASSUME NEW row \in ScoreRows
  PROVE  ArgMax(row) \in States /\ \A j \in States : row[j] <= row[ArgMax(row)]
<1>1. NStates \in Nat \ {0} /\ States \subseteq Nat /\ 0 \in States /\ IsFiniteSet(States)
  BY RegimesAssumption, FS_Interval DEF States
<1> DEFINE Good == {T \in SUBSET States : T # {} => \E m \in T : \A j \in T : row[j] <= row[m]}
<1>2. {} \in Good
  OBVIOUS
<1>3. ASSUME NEW T \in SUBSET States, NEW y \in States \ T, T \in Good PROVE T \cup {y} \in Good
  <2>1. \A j \in States : row[j] \in Nat
    BY DEF ScoreRows
  <2>2. CASE T = {}
    BY <2>1, <2>2
  <2>3. CASE T # {}
    <3>1. PICK m \in T : \A j \in T : row[j] <= row[m]
      BY <1>3, <2>3
    <3>2. CASE row[y] <= row[m]
      BY <3>1, <3>2
    <3>3. CASE ~ (row[y] <= row[m])
      <4>1. \A j \in T \cup {y} : row[j] <= row[y]
        BY <2>1, <3>1, <3>3
      <4> QED BY <4>1
    <3> QED BY <3>2, <3>3
  <2> QED BY <2>2, <2>3
<1>4. States \in Good
  <2> HIDE DEF Good
  <2> QED BY <1>1, <1>2, <1>3, FiniteSetInduction
<1>5. PICK m \in States : \A j \in States : row[j] <= row[m]
  BY <1>1, <1>4
<1> DEFINE Tops == {k \in States : row[k] = row[m]}
<1>6. PICK k \in Tops : \A j \in Tops : k <= j
  <2>1. Tops \subseteq Nat /\ Tops # {}
    BY <1>1
  <2> HIDE DEF Tops
  <2> QED BY <2>1, LeastNat
<1>7. \A j \in States : row[j] < row[k] \/ (row[j] = row[k] /\ k <= j)
  <2> TAKE j \in States
  <2>1. row[j] \in Nat /\ row[m] \in Nat /\ row[k] = row[m] /\ row[j] <= row[m]
    BY <1>5, <1>6 DEF ScoreRows
  <2>2. row[j] = row[m] => k <= j
    BY <1>6
  <2> QED BY <2>1, <2>2
<1>8. DOMAIN row = States
  BY DEF ScoreRows
<1> DEFINE a == ArgMax(row)
<1>9. a \in States /\ \A j \in States : row[j] < row[a] \/ (row[j] = row[a] /\ a <= j)
  BY <1>6, <1>7, <1>8, Zenon DEF ArgMax
<1> HIDE DEF a
<1>10. \A j \in States : row[j] <= row[a]
  <2> TAKE j \in States
  <2>1. row[j] \in Nat /\ row[a] \in Nat
    BY <1>9 DEF ScoreRows
  <2> QED BY <1>9, <2>1
<1> QED BY <1>9, <1>10 DEF a

LEMMA ViaIs ==
  ASSUME NEW row \in ScoreRows, NEW k \in States
  PROVE  /\ Via(Hmm, row, k) \in ScoreRows
         /\ \A j \in States : Via(Hmm, row, k)[j] = row[j] * Hmm.trans[j][k]
<1> DEFINE v == [j \in States |-> row[j] * Hmm.trans[j][k]]
<1>1. Via(Hmm, row, k) = v
  BY TabulatedIs, Zenon DEF Via
<1>2. ASSUME NEW j \in States PROVE row[j] * Hmm.trans[j][k] \in Nat
  <2>1. row[j] \in Nat /\ Hmm.trans[j][k] \in Nat
    BY HmmAssumption DEF ScoreRows
  <2> QED BY <2>1
<1>3. v \in ScoreRows
  BY <1>2 DEF ScoreRows
<1> QED BY <1>1, <1>3

BestVia(row, k) == Via(Hmm, row, k)[ArgMax(Via(Hmm, row, k))]

LEMMA ViterbiRowIs ==
  ASSUME NEW obs, Observed(obs), NEW t \in 1 .. Len(obs), NEW before, t = 1 \/ before \in ScoreRows
  PROVE  /\ ViterbiRow(Hmm, obs, t, before) \in ScoreRows
         /\ ViterbiRow(Hmm, obs, t, before)
              = [k \in States |-> Em(obs, t, k) * (IF t = 1 THEN Hmm.start[k] ELSE BestVia(before, k))]
<1> DEFINE val(k) == Em(obs, t, k) * (IF t = 1 THEN Hmm.start[k] ELSE BestVia(before, k))
<1>1. ViterbiRow(Hmm, obs, t, before) = [k \in States |-> val(k)]
  BY TabulatedIs, Zenon DEF ViterbiRow, BestVia, Em
<1>2. ASSUME NEW k \in States PROVE val(k) \in Nat
  <2>1. Em(obs, t, k) \in Nat /\ Hmm.start[k] \in Nat
    BY ParametersAre
  <2>2. t # 1 => BestVia(before, k) \in Nat
    <3> SUFFICES ASSUME t # 1 PROVE BestVia(before, k) \in Nat
      OBVIOUS
    <3>1. Via(Hmm, before, k) \in ScoreRows
      BY ViaIs
    <3>2. ArgMax(Via(Hmm, before, k)) \in States
      BY <3>1, ArgMaxIs
    <3> QED BY <3>1, <3>2 DEF BestVia, ScoreRows
  <2> QED BY <2>1, <2>2
<1> HIDE DEF val
<1>3. [k \in States |-> val(k)] \in ScoreRows
  BY <1>2 DEF ScoreRows
<1> QED BY <1>1, <1>3 DEF val

LEMMA ViterbiIs ==
  ASSUME NEW obs, Observed(obs)
  PROVE  \A t \in 1 .. Len(obs) :
           /\ Viterbi(Hmm, obs)[t] \in ScoreRows
           /\ Viterbi(Hmm, obs)[t] = ViterbiRow(Hmm, obs, t, Viterbi(Hmm, obs)[t - 1])
<1> DEFINE n == Len(obs)
           base == [k \in States |-> 0]
           step == [tv \in (1 .. n) \X ScoreRows |-> ViterbiRow(Hmm, obs, tv[1], tv[2])]
           Eqn(a) == a = [t \in DOMAIN obs |-> ViterbiRow(Hmm, obs, t, a[t - 1])]
           c == CHOOSE c : Eqn(c)
<1>1. n \in Nat \ {0} /\ DOMAIN obs = 1 .. n
  BY ParametersAre
<1>2. base \in ScoreRows
  BY DEF ScoreRows
<1>3. step \in [(1 .. n) \X ScoreRows -> ScoreRows]
  BY ViterbiRowIs
<1> HIDE DEF base
<1>4. PICK a : Recurs(a, n, ScoreRows, base, step)
  <2> HIDE DEF step, n
  <2>1. n \in Nat
    BY <1>1
  <2> QED BY Zenon, <1>2, <1>3, <2>1, RecursionExists
<1>5. ASSUME NEW t \in 1 .. n PROVE a[t] = ViterbiRow(Hmm, obs, t, a[t - 1])
  <2> DEFINE v == IF t = 1 THEN base ELSE a[t - 1]
  <2>1. v \in ScoreRows
    <3>1. t # 1 => t - 1 \in 1 .. n
      BY <1>1
    <3> QED BY <1>2, <1>4, <3>1 DEF Recurs
  <2>2. a[t] = ViterbiRow(Hmm, obs, t, v)
    BY <1>4, <2>1 DEF Recurs
  <2>3. ViterbiRow(Hmm, obs, t, v) = ViterbiRow(Hmm, obs, t, a[t - 1])
    <3>1. CASE t = 1
      BY <3>1, ViterbiRowIs
    <3>2. CASE t # 1
      BY <3>2
    <3> QED BY <3>1, <3>2
  <2> QED BY <2>2, <2>3
<1>6. Eqn(c)
  <2>1. a = [t \in 1 .. n |-> a[t]]
    BY <1>4 DEF Recurs
  <2>2. Eqn(a)
    BY <1>1, <1>5, <2>1
  <2> HIDE DEF Eqn
  <2> QED BY <2>2
<1>7. Viterbi(Hmm, obs) = c
  BY TabulatedIs, Zenon DEF Viterbi
<1> HIDE DEF c
<1>8. \A t \in 1 .. n : c[t] = ViterbiRow(Hmm, obs, t, c[t - 1])
  BY <1>1, <1>6
<1> DEFINE Good == {t \in 1 .. n : c[t] \in ScoreRows}
<1>9. ASSUME NEW t \in 1 .. n, t = 1 \/ t - 1 \in Good PROVE t \in Good
  BY <1>8, <1>9, ViterbiRowIs
<1>10. 1 .. n \subseteq Good
  <2> HIDE DEF Good, n
  <2> QED BY <1>1, <1>9, UpTheRange
<1> QED BY <1>7, <1>8, <1>10

LEMMA DecodeIs ==
  ASSUME NEW obs, Observed(obs)
  PROVE  /\ Decode(Hmm, obs) \in Paths(Len(obs))
         /\ \A t \in 1 .. Len(obs) :
              Decode(Hmm, obs)[t] = IF t = Len(obs) THEN ArgMax(Viterbi(Hmm, obs)[t])
                                    ELSE ArgMax(Via(Hmm, Viterbi(Hmm, obs)[t], Decode(Hmm, obs)[t + 1]))
<1> DEFINE n == Len(obs)
           table == Viterbi(Hmm, obs)
           Val(t, k) == IF t = n THEN ArgMax(table[t]) ELSE ArgMax(Via(Hmm, table[t], k))
           step == [tv \in (1 .. n) \X States |-> Val(tv[1], tv[2])]
           Eqn(a) == a = [t \in DOMAIN obs |-> Val(t, a[t + 1])]
           c == CHOOSE c : Eqn(c)
<1>1. n \in Nat \ {0} /\ DOMAIN obs = 1 .. n /\ 0 \in States
  BY ParametersAre
<1>2. \A t \in 1 .. n : table[t] \in ScoreRows
  BY ViterbiIs
<1> HIDE DEF table
<1>3. ASSUME NEW t \in 1 .. n, NEW k, t = n \/ k \in States PROVE Val(t, k) \in States
  BY <1>2, <1>3, ArgMaxIs, ViaIs
<1>4. step \in [(1 .. n) \X States -> States]
  <2> HIDE DEF Val
  <2> QED BY <1>3
<1>5. PICK a : RecursDown(a, n, States, 0, step)
  <2> HIDE DEF step, n
  <2>1. n \in Nat
    BY <1>1
  <2> QED BY Zenon, <1>1, <1>4, <2>1, RecursionExistsDown
<1>6. ASSUME NEW t \in 1 .. n PROVE a[t] = Val(t, a[t + 1])
  <2> DEFINE v == IF t = n THEN 0 ELSE a[t + 1]
  <2>1. v \in States
    <3>1. t # n => t + 1 \in 1 .. n
      <4> HIDE DEF n
      <4> QED BY <1>1
    <3> QED BY <1>1, <1>5, <3>1 DEF RecursDown
  <2>2. a[t] = Val(t, v)
    <3> HIDE DEF Val
    <3> QED BY <1>5, <2>1 DEF RecursDown
  <2>3. Val(t, v) = Val(t, a[t + 1])
    OBVIOUS
  <2> QED BY <2>2, <2>3
<1>7. Eqn(c)
  <2>1. a = [t \in 1 .. n |-> a[t]]
    BY <1>5 DEF RecursDown
  <2>2. Eqn(a)
    <3> HIDE DEF Val
    <3> QED BY <1>1, <1>6, <2>1
  <2> HIDE DEF Eqn
  <2> QED BY <2>2
<1>8. Decode(Hmm, obs) = c
  BY TabulatedIs, Zenon DEF Decode, table
<1> HIDE DEF c
<1>9. \A t \in 1 .. n : c[t] = Val(t, c[t + 1])
  <2> HIDE DEF Val
  <2> QED BY <1>1, <1>7
<1> DEFINE Good == {t \in 1 .. n : c[t] \in States}
<1>10. ASSUME NEW t \in 1 .. n, t = n \/ t + 1 \in Good PROVE t \in Good
  <2> HIDE DEF Val
  <2> QED BY <1>3, <1>9, <1>10
<1>11. 1 .. n \subseteq Good
  <2> HIDE DEF Good, n
  <2> QED BY <1>1, <1>10, DownTheRange
<1>12. c \in [1 .. n -> States]
  <2>1. c = [t \in 1 .. n |-> Val(t, c[t + 1])]
    <3> HIDE DEF Val
    <3> QED BY <1>1, <1>7
  <2>2. \A t \in 1 .. n : Val(t, c[t + 1]) \in States
    <3> HIDE DEF Val
    <3> QED BY <1>9, <1>11
  <2> HIDE DEF Val
  <2> QED BY <2>1, <2>2
<1> QED BY <1>8, <1>9, <1>12 DEF Paths, table

-----------------------------------------------------------------------------
(* The decoded path is the heaviest.                                       *)

(* A path weighs no more than the best score of its last state. *)
LEMMA PathBelowScore ==
  ASSUME NEW obs, Observed(obs), NEW p \in Paths(Len(obs))
  PROVE  \A t \in 1 .. Len(obs) : Upto(obs, p, t) <= Viterbi(Hmm, obs)[t][p[t]]
<1> DEFINE n == Len(obs)
           table == Viterbi(Hmm, obs)
           Good == {t \in 1 .. n : Upto(obs, p, t) <= table[t][p[t]]}
<1>1. n \in Nat \ {0}
  BY ParametersAre
<1>2. \A t \in 1 .. n : p[t] \in States
  BY DEF Paths
<1>3. ASSUME NEW t \in 1 .. n, t = 1 \/ t - 1 \in Good PROVE t \in Good
  <2>1. /\ table[t] \in ScoreRows
        /\ table[t] = ViterbiRow(Hmm, obs, t, table[t - 1])
    BY ViterbiIs
  <2>2. CASE t = 1
    <3>1. table[1][p[1]] = Em(obs, 1, p[1]) * Hmm.start[p[1]]
      BY <1>2, <2>1, <2>2, ViterbiRowIs
    <3>2. Upto(obs, p, 1) = Em(obs, 1, p[1]) * Hmm.start[p[1]] /\ Upto(obs, p, 1) \in Nat
      BY <2>2, PathWeightsIs
    <3> QED BY <2>2, <3>1, <3>2
  <2>3. CASE t # 1
    <3> DEFINE j == p[t - 1]
               k == p[t]
               e == Em(obs, t, k)
               a == Hmm.trans[j][k]
               before == table[t - 1]
    <3>1. t - 1 \in 1 .. n /\ j \in States /\ k \in States
      <4>1. t - 1 \in 1 .. n
        <5> HIDE DEF n
        <5> QED BY <1>1, <2>3
      <4> QED BY <1>2, <4>1
    <3>2. before \in ScoreRows
      BY <3>1, ViterbiIs
    <3>3. table[t][k] = e * BestVia(before, k)
      BY <2>1, <2>3, <3>1, <3>2, ViterbiRowIs
    <3>4. Via(Hmm, before, k)[j] = before[j] * a /\ Via(Hmm, before, k) \in ScoreRows
      BY <3>1, <3>2, ViaIs
    <3>5. before[j] * a <= BestVia(before, k) /\ BestVia(before, k) \in Nat
      BY <3>1, <3>4, ArgMaxIs DEF BestVia, ScoreRows
    <3>6. Upto(obs, p, t) = e * (Upto(obs, p, t - 1) * a)
      BY <2>3, PathWeightsIs
    <3>7. Upto(obs, p, t - 1) <= before[j]
      BY <1>3, <2>3
    <3>8. /\ e \in Nat /\ a \in Nat /\ before[j] \in Nat
          /\ Upto(obs, p, t - 1) \in Nat
      BY <3>1, <3>2, ParametersAre, PathWeightsIs DEF ScoreRows
    <3> DEFINE u == Upto(obs, p, t - 1)
               b == before[j]
               v == BestVia(before, k)
    <3> HIDE DEF e, a, u, b, v
    <3>9. u * a <= v /\ u * a \in Nat /\ v \in Nat
      <4>3. u \in Int /\ b \in Int /\ a \in Nat /\ u <= b
        BY <3>7, <3>8 DEF u, b
      <4>1. u * a <= b * a
        BY <4>3, TimesMonotone
      <4>2. b * a <= v /\ v \in Nat /\ b * a \in Nat /\ u * a \in Nat
        BY <3>5, <3>8 DEF b, v, u
      <4> QED BY <4>1, <4>2
    <3> DEFINE x == u * a
    <3> HIDE DEF x
    <3>10. x * e <= v * e
      BY <3>8, <3>9, TimesMonotone DEF x
    <3>11. e * x <= e * v
      BY <3>8, <3>9, <3>10 DEF x
    <3>12. Upto(obs, p, t) = e * x /\ table[t][k] = e * v
      BY <3>3, <3>6 DEF x, u, v
    <3> QED BY <3>11, <3>12
  <2> QED BY <2>2, <2>3
<1>4. 1 .. n \subseteq Good
  <2> HIDE DEF Good, n
  <2> QED BY <1>1, <1>3, UpTheRange
<1> QED BY <1>4

(* The decoded path weighs what its last state's score says. *)
LEMMA DecodedIsScore ==
  ASSUME NEW obs, Observed(obs)
  PROVE  \A t \in 1 .. Len(obs) :
           Upto(obs, Decode(Hmm, obs), t) = Viterbi(Hmm, obs)[t][Decode(Hmm, obs)[t]]
<1> DEFINE n == Len(obs)
           table == Viterbi(Hmm, obs)
           d == Decode(Hmm, obs)
           Good == {t \in 1 .. n : Upto(obs, d, t) = table[t][d[t]]}
<1>1. n \in Nat \ {0}
  BY ParametersAre
<1>2. /\ d \in Paths(n)
      /\ \A t \in 1 .. n : d[t] = IF t = n THEN ArgMax(table[t]) ELSE ArgMax(Via(Hmm, table[t], d[t + 1]))
  BY DecodeIs
<1> HIDE DEF d
<1>3. \A t \in 1 .. n : d[t] \in States
  BY <1>2 DEF Paths
<1>4. ASSUME NEW t \in 1 .. n, t = 1 \/ t - 1 \in Good PROVE t \in Good
  <2>1. /\ table[t] \in ScoreRows
        /\ table[t] = ViterbiRow(Hmm, obs, t, table[t - 1])
    BY ViterbiIs
  <2>2. CASE t = 1
    <3>1. table[1][d[1]] = Em(obs, 1, d[1]) * Hmm.start[d[1]]
      BY <1>3, <2>1, <2>2, ViterbiRowIs
    <3>2. Upto(obs, d, 1) = Em(obs, 1, d[1]) * Hmm.start[d[1]]
      BY <1>2, <2>2, PathWeightsIs
    <3> QED BY <2>2, <3>1, <3>2
  <2>3. CASE t # 1
    <3> DEFINE j == d[t - 1]
               k == d[t]
               before == table[t - 1]
    <3>1. t - 1 \in 1 .. n /\ t - 1 # n /\ (t - 1) + 1 = t
      <4> HIDE DEF n
      <4> QED BY <1>1, <2>3
    <3>2. before \in ScoreRows /\ j \in States /\ k \in States
      BY <1>3, <3>1, ViterbiIs
    <3>3. table[t][k] = Em(obs, t, k) * BestVia(before, k)
      BY <2>1, <2>3, <3>2, ViterbiRowIs
    <3>4. j = ArgMax(Via(Hmm, before, k))
      <4> HIDE DEF n
      <4> QED BY <1>2, <3>1
    <3>5. BestVia(before, k) = before[j] * Hmm.trans[j][k]
      <4>1. Via(Hmm, before, k)[j] = before[j] * Hmm.trans[j][k]
        BY <3>2, ViaIs
      <4> QED BY <3>4, <4>1, Zenon DEF BestVia
    <3>6. Upto(obs, d, t) = Em(obs, t, k) * (Upto(obs, d, t - 1) * Hmm.trans[j][k])
      BY <1>2, <2>3, PathWeightsIs
    <3>7. Upto(obs, d, t - 1) = before[j]
      BY <1>4, <2>3
    <3> HIDE DEF j, k, before
    <3> QED BY <3>3, <3>5, <3>6, <3>7 DEF k
  <2> QED BY <2>2, <2>3
<1>5. 1 .. n \subseteq Good
  <2> HIDE DEF Good, n
  <2> QED BY <1>1, <1>4, UpTheRange
<1> QED BY <1>5 DEF d

LEMMA DecodedIsBest ==
  ASSUME NEW obs, Observed(obs), NEW p \in Paths(Len(obs))
  PROVE  Upto(obs, p, Len(obs)) <= Upto(obs, Decode(Hmm, obs), Len(obs))
<1> DEFINE n == Len(obs)
           d == Decode(Hmm, obs)
           last == Viterbi(Hmm, obs)[n]
<1>1. n \in 1 .. n
  BY ParametersAre
<1>2. last \in ScoreRows /\ d[n] = ArgMax(last) /\ p[n] \in States
  BY <1>1, ViterbiIs, DecodeIs DEF Paths
<1>3. last[p[n]] <= last[d[n]] /\ last[p[n]] \in Nat /\ last[d[n]] \in Nat
  BY <1>2, ArgMaxIs DEF ScoreRows
<1>4. Upto(obs, p, n) <= last[p[n]] /\ Upto(obs, d, n) = last[d[n]]
  BY <1>1, PathBelowScore, DecodedIsScore
<1>5. Upto(obs, p, n) \in Nat
  BY <1>1, PathWeightsIs
<1> HIDE DEF n, d, last
<1>6. Upto(obs, p, n) <= Upto(obs, d, n)
  BY <1>3, <1>4, <1>5
<1> QED BY <1>6 DEF n, d

-----------------------------------------------------------------------------
(* The posterior is the weight of the paths through a state.               *)

PathWeight(obs) == [p \in Paths(Len(obs)) |-> Upto(obs, p, Len(obs))]

(* The paths that are like q at the places I, and what they weigh.         *)
Alike(obs, q, I) == {p \in Paths(Len(obs)) : \A i \in I : p[i] = q[i]}
Total(obs, q, I) == SumFunctionOnSet(PathWeight(obs), Alike(obs, q, I))
Put(q, i, k) == [q EXCEPT ![i] = k]

LEMMA AlikeAre ==
  ASSUME NEW obs, Observed(obs), NEW q, NEW I
  PROVE  /\ IsFiniteSet(Paths(Len(obs)))
         /\ IsFiniteSet(Alike(obs, q, I)) /\ Alike(obs, q, I) \subseteq Paths(Len(obs))
         /\ \A p \in Alike(obs, q, I) : PathWeight(obs)[p] \in Nat \ {0}
         /\ Total(obs, q, I) \in Nat
<1>1. Len(obs) \in 1 .. Len(obs) /\ Len(obs) \in Nat /\ IsFiniteSet(States)
  BY ParametersAre
<1>2. IsFiniteSet(1 .. Len(obs))
  BY <1>1, FS_Interval
<1>3. IsFiniteSet(Paths(Len(obs)))
  BY <1>1, <1>2, FunctionsFinite DEF Paths
<1>4. Alike(obs, q, I) \subseteq Paths(Len(obs))
  BY DEF Alike
<1>5. IsFiniteSet(Alike(obs, q, I))
  BY <1>3, <1>4, FS_Subset
<1>6. \A p \in Paths(Len(obs)) : PathWeight(obs)[p] \in Nat \ {0}
  BY <1>1, PathWeightsIs DEF PathWeight
<1>7. Total(obs, q, I) \in Nat
  <2>1. \A p \in Alike(obs, q, I) : PathWeight(obs)[p] \in Nat
    BY <1>4, <1>6
  <2> QED BY <1>5, <2>1, SumPositive DEF Total
<1> QED BY <1>3, <1>4, <1>5, <1>6, <1>7

(* Taken apart by what they do at one more place. *)
SplitsAt(inner, obs, q, I, i) ==
  /\ q \in Paths(Len(obs)) /\ I \in SUBSET (1 .. Len(obs)) /\ i \in (1 .. Len(obs)) \ I
  /\ \A k \in States : inner[k] = Total(obs, Put(q, i, k), I \cup {i})

LEMMA TotalSplits ==
  ASSUME NEW obs, Observed(obs), NEW q, NEW I, NEW i, NEW inner, SplitsAt(inner, obs, q, I, i)
  PROVE  Total(obs, q, I) = SumFunctionOnSet(inner, States)
<1> DEFINE S == Alike(obs, q, I)
           w == PathWeight(obs)
           at == [p \in Paths(Len(obs)) |-> p[i]]
<1>0. /\ q \in Paths(Len(obs)) /\ I \in SUBSET (1 .. Len(obs)) /\ i \in (1 .. Len(obs)) \ I
      /\ \A k \in States : inner[k] = Total(obs, Put(q, i, k), I \cup {i})
  BY DEF SplitsAt
<1>1. IsFiniteSet(S) /\ IsFiniteSet(States) /\ \A p \in S : w[p] \in Int
  BY AlikeAre, ParametersAre
<1>2. \A p \in S : at[p] \in States /\ at[p] = p[i]
  BY <1>0 DEF Alike, Paths
<1>3. ASSUME NEW k \in States
      PROVE  {p \in S : at[p] = k} = Alike(obs, Put(q, i, k), I \cup {i})
  <2>1. Put(q, i, k)[i] = k /\ \A j \in I : Put(q, i, k)[j] = q[j]
    BY <1>0 DEF Put, Paths
  <2>2. \A p \in Paths(Len(obs)) :
          (\A j \in I \cup {i} : p[j] = Put(q, i, k)[j]) <=> (p[i] = k /\ \A j \in I : p[j] = q[j])
    BY <2>1
  <2> QED BY <2>2 DEF Alike
<1>4. \A k \in States : inner[k] = SumFunctionOnSet(w, {p \in S : at[p] = k})
  <2> TAKE k \in States
  <2>1. inner[k] = SumFunctionOnSet(w, Alike(obs, Put(q, i, k), I \cup {i}))
    BY <1>0 DEF Total
  <2> HIDE DEF S, w, at
  <2> QED BY <1>3, <2>1
<1> HIDE DEF S, w, at
<1>5. SumFunctionOnSet(w, S) = SumFunctionOnSet(inner, States)
  <2>1. Fibres(inner, w, S, at, States)
    BY <1>1, <1>2, <1>4 DEF Fibres
  <2> QED BY <2>1, SumFibres
<1> QED BY <1>5 DEF S, w, Total

(* A path that is changed at one place. *)
LEMMA PutIs ==
  ASSUME NEW n, NEW q \in Paths(n), NEW i \in 1 .. n, NEW k \in States
  PROVE  /\ Put(q, i, k) \in Paths(n) /\ Put(q, i, k)[i] = k
         /\ \A j \in 1 .. n : j # i => Put(q, i, k)[j] = q[j]
BY DEF Put, Paths

(* What a path weighs so far depends on its states so far. *)
LEMMA UptoSame ==
  ASSUME NEW obs, Observed(obs), NEW p \in Paths(Len(obs)), NEW q \in Paths(Len(obs)),
         NEW t \in 1 .. Len(obs), \A i \in 1 .. t : p[i] = q[i]
  PROVE  Upto(obs, p, t) = Upto(obs, q, t)
<1> DEFINE n == Len(obs)
           Good == {u \in 1 .. n : u <= t => Upto(obs, p, u) = Upto(obs, q, u)}
<1>1. n \in Nat \ {0}
  BY ParametersAre
<1>2. ASSUME NEW u \in 1 .. n, u = 1 \/ u - 1 \in Good PROVE u \in Good
  <2> SUFFICES ASSUME u <= t PROVE Upto(obs, p, u) = Upto(obs, q, u)
    OBVIOUS
  <2>1. p[u] = q[u]
    OBVIOUS
  <2>2. u # 1 => p[u - 1] = q[u - 1] /\ Upto(obs, p, u - 1) = Upto(obs, q, u - 1)
    BY <1>2
  <2>3. u = 1 => p[1] = q[1]
    BY <2>1
  <2> DEFINE Val(x, v) == Em(obs, u, x[u]) * (IF u = 1 THEN Hmm.start[x[1]]
                                              ELSE v * Hmm.trans[x[u - 1]][x[u]])
  <2>4. /\ Upto(obs, p, u) = Val(p, Upto(obs, p, u - 1))
        /\ Upto(obs, q, u) = Val(q, Upto(obs, q, u - 1))
    BY PathWeightsIs
  <2>5. Val(p, Upto(obs, p, u - 1)) = Val(q, Upto(obs, q, u - 1))
    <3>1. CASE u = 1
      BY <2>1, <2>3, <3>1
    <3>2. CASE u # 1
      BY <2>1, <2>2, <3>2
    <3> QED BY <3>1, <3>2
  <2> QED BY <2>4, <2>5
<1>3. 1 .. n \subseteq Good
  <2> HIDE DEF Good, n
  <2> QED BY <1>1, <1>2, UpTheRange
<1>4. t \in Good
  BY <1>3
<1> QED BY <1>4

(* From where two paths meet, their weights stay in proportion. *)
LEMMA InProportion ==
  ASSUME NEW obs, Observed(obs), NEW p \in Paths(Len(obs)), NEW q \in Paths(Len(obs)),
         NEW s \in 1 .. Len(obs), NEW t \in 1 .. Len(obs), s <= t, \A i \in s .. t : p[i] = q[i]
  PROVE  Upto(obs, q, t) * Upto(obs, p, s) = Upto(obs, p, t) * Upto(obs, q, s)
<1> DEFINE n == Len(obs)
           Equal(u) == Upto(obs, q, u) * Upto(obs, p, s) = Upto(obs, p, u) * Upto(obs, q, s)
           Good == {u \in 1 .. n : s <= u /\ u <= t => Equal(u)}
<1>1. n \in Nat \ {0}
  BY ParametersAre
<1>2. ASSUME NEW u \in 1 .. n, u = 1 \/ u - 1 \in Good PROVE u \in Good
  <2> SUFFICES ASSUME s <= u, u <= t PROVE Equal(u)
    OBVIOUS
  <2>1. CASE u = s
    <3>1. Upto(obs, q, s) \in Nat /\ Upto(obs, p, s) \in Nat
      BY PathWeightsIs
    <3> QED BY <2>1, <3>1
  <2>2. CASE u # s
    <3>1. u # 1 /\ u - 1 \in s .. t /\ u \in s .. t /\ u - 1 \in 1 .. n /\ s <= u - 1 /\ u - 1 <= t
      BY <2>2
    <3>2. Equal(u - 1)
      BY <1>2, <3>1
    <3> DEFINE e == Em(obs, u, p[u])
               a == Hmm.trans[p[u - 1]][p[u]]
               x == Upto(obs, p, u - 1)
               y == Upto(obs, q, u - 1)
               ps == Upto(obs, p, s)
               qs == Upto(obs, q, s)
    <3>3. p[u] = q[u] /\ p[u - 1] = q[u - 1]
      BY <3>1
    <3>4. Upto(obs, p, u) = e * (x * a) /\ Upto(obs, q, u) = e * (y * a)
      BY <3>1, <3>3, PathWeightsIs
    <3>5. p[u] \in States /\ p[u - 1] \in States
      BY <3>1 DEF Paths
    <3>6. e \in Nat /\ a \in Nat /\ x \in Nat /\ y \in Nat /\ ps \in Nat /\ qs \in Nat
      BY <3>1, <3>5, ParametersAre, PathWeightsIs
    <3>7. y * ps = x * qs
      BY <3>2
    <3> HIDE DEF e, a, x, y, ps, qs
    <3>8. (e * (y * a)) * ps = (e * (x * a)) * qs
      <4>1. (e * (y * a)) * ps = (e * a) * (y * ps)
        BY <3>6
      <4>2. (e * (x * a)) * qs = (e * a) * (x * qs)
        BY <3>6
      <4> QED BY <3>7, <4>1, <4>2
    <3> QED BY <3>4, <3>8 DEF ps, qs
  <2> QED BY <2>1, <2>2
<1>3. 1 .. n \subseteq Good
  <2> HIDE DEF Good, n
  <2> QED BY <1>1, <1>2, UpTheRange
<1>4. t \in Good
  BY <1>3
<1> QED BY <1>4

(* The paths that start like q: the backward recursion. *)
LEMMA TotalOfStart ==
  ASSUME NEW obs, Observed(obs)
  PROVE  \A u \in 1 .. Len(obs) : \A q \in Paths(Len(obs)) :
           Total(obs, q, 1 .. u) = Upto(obs, q, u) * Backward(Hmm, obs)[u][q[u]]
<1> DEFINE n == Len(obs)
           beta == Backward(Hmm, obs)
           Good == {u \in 1 .. n : \A q \in Paths(n) :
                      Total(obs, q, 1 .. u) = Upto(obs, q, u) * beta[u][q[u]]}
<1>1. n \in Nat \ {0}
  BY ParametersAre
<1>2. \A u \in 1 .. n : beta[u] \in ScoreRows /\ beta[u] = BackwardRow(Hmm, obs, u, beta[u + 1])
  BY BackwardIs
<1> HIDE DEF beta
<1>3. ASSUME NEW u \in 1 .. n, u = n \/ u + 1 \in Good PROVE u \in Good
  <2> SUFFICES ASSUME NEW q \in Paths(n) PROVE Total(obs, q, 1 .. u) = Upto(obs, q, u) * beta[u][q[u]]
    OBVIOUS
  <2>1. q[u] \in States
    BY DEF Paths
  <2>2. CASE u = n
    <3>1. Alike(obs, q, 1 .. n) = {q}
      BY DEF Alike, Paths
    <3>2. PathWeight(obs)[q] = Upto(obs, q, n) /\ Upto(obs, q, n) \in Nat
      BY <2>2, PathWeightsIs DEF PathWeight
    <3>3. Total(obs, q, 1 .. n) = Upto(obs, q, n)
      <4> DEFINE w == PathWeight(obs)
      <4>1. w[q] \in Int /\ w[q] = Upto(obs, q, n)
        BY <3>2
      <4>2. Total(obs, q, 1 .. n) = SumFunctionOnSet(w, {q})
        BY <3>1, Zenon DEF Total
      <4> HIDE DEF w
      <4>3. SumFunctionOnSet(w, {q}) = w[q]
        BY <4>1, SumOne
      <4> QED BY <4>1, <4>2, <4>3
    <3>4. beta[n][q[n]] = 1
      <4>1. beta[u] = [j \in States |-> IF u = n THEN 1 ELSE Leading(obs, u, beta[u + 1], j)]
        BY <1>2, <2>2, BackwardRowIs
      <4> QED BY <2>1, <2>2, <4>1
    <3> HIDE DEF n
    <3> QED BY <2>2, <3>2, <3>3, <3>4
  <2>3. CASE u # n
    <3> DEFINE i == u + 1
               x == Upto(obs, q, u)
               inner == [k \in States |-> Total(obs, Put(q, i, k), (1 .. u) \cup {i})]
               led == [k \in States |-> Hmm.trans[q[u]][k] * Em(obs, i, k) * beta[i][k]]
    <3>1. i \in 1 .. n /\ i \notin 1 .. u /\ (1 .. u) \cup {i} = 1 .. i /\ i # 1 /\ i - 1 = u
      <4> HIDE DEF n
      <4> QED BY <1>1, <2>3
    <3>2. x \in Nat
      BY PathWeightsIs
    <3>3. ASSUME NEW k \in States PROVE led[k] \in Nat /\ inner[k] = x * led[k]
      <4> DEFINE p == Put(q, i, k)
                 a == Hmm.trans[q[u]][k]
                 e == Em(obs, i, k)
                 b == beta[i][k]
      <4>1. p \in Paths(n) /\ p[i] = k /\ \A j \in 1 .. u : p[j] = q[j]
        BY <3>1, PutIs
      <4>2. inner[k] = Upto(obs, p, i) * b
        <5>1. Total(obs, p, 1 .. i) = Upto(obs, p, i) * beta[i][p[i]]
          BY <1>3, <2>3, <4>1
        <5> QED BY <3>1, <4>1, <5>1
      <4>3. Upto(obs, p, u) = x
        BY <4>1, UptoSame
      <4>4. p[u] = q[u]
        BY <4>1
      <4>5. Upto(obs, p, i) = e * (x * a)
        <5>1. Upto(obs, p, i) = Em(obs, i, p[i]) * (Upto(obs, p, i - 1) * Hmm.trans[p[i - 1]][p[i]])
          <6> HIDE DEF p, i
          <6> QED BY <3>1, <4>1, PathWeightsIs
        <5> QED BY <3>1, <4>1, <4>3, <4>4, <5>1
      <4>6. a \in Nat /\ e \in Nat /\ b \in Nat
        BY <1>2, <2>1, <3>1, ParametersAre DEF ScoreRows
      <4>7. led[k] = a * e * b
        OBVIOUS
      <4> HIDE DEF a, e, b, x, inner, led
      <4>8. (e * (x * a)) * b = x * (a * e * b) /\ a * e * b \in Nat
        BY <3>2, <4>6
      <4> QED BY <4>2, <4>5, <4>7, <4>8
    <3>4. Total(obs, q, 1 .. u) = SumFunctionOnSet(inner, States)
      <4>1. 1 .. u \in SUBSET (1 .. n) /\ i \in (1 .. n) \ (1 .. u)
        BY <3>1
      <4>2. \A k \in States : inner[k] = Total(obs, Put(q, i, k), (1 .. u) \cup {i})
        OBVIOUS
      <4> HIDE DEF inner, i
      <4>3. SplitsAt(inner, obs, q, 1 .. u, i)
        BY <4>1, <4>2 DEF SplitsAt
      <4> QED BY <4>3, TotalSplits
    <3>5. SumFunctionOnSet(inner, States) = x * SumFunctionOnSet(led, States)
      <4>1. IsFiniteSet(States) /\ x \in Int
        BY <3>2, ParametersAre
      <4> HIDE DEF inner, led, x
      <4>2. \A k \in States : led[k] \in Int /\ inner[k] = x * led[k]
        BY <3>3
      <4> QED BY <4>1, <4>2, SumTimes
    <3>6. beta[u][q[u]] = SumFunctionOnSet(led, States)
      <4>1. beta[u + 1] \in ScoreRows
        BY <1>2, <3>1
      <4>2. beta[u] = [j \in States |-> IF u = n THEN 1 ELSE Leading(obs, u, beta[u + 1], j)]
        BY <1>2, <4>1, BackwardRowIs
      <4>3. beta[u][q[u]] = Leading(obs, u, beta[u + 1], q[u])
        BY <2>1, <2>3, <4>2
      <4> QED BY <4>3 DEF Leading
    <3> QED BY <3>4, <3>5, <3>6
  <2> QED BY <2>2, <2>3
<1>4. 1 .. n \subseteq Good
  <2> HIDE DEF Good, n
  <2> QED BY <1>1, <1>3, DownTheRange
<1> QED BY <1>4 DEF beta

(* The paths that go on like q: the forward recursion. The arithmetic of   *)
(* one state before s + 1, with the weight of the changed path cancelled.  *)
LEMMA Exchange ==
  ASSUME NEW sum \in Nat, NEW uj \in Nat \ {0}, NEW vj \in Nat, NEW u \in Nat, NEW v \in Nat,
         NEW al \in Nat, NEW be \in Nat, NEW e \in Nat, NEW a \in Nat,
         sum * uj = al * (vj * be), v * (e * (uj * a)) = vj * u
  PROVE  sum * u = (e * (v * be)) * (al * a)
<1> DEFINE x == sum * u
           y == (e * (v * be)) * (al * a)
<1>1. x * uj = (sum * uj) * u
  OBVIOUS
<1>2. (al * (vj * be)) * u = (al * be) * (vj * u)
  OBVIOUS
<1>3. (al * be) * (v * (e * (uj * a))) = y * uj
  OBVIOUS
<1>4. x * uj = y * uj
  BY <1>1, <1>2, <1>3
<1>5. x \in Int /\ y \in Int
  OBVIOUS
<1> HIDE DEF x, y
<1>6. x * uj <= y * uj /\ y * uj <= x * uj
  BY <1>4, <1>5
<1>7. x <= y /\ y <= x
  BY <1>5, <1>6, Cancel
<1>8. x = y
  BY <1>5, <1>7
<1> QED BY <1>8 DEF x, y

LEMMA TotalThrough ==
  ASSUME NEW obs, Observed(obs), NEW t \in 1 .. Len(obs)
  PROVE  \A s \in 1 .. t : \A q \in Paths(Len(obs)) :
           Total(obs, q, s .. t) * Upto(obs, q, s)
             = Forward(Hmm, obs)[s][q[s]] * (Upto(obs, q, t) * Backward(Hmm, obs)[t][q[t]])
<1> DEFINE n == Len(obs)
           alpha == Forward(Hmm, obs)
           beta == Backward(Hmm, obs)[t]
           Good == {s \in 1 .. t : \A q \in Paths(n) :
                      Total(obs, q, s .. t) * Upto(obs, q, s)
                        = alpha[s][q[s]] * (Upto(obs, q, t) * beta[q[t]])}
<1>1. n \in Nat \ {0} /\ t \in Nat
  BY ParametersAre
<1>2. \A s \in 1 .. n : alpha[s] \in ScoreRows /\ alpha[s] = ForwardRow(Hmm, obs, s, alpha[s - 1])
  BY ForwardIs
<1>3. beta \in ScoreRows
  BY BackwardIs
<1>4. \A q \in Paths(n) : Total(obs, q, 1 .. t) = Upto(obs, q, t) * beta[q[t]]
  BY TotalOfStart
<1> HIDE DEF alpha, beta
<1>5. ASSUME NEW s \in 1 .. t, s = 1 \/ s - 1 \in Good PROVE s \in Good
  <2> SUFFICES ASSUME NEW q \in Paths(n)
               PROVE  Total(obs, q, s .. t) * Upto(obs, q, s)
                        = alpha[s][q[s]] * (Upto(obs, q, t) * beta[q[t]])
    OBVIOUS
  <2> DEFINE e == Em(obs, s, q[s])
             u == Upto(obs, q, s)
             v == Upto(obs, q, t)
             b == beta[q[t]]
  <2>1. s \in 1 .. n /\ q[s] \in States /\ q[t] \in States
    BY DEF Paths
  <2>2. e \in Nat /\ u \in Nat /\ v \in Nat /\ b \in Nat
    BY <1>3, <2>1, ParametersAre, PathWeightsIs DEF ScoreRows
  <2>3. CASE s = 1
    <3>1. alpha[s] = [k \in States |-> Em(obs, s, k) * (IF s = 1 THEN Hmm.start[k] ELSE Reaching(alpha[s - 1], k))]
      BY <1>2, <2>1, <2>3, ForwardRowIs
    <3>2. alpha[s][q[s]] = Em(obs, s, q[s]) * Hmm.start[q[s]]
      BY <2>1, <2>3, <3>1
    <3>3. u = Em(obs, s, q[s]) * Hmm.start[q[s]]
      BY <2>1, <2>3, PathWeightsIs
    <3>4. Total(obs, q, s .. t) = v * b
      BY <1>4, <2>3
    <3> HIDE DEF u, v, b
    <3>5. (v * b) * u = u * (v * b)
      BY <2>2
    <3> QED BY <3>2, <3>3, <3>4, <3>5 DEF u, v, b
  <2>4. CASE s # 1
    <3> DEFINE i == s - 1
               inner == [j \in States |-> Total(obs, Put(q, i, j), (s .. t) \cup {i})]
               got == [j \in States |-> alpha[i][j] * Hmm.trans[j][q[s]]]
               c == e * (v * b)
               times == [j \in States |-> u * inner[j]]
    <3>1. i \in 1 .. t /\ i \in 1 .. n /\ i \notin s .. t /\ (s .. t) \cup {i} = i .. t /\ s # i /\ i # t
      <4> HIDE DEF n
      <4> QED BY <1>1, <2>1, <2>4
    <3>2. alpha[i] \in ScoreRows /\ c \in Nat
      <4>1. v * b \in Nat
        BY <2>2
      <4> HIDE DEF v, b, e
      <4> QED BY <1>2, <2>2, <3>1, <4>1
    <3>3. ASSUME NEW j \in States
          PROVE  got[j] \in Nat /\ inner[j] \in Nat /\ inner[j] * u = c * got[j]
      <4> DEFINE p == Put(q, i, j)
                 al == alpha[i][j]
                 a == Hmm.trans[j][q[s]]
                 uj == Upto(obs, p, i)
                 vj == Upto(obs, p, t)
                 sum == Total(obs, p, i .. t)
      <4>1. p \in Paths(n) /\ p[i] = j /\ \A k \in 1 .. n : k # i => p[k] = q[k]
        BY <3>1, PutIs
      <4>2. p[t] = q[t] /\ p[s] = q[s] /\ \A k \in s .. t : p[k] = q[k]
        <5>1. \A k \in s .. t : k \in 1 .. n /\ k # i
          BY <3>1, <2>1
        <5>2. t \in s .. t /\ s \in s .. t
          BY <1>1
        <5> HIDE DEF p, i
        <5> QED BY <4>1, <5>1, <5>2
      <4> HIDE DEF p
      <4>3. sum * uj = al * (vj * b)
        <5>1. Total(obs, p, i .. t) * Upto(obs, p, i) = alpha[i][p[i]] * (Upto(obs, p, t) * beta[p[t]])
          BY <1>5, <2>4, <4>1
        <5> QED BY <4>1, <4>2, <5>1
      <4>4. v * Upto(obs, p, s) = vj * u
        BY <1>1, <2>1, <4>1, <4>2, InProportion
      <4>5. Upto(obs, p, s) = e * (uj * a)
        <5>1. Upto(obs, p, s) = Em(obs, s, p[s]) * (Upto(obs, p, s - 1) * Hmm.trans[p[s - 1]][p[s]])
          BY <2>1, <2>4, <4>1, PathWeightsIs
        <5> QED BY <4>1, <4>2, <5>1
      <4>6. /\ al \in Nat /\ a \in Nat /\ uj \in Nat \ {0} /\ vj \in Nat /\ sum \in Nat
        BY <2>1, <3>1, <3>2, <4>1, ParametersAre, PathWeightsIs, AlikeAre DEF ScoreRows
      <4>7. inner[j] = sum /\ got[j] = al * a
        BY <3>1 DEF p
      <4> HIDE DEF al, a, uj, vj, sum, e, u, v, b, inner, got
      <4>8. v * (e * (uj * a)) = vj * u
        BY <4>4, <4>5
      <4>9. sum * u = (e * (v * b)) * (al * a)
        BY <2>2, <4>3, <4>6, <4>8, Exchange
      <4>10. al * a \in Nat
        BY <4>6
      <4> QED BY <4>6, <4>7, <4>9, <4>10
    <3>4. Total(obs, q, s .. t) = SumFunctionOnSet(inner, States)
      <4>1. s .. t \in SUBSET (1 .. n) /\ i \in (1 .. n) \ (s .. t)
        BY <2>1, <3>1
      <4>2. \A j \in States : inner[j] = Total(obs, Put(q, i, j), (s .. t) \cup {i})
        OBVIOUS
      <4> HIDE DEF inner, i
      <4>3. SplitsAt(inner, obs, q, s .. t, i)
        BY <4>1, <4>2 DEF SplitsAt
      <4> QED BY <4>3, TotalSplits
    <3>5. IsFiniteSet(States)
      BY ParametersAre
    <3>6. SumFunctionOnSet(times, States) = u * SumFunctionOnSet(inner, States)
      <4> HIDE DEF inner
      <4>1. \A j \in States : inner[j] \in Int /\ times[j] = u * inner[j]
        BY <3>3
      <4> HIDE DEF times, u
      <4> QED BY <2>2, <3>5, <4>1, SumTimes
    <3>7. SumFunctionOnSet(times, States) = c * SumFunctionOnSet(got, States)
      <4> HIDE DEF inner, got, c
      <4>1. \A j \in States : got[j] \in Int /\ times[j] = c * got[j]
        <5> TAKE j \in States
        <5>1. got[j] \in Nat /\ inner[j] \in Nat /\ inner[j] * u = c * got[j]
          BY <3>3
        <5>2. times[j] = u * inner[j]
          OBVIOUS
        <5> HIDE DEF times, u
        <5> QED BY <2>2, <5>1, <5>2
      <4> HIDE DEF times
      <4> QED BY <3>2, <3>5, <4>1, SumTimes
    <3>8. alpha[s][q[s]] = e * SumFunctionOnSet(got, States)
      <4>1. alpha[s] = [k \in States |-> Em(obs, s, k) * (IF s = 1 THEN Hmm.start[k] ELSE Reaching(alpha[i], k))]
        BY <1>2, <2>1, <3>2, ForwardRowIs
      <4>2. alpha[s][q[s]] = Em(obs, s, q[s]) * Reaching(alpha[i], q[s])
        BY <2>1, <2>4, <4>1
      <4> QED BY <4>2 DEF Reaching
    <3> DEFINE r == SumFunctionOnSet(got, States)
               z == SumFunctionOnSet(inner, States)
    <3>9. r \in Int /\ z \in Int
      <4> HIDE DEF got, inner
      <4>1. (\A j \in States : got[j] \in Int) /\ (\A j \in States : inner[j] \in Int)
        BY <3>3
      <4> QED BY <3>5, <4>1, SumInt
    <3>10. u * z = (e * (v * b)) * r
      BY <3>6, <3>7
    <3>11. Total(obs, q, s .. t) = z /\ alpha[s][q[s]] = e * r
      BY <3>4, <3>8
    <3> HIDE DEF z, r, e, u, v, b
    <3>12. z * u = (e * r) * (v * b)
      <4>1. (e * (v * b)) * r = (e * r) * (v * b)
        BY <2>2, <3>9
      <4>2. z * u = u * z
        BY <2>2, <3>9
      <4> QED BY <3>10, <4>1, <4>2
    <3> QED BY <3>11, <3>12 DEF u, v, b
  <2> QED BY <2>3, <2>4
<1>6. 1 .. t \subseteq Good
  <2> HIDE DEF Good, n
  <2> QED BY <1>1, <1>5, UpTheRange
<1> QED BY <1>6 DEF alpha, beta

(* What the paths through state k at t weigh. *)
LEMMA ThroughState ==
  ASSUME NEW obs, Observed(obs), NEW t \in 1 .. Len(obs), NEW k \in States
  PROVE  SumFunctionOnSet(PathWeight(obs), {p \in Paths(Len(obs)) : p[t] = k})
           = Forward(Hmm, obs)[t][k] * Backward(Hmm, obs)[t][k]
<1> DEFINE n == Len(obs)
           q == [i \in 1 .. n |-> k]
           x == Total(obs, q, t .. t)
           u == Upto(obs, q, t)
           a == Forward(Hmm, obs)[t][k]
           b == Backward(Hmm, obs)[t][k]
<1>1. q \in Paths(n) /\ q[t] = k /\ t \in 1 .. t
  BY DEF Paths
<1> HIDE DEF q
<1>2. x * u = a * (u * b)
  BY <1>1, TotalThrough
<1>3. Alike(obs, q, t .. t) = {p \in Paths(Len(obs)) : p[t] = k}
  <2>1. t .. t = {t}
    OBVIOUS
  <2> QED BY <1>1, <2>1 DEF Alike
<1>4. x \in Nat /\ u \in Nat \ {0} /\ a \in Nat /\ b \in Nat
  BY <1>1, AlikeAre, PathWeightsIs, ForwardIs, BackwardIs DEF ScoreRows
<1>5. x = SumFunctionOnSet(PathWeight(obs), {p \in Paths(Len(obs)) : p[t] = k})
  BY <1>3, Zenon DEF Total
<1> HIDE DEF x, u, a, b
<1>6. a * (u * b) = (a * b) * u
  BY <1>4
<1> DEFINE y == a * b
<1>7. y \in Nat
  BY <1>4
<1> HIDE DEF y
<1>8. x * u = y * u
  BY <1>2, <1>6 DEF y
<1>9. x * u <= y * u /\ y * u <= x * u
  BY <1>4, <1>7, <1>8
<1>10. x <= y /\ y <= x
  BY <1>4, <1>7, <1>9, Cancel
<1>11. x = y
  BY <1>4, <1>7, <1>10
<1> QED BY <1>5, <1>11 DEF y, a, b

-----------------------------------------------------------------------------
(* The rows that dropna keeps are complete. *)
LEMMA FrameIs ==
  ASSUME NEW seq \in Seq(Rows)
  PROVE  Frame(seq) \in Seq(Seen)
<1> DEFINE D == DOMAIN seq
           V == Seq(Seen)
           Kept(kept, row) == IF Complete(row) THEN Append(kept, row) ELSE kept
           step == [tv \in Rows \X V |-> Kept(tv[2], tv[1])]
           pick == [s \in SUBSET D |-> Max(s)]
           Eqn(g) == g = [s \in SUBSET D |->
                            IF s = {} THEN <<>> ELSE Kept(g[s \ {Max(s)}], seq[Max(s)])]
<1>1. \A row \in Rows, kept \in V : Kept(kept, row) \in V
  BY DEF Seen
<1>2. <<>> \in V
  OBVIOUS
<1>3. step \in [Rows \X V -> V]
  <2> HIDE DEF Kept, V
  <2> QED BY <1>1
<1>4. IsFiniteSet(D) /\ Picks(pick, D) /\ \E g : LeftFoldOf(g, seq, V, <<>>, step)
  <2>1. IsFiniteSet(D) /\ Picks(Latest(seq), D) /\ \E g : LeftFoldOf(g, seq, V, <<>>, step)
    <3> HIDE DEF V, step
    <3> QED BY <1>2, <1>3, LeftFoldExists, Zenon
  <2> QED BY <2>1 DEF Latest
<1>5. PICK g : LeftFoldOf(g, seq, V, <<>>, step)
  BY <1>4, Zenon
<1>6. ASSUME NEW s \in SUBSET D
      PROVE  g[s] = IF s = {} THEN <<>> ELSE Kept(g[s \ {Max(s)}], seq[Max(s)])
  <2>1. CASE s # {}
    <3>1. Max(s) \in D
      BY <1>4, <2>1 DEF Picks
    <3>2. seq[Max(s)] \in Rows
      BY <3>1
    <3>3. g[s \ {Max(s)}] \in V
      BY <1>5 DEF LeftFoldOf
    <3>4. g[s] = step[<<seq[Max(s)], g[s \ {Max(s)}]>>]
      BY <1>5, <2>1 DEF LeftFoldOf
    <3> HIDE DEF Kept, V
    <3> QED BY <2>1, <3>2, <3>3, <3>4
  <2>2. CASE s = {}
    BY <1>5, <2>2 DEF LeftFoldOf
  <2> QED BY <2>1, <2>2
<1>7. Eqn(g)
  <2>1. g = [s \in SUBSET D |-> g[s]]
    BY <1>5 DEF LeftFoldOf
  <2> HIDE DEF Kept
  <2> QED BY <1>6, <2>1
<1>8. Eqn(CHOOSE c : Eqn(c))
  <2> HIDE DEF Eqn
  <2> QED BY <1>7
<1> DEFINE c == CHOOSE c : Eqn(c)
<1>9. Frame(seq) = c[D]
  BY Zenon DEF Frame, FoldLeft, MapThenFoldSet
<1>10. \A s \in SUBSET D : c[s] \in V
  <2> DEFINE Good == {s \in SUBSET D : c[s] \in V}
  <2>1. Eqn(c)
    BY <1>8
  <2>2. ASSUME NEW s \in SUBSET D
        PROVE  c[s] = IF s = {} THEN <<>> ELSE Kept(c[s \ {Max(s)}], seq[Max(s)])
    <3> HIDE DEF c, Kept
    <3> QED BY <2>1
  <2> HIDE DEF c, Eqn, Kept
  <2>3. Grows(Good, pick, D)
    <3>1. {} \in Good
      BY <1>2, <2>2
    <3>2. ASSUME NEW s \in SUBSET D, s # {}, s \ {pick[s]} \in Good PROVE s \in Good
      <4>1. Max(s) \in s /\ pick[s] = Max(s)
        BY <1>4, <3>2 DEF Picks
      <4>2. seq[Max(s)] \in Rows /\ c[s \ {Max(s)}] \in V
        BY <3>2, <4>1
      <4>3. c[s] \in V
        <5>1. c[s] = Kept(c[s \ {Max(s)}], seq[Max(s)])
          BY <2>2, <3>2
        <5> HIDE DEF V
        <5> QED BY <1>1, <4>2, <5>1
      <4> QED BY <4>3
    <3> QED BY <3>1, <3>2 DEF Grows
  <2>4. SUBSET D \subseteq Good
    <3> HIDE DEF Good, pick, D
    <3> QED BY <1>4, <2>3, FoldInduction
  <2> QED BY <2>4
<1> QED BY <1>9, <1>10

LEMMA InferenceOf ==
  ASSUME rows \in Seq(Rows)
  PROVE  InferenceIsExact
<1> DEFINE obs == Frame(rows)
           n == Len(obs)
           w == Tabulated([p \in Paths(n) |-> PathWeights(obs, p)[n]])
           posterior == Posterior(Hmm, obs)
           best == w[Decode(Hmm, obs)]
<1> SUFFICES ASSUME obs # <<>>
             PROVE  /\ \A p \in DOMAIN w : w[p] <= best
                    /\ \A t \in DOMAIN obs : \A k \in States :
                         posterior[t][k] = SumFunctionOnSet(w, {p \in DOMAIN w : p[t] = k})
  BY Zenon DEF InferenceIsExact
<1>1. Observed(obs)
  BY FrameIs DEF Observed
<1> HIDE DEF obs
<1>2. w = PathWeight(obs) /\ DOMAIN w = Paths(n)
  <2>1. w = [p \in Paths(n) |-> PathWeights(obs, p)[n]]
    BY TabulatedIs, Zenon
  <2> HIDE DEF w
  <2> QED BY <2>1 DEF PathWeight, Upto
<1>3. DOMAIN obs = 1 .. n
  BY <1>1, ParametersAre
<1> HIDE DEF w
<1>4. ASSUME NEW p \in DOMAIN w PROVE w[p] <= best
  <2>1. Upto(obs, p, n) <= Upto(obs, Decode(Hmm, obs), n)
    BY <1>1, <1>2, DecodedIsBest
  <2>2. Decode(Hmm, obs) \in Paths(n)
    BY <1>1, DecodeIs
  <2> QED BY <1>2, <2>1, <2>2 DEF PathWeight
<1>5. ASSUME NEW t \in DOMAIN obs, NEW k \in States
      PROVE  posterior[t][k] = SumFunctionOnSet(w, {p \in DOMAIN w : p[t] = k})
  <2>1. posterior[t][k] = Forward(Hmm, obs)[t][k] * Backward(Hmm, obs)[t][k]
    <3>1. posterior = [i \in DOMAIN obs |->
                         [j \in States |-> Forward(Hmm, obs)[i][j] * Backward(Hmm, obs)[i][j]]]
      BY TabulatedIs, Zenon DEF Posterior
    <3> HIDE DEF posterior
    <3> QED BY <3>1
  <2>2. {p \in DOMAIN w : p[t] = k} = {p \in Paths(Len(obs)) : p[t] = k}
    BY <1>2
  <2>3. SumFunctionOnSet(w, {p \in DOMAIN w : p[t] = k})
          = SumFunctionOnSet(PathWeight(obs), {p \in Paths(Len(obs)) : p[t] = k})
    BY <1>2, <2>2
  <2>4. t \in 1 .. Len(obs)
    BY <1>3
  <2> QED BY <1>1, <2>1, <2>3, <2>4, ThroughState
<1> QED BY <1>4, <1>5

(* For every number of states, all positive parameters and however many    *)
(* rows, complete or not, whatever happens between them: the decoded path  *)
(* is a heaviest one of all, and the posterior of a state the weight of    *)
(* the paths through it.                                                   *)
THEOREM InferenceIsRight == Spec => []InferenceIsExact
<1> DEFINE Inv == rows \in Seq(Rows)
<1>1. Init => Inv
  BY DEF Init
<1>2. Inv /\ [Next]_vars => Inv'
  <2> SUFFICES ASSUME Inv, [Next]_vars PROVE Inv'
    OBVIOUS
  <2>1. ASSUME NEW r \in Rows, NewRow(r) PROVE Inv'
    BY <2>1 DEF NewRow
  <2>2. ASSUME UNCHANGED rows PROVE Inv'
    BY <2>2
  <2> HIDE DEF Inv
  <2> QED BY <2>1, <2>2 DEF Next, vars, training, market, monitor, CollectBet, TrainTrust,
                         FitGated, FitRegimes, ReadRegime, Decide, UpdateEquity, Restart
<1>3. Inv => InferenceIsExact
  BY InferenceOf
<1> QED BY <1>1, <1>2, <1>3, PTL DEF Spec

-----------------------------------------------------------------------------
(* The isotonic fit: means of neighbours, from the sums P and Q of labels  *)
(* and weights up to each place.                                           *)

Rise(P, a, b) == P[b] - P[a]

(* The mean over the places after a up to b is not above that from c to d. *)
Below(P, Q, a, b, c, d) == Rise(P, a, b) * Rise(Q, c, d) <= Rise(P, c, d) * Rise(Q, a, b)

Sums(P, Q, n) ==
  /\ n \in Nat /\ P \in [0 .. n -> Int] /\ Q \in [0 .. n -> Int]
  /\ \A i, j \in 0 .. n : i < j => P[i] <= P[j] /\ Q[i] < Q[j]

(* No beginning of the places after a up to b has a lower mean than the rest. *)
Hung(P, Q, a, b) == \A j \in a .. b : Below(P, Q, j, b, a, j)

LEMMA RatioOrder ==
  ASSUME NEW p1 \in Int, NEW q1 \in Nat, NEW p2 \in Int, NEW q2 \in Nat \ {0},
         NEW p3 \in Int, NEW q3 \in Nat, p1 * q2 <= p2 * q1, p2 * q3 <= p3 * q2
  PROVE  p1 * q3 <= p3 * q1
<1>1. p1 * q2 \in Int /\ p2 * q1 \in Int /\ p2 * q3 \in Int /\ p3 * q2 \in Int
      /\ p1 * q3 \in Int /\ p3 * q1 \in Int
  OBVIOUS
<1>2. (p1 * q2) * q3 <= (p2 * q1) * q3
  BY <1>1, TimesMonotone
<1>3. (p2 * q3) * q1 <= (p3 * q2) * q1
  BY <1>1, TimesMonotone
<1>4. (p1 * q3) * q2 <= (p3 * q1) * q2
  <2>1. (p1 * q2) * q3 = (p1 * q3) * q2 /\ (p2 * q1) * q3 = (p2 * q3) * q1
        /\ (p3 * q2) * q1 = (p3 * q1) * q2
    OBVIOUS
  <2>2. (p1 * q3) * q2 \in Int /\ (p2 * q3) * q1 \in Int /\ (p3 * q1) * q2 \in Int
    OBVIOUS
  <2> QED BY <1>2, <1>3, <2>1, <2>2
<1> QED BY <1>1, <1>4, Cancel

LEMMA RiseIs ==
  ASSUME NEW P, NEW Q, NEW n, Sums(P, Q, n), NEW a \in 0 .. n, NEW b \in 0 .. n, a <= b
  PROVE  /\ Rise(P, a, b) \in Nat /\ Rise(Q, a, b) \in Nat
         /\ a < b => Rise(Q, a, b) \in Nat \ {0}
         /\ Rise(P, a, a) = 0 /\ Rise(Q, a, a) = 0
         /\ \A c \in 0 .. n : /\ Rise(P, a, c) = Rise(P, a, b) + Rise(P, b, c)
                              /\ Rise(Q, a, c) = Rise(Q, a, b) + Rise(Q, b, c)
<1>1. P[a] \in Int /\ P[b] \in Int /\ Q[a] \in Int /\ Q[b] \in Int
  BY DEF Sums
<1>2. a < b => P[a] <= P[b] /\ Q[a] < Q[b]
  BY DEF Sums
<1>3. a = b => P[a] = P[b] /\ Q[a] = Q[b]
  OBVIOUS
<1>4. a \in Int /\ b \in Int
  BY DEF Sums
<1>5. \A c \in 0 .. n : P[c] \in Int /\ Q[c] \in Int
  BY DEF Sums
<1> QED BY <1>1, <1>2, <1>3, <1>4, <1>5 DEF Rise

LEMMA BelowTrans ==
  ASSUME NEW P, NEW Q, NEW n, Sums(P, Q, n),
         NEW a \in 0 .. n, NEW b \in 0 .. n, NEW c \in 0 .. n,
         NEW d \in 0 .. n, NEW e \in 0 .. n, NEW f \in 0 .. n, a <= b, c < d, e <= f,
         Below(P, Q, a, b, c, d), Below(P, Q, c, d, e, f)
  PROVE  Below(P, Q, a, b, e, f)
<1>1. /\ Rise(P, a, b) \in Int /\ Rise(Q, a, b) \in Nat
      /\ Rise(P, e, f) \in Int /\ Rise(Q, e, f) \in Nat
  BY RiseIs
<1>2. Rise(P, c, d) \in Int /\ Rise(Q, c, d) \in Nat \ {0}
  <2>1. c <= d
    BY DEF Sums
  <2> QED BY <2>1, RiseIs
<1>3. /\ Rise(P, a, b) * Rise(Q, c, d) <= Rise(P, c, d) * Rise(Q, a, b)
      /\ Rise(P, c, d) * Rise(Q, e, f) <= Rise(P, e, f) * Rise(Q, c, d)
  BY DEF Below
<1>4. Rise(P, a, b) * Rise(Q, e, f) <= Rise(P, e, f) * Rise(Q, a, b)
  BY <1>1, <1>2, <1>3, RatioOrder
<1> QED BY <1>4 DEF Below

(* A mean of two is between them. *)
LEMMA Between ==
  ASSUME NEW P, NEW Q, NEW n, Sums(P, Q, n),
         NEW a \in 0 .. n, NEW b \in 0 .. n, NEW c \in 0 .. n, a <= b, b <= c
  PROVE  /\ Below(P, Q, b, c, a, b) => Below(P, Q, b, c, a, c) /\ Below(P, Q, a, c, a, b)
         /\ Below(P, Q, a, b, b, c) => Below(P, Q, a, b, a, c) /\ Below(P, Q, a, c, b, c)
         /\ Below(P, Q, a, b, a, c) => Below(P, Q, a, c, b, c)
         /\ Below(P, Q, a, c, a, b) => Below(P, Q, b, c, a, c)
         /\ Below(P, Q, a, c, b, c) => Below(P, Q, a, b, a, c)
         /\ Below(P, Q, b, c, a, c) => Below(P, Q, a, c, a, b)
<1> DEFINE p == Rise(P, a, b)
           q == Rise(Q, a, b)
           r == Rise(P, b, c)
           s == Rise(Q, b, c)
<1>1. p \in Int /\ q \in Int /\ r \in Int /\ s \in Int
  BY RiseIs
<1>2. Rise(P, a, c) = p + r /\ Rise(Q, a, c) = q + s
  BY RiseIs
<1>3. /\ (p + r) * q = p * q + r * q /\ p * (q + s) = p * q + p * s
      /\ (p + r) * s = p * s + r * s /\ r * (q + s) = r * q + r * s
  <2> HIDE DEF p, q, r, s
  <2> QED BY <1>1
<1>4. p * q \in Int /\ r * q \in Int /\ p * s \in Int /\ r * s \in Int
  <2> HIDE DEF p, q, r, s
  <2> QED BY <1>1
<1> HIDE DEF p, q, r, s
<1> QED BY <1>2, <1>3, <1>4 DEF Below, p, q, r, s

(* What two neighbours are below or above, both together are.              *)
LEMMA Both ==
  ASSUME NEW P, NEW Q, NEW n, Sums(P, Q, n), NEW a \in 0 .. n, NEW b \in 0 .. n, NEW c \in 0 .. n,
         NEW d \in 0 .. n, NEW e \in 0 .. n, a <= b, b <= c, d <= e
  PROVE  /\ Below(P, Q, a, b, d, e) /\ Below(P, Q, b, c, d, e) => Below(P, Q, a, c, d, e)
         /\ Below(P, Q, d, e, a, b) /\ Below(P, Q, d, e, b, c) => Below(P, Q, d, e, a, c)
<1> DEFINE p == Rise(P, a, b)
           q == Rise(Q, a, b)
           r == Rise(P, b, c)
           s == Rise(Q, b, c)
           x == Rise(P, d, e)
           y == Rise(Q, d, e)
<1>1. p \in Int /\ q \in Int /\ r \in Int /\ s \in Int /\ x \in Int /\ y \in Int
  BY RiseIs
<1>2. Rise(P, a, c) = p + r /\ Rise(Q, a, c) = q + s
  BY RiseIs
<1>3. (p + r) * y = p * y + r * y /\ x * (q + s) = x * q + x * s
  <2> HIDE DEF p, q, r, s, x, y
  <2> QED BY <1>1
<1>4. p * y \in Int /\ r * y \in Int /\ x * q \in Int /\ x * s \in Int
  <2> HIDE DEF p, q, r, s, x, y
  <2> QED BY <1>1
<1> HIDE DEF p, q, r, s, x, y
<1> QED BY <1>2, <1>3, <1>4 DEF Below, p, q, r, s, x, y

LEMMA Trivially ==
  ASSUME NEW P, NEW Q, NEW n, Sums(P, Q, n), NEW a \in 0 .. n, NEW b \in 0 .. n, a <= b
  PROVE  Below(P, Q, a, b, a, a) /\ Below(P, Q, b, b, a, b) /\ Below(P, Q, a, b, a, b)
<1>1. Rise(P, a, b) \in Int /\ Rise(Q, a, b) \in Int
  BY RiseIs
<1>2. Rise(P, a, a) = 0 /\ Rise(Q, a, a) = 0
  BY RiseIs
<1>3. Rise(P, b, b) = 0 /\ Rise(Q, b, b) = 0
  <2>1. b <= b
    BY DEF Sums
  <2> QED BY <2>1, RiseIs
<1>4. Rise(P, a, b) * Rise(Q, a, b) \in Int
  BY <1>1
<1> QED BY <1>1, <1>2, <1>3, <1>4 DEF Below

(* Two neighbours whose means are not in order hang together when pooled.  *)
LEMMA PoolHangs ==
  ASSUME NEW P, NEW Q, NEW n, Sums(P, Q, n), NEW a \in 0 .. n, NEW b \in 0 .. n, NEW c \in 0 .. n,
         a < b, b < c, Hung(P, Q, a, b), Hung(P, Q, b, c), Below(P, Q, b, c, a, b)
  PROVE  Hung(P, Q, a, c)
<1>0. n \in Nat /\ a <= b /\ b <= c /\ a <= c
  BY DEF Sums
<1> SUFFICES ASSUME NEW j \in a .. c PROVE Below(P, Q, j, c, a, j)
  BY DEF Hung
<1>1. j \in 0 .. n /\ a <= j /\ j <= c
  BY <1>0
<1>2. CASE j = a
  BY <1>0, <1>2, Trivially
<1>3. CASE a < j /\ j <= b
  <2>1. Below(P, Q, j, b, a, j) /\ j <= b
    BY <1>1, <1>3 DEF Hung
  <2>2. Below(P, Q, a, b, a, j)
    BY <1>0, <1>1, <2>1, Between
  <2>3. Below(P, Q, b, c, a, j)
    BY <1>0, <1>1, <2>2, BelowTrans
  <2> QED BY <1>0, <1>1, <2>1, <2>3, Both
<1>4. CASE b < j /\ j <= c
  <2>1. Below(P, Q, j, c, b, j) /\ b <= j
    BY <1>1, <1>4 DEF Hung
  <2>2. Below(P, Q, j, c, b, c)
    BY <1>0, <1>1, <2>1, Between
  <2>3. Below(P, Q, j, c, a, b)
    BY <1>0, <1>1, <2>2, BelowTrans
  <2> QED BY <1>0, <1>1, <2>1, <2>3, Both
<1>5. j = a \/ (a < j /\ j <= b) \/ (b < j /\ j <= c)
  BY <1>0, <1>1
<1> QED BY <1>2, <1>3, <1>4, <1>5

(* Blocks of neighbours that hang together, with means that never fall: k  *)
(* of them, block r for the places after c[r - 1] up to c[r].              *)
Chain(P, Q, c, k, m) ==
  /\ k \in Nat /\ m \in Nat /\ c \in [0 .. k -> 0 .. m] /\ c[0] = 0 /\ c[k] = m
  /\ \A r \in 1 .. k : c[r - 1] < c[r] /\ Hung(P, Q, c[r - 1], c[r])
  /\ \A r \in 1 .. k - 1 : Below(P, Q, c[r - 1], c[r], c[r], c[r + 1])

LEMMA CornersAre ==
  ASSUME NEW P, NEW Q, NEW n, Sums(P, Q, n), NEW m \in 0 .. n, NEW k, NEW c, Chain(P, Q, c, k, m)
  PROVE  /\ k \in Nat /\ n \in Nat /\ \A r \in 0 .. k : c[r] \in 0 .. n /\ c[r] \in 0 .. m
         /\ \A r \in 1 .. k : /\ c[r - 1] \in 0 .. n /\ c[r] \in 0 .. n /\ c[r - 1] \in 0 .. m
                             /\ c[r - 1] < c[r] /\ c[r - 1] <= c[r]
<1>1. k \in Nat /\ n \in Nat /\ m \in 0 .. n /\ c \in [0 .. k -> 0 .. m]
  BY DEF Chain, Sums
<1>2. \A r \in 0 .. k : c[r] \in 0 .. m /\ c[r] \in 0 .. n
  <2> TAKE r \in 0 .. k
  <2>1. c[r] \in 0 .. m
    BY <1>1
  <2> QED BY <1>1, <2>1
<1>3. ASSUME NEW r \in 1 .. k
      PROVE  /\ c[r - 1] \in 0 .. n /\ c[r] \in 0 .. n /\ c[r - 1] \in 0 .. m
             /\ c[r - 1] < c[r] /\ c[r - 1] <= c[r]
  <2>1. r \in 0 .. k /\ r - 1 \in 0 .. k
    BY <1>1
  <2>2. c[r - 1] \in 0 .. n /\ c[r] \in 0 .. n /\ c[r - 1] \in 0 .. m
    BY <1>2, <2>1
  <2>3. c[r - 1] < c[r]
    BY DEF Chain
  <2> QED BY <1>1, <2>2, <2>3
<1> QED BY <1>1, <1>2, <1>3

LEMMA CornersRise ==
  ASSUME NEW P, NEW Q, NEW n, Sums(P, Q, n), NEW m \in 0 .. n, NEW k, NEW c, Chain(P, Q, c, k, m)
  PROVE  \A s \in 1 .. k : \A r \in 1 .. s : c[r - 1] <= c[s - 1] /\ c[r] <= c[s]
<1> DEFINE Good == {s \in 1 .. k : \A r \in 1 .. s : c[r - 1] <= c[s - 1] /\ c[r] <= c[s]}
<1>1. k \in Nat
  BY CornersAre
<1>2. ASSUME NEW s \in 1 .. k, s = 1 \/ s - 1 \in Good PROVE s \in Good
  <2> SUFFICES ASSUME NEW r \in 1 .. s PROVE c[r - 1] <= c[s - 1] /\ c[r] <= c[s]
    OBVIOUS
  <2>1. r \in 1 .. k
    BY <1>1
  <2>2. c[r - 1] \in Nat /\ c[r] \in Nat /\ c[s - 1] \in Nat /\ c[s] \in Nat /\ c[s - 1] < c[s]
        /\ c[r - 1] < c[r]
    <3>1. /\ c[r - 1] \in 0 .. n /\ c[r] \in 0 .. n /\ c[s - 1] \in 0 .. n /\ c[s] \in 0 .. n
          /\ c[s - 1] < c[s] /\ c[r - 1] < c[r]
      BY <2>1, CornersAre
    <3> QED BY <3>1
  <2>3. CASE r = s
    BY <2>2, <2>3
  <2>4. CASE r # s
    <3>1. s - 1 \in Good /\ r \in 1 .. s - 1
      BY <1>1, <1>2, <2>4
    <3>2. c[r] <= c[s - 1]
      BY <3>1
    <3> QED BY <2>2, <3>2
  <2> QED BY <2>3, <2>4
<1>3. 1 .. k \subseteq Good
  <2> HIDE DEF Good
  <2> QED BY <1>1, <1>2, UpTheRange
<1> QED BY <1>3

LEMMA MeansRise ==
  ASSUME NEW P, NEW Q, NEW n, Sums(P, Q, n), NEW m \in 0 .. n, NEW k, NEW c, Chain(P, Q, c, k, m)
  PROVE  \A s \in 1 .. k : \A r \in 1 .. s : Below(P, Q, c[r - 1], c[r], c[s - 1], c[s])
<1> DEFINE Good == {s \in 1 .. k : \A r \in 1 .. s : Below(P, Q, c[r - 1], c[r], c[s - 1], c[s])}
<1>1. k \in Nat
  BY CornersAre
<1>2. ASSUME NEW s \in 1 .. k, s = 1 \/ s - 1 \in Good PROVE s \in Good
  <2> SUFFICES ASSUME NEW r \in 1 .. s PROVE Below(P, Q, c[r - 1], c[r], c[s - 1], c[s])
    OBVIOUS
  <2>1. r \in 1 .. k
    BY <1>1
  <2>2. /\ c[r - 1] \in 0 .. n /\ c[r] \in 0 .. n /\ c[s - 1] \in 0 .. n /\ c[s] \in 0 .. n
        /\ c[r - 1] <= c[r] /\ c[s - 1] <= c[s]
    BY <2>1, CornersAre
  <2>3. CASE r = s
    <3>1. Below(P, Q, c[s - 1], c[s], c[s - 1], c[s])
      BY <2>2, Trivially
    <3> QED BY <2>3, <3>1
  <2>4. CASE r # s
    <3>1. s - 1 \in Good /\ r \in 1 .. s - 1 /\ s - 1 \in 1 .. k /\ s - 1 \in 1 .. k - 1
      BY <1>1, <1>2, <2>4
    <3>2. Below(P, Q, c[r - 1], c[r], c[(s - 1) - 1], c[s - 1])
      BY <3>1
    <3>3. Below(P, Q, c[(s - 1) - 1], c[s - 1], c[s - 1], c[(s - 1) + 1]) /\ (s - 1) + 1 = s
      BY <1>1, <3>1 DEF Chain
    <3>4. c[(s - 1) - 1] \in 0 .. n /\ c[(s - 1) - 1] < c[s - 1]
      BY <3>1, CornersAre
    <3>5. Below(P, Q, c[(s - 1) - 1], c[s - 1], c[s - 1], c[s])
      BY <3>3
    <3> HIDE DEF Good
    <3> QED BY <2>2, <3>2, <3>4, <3>5, BelowTrans
  <2> QED BY <2>3, <2>4
<1>3. 1 .. k \subseteq Good
  <2> HIDE DEF Good
  <2> QED BY <1>1, <1>2, UpTheRange
<1> QED BY <1>3

LEMMA BlockOf ==
  ASSUME NEW P, NEW Q, NEW n, Sums(P, Q, n), NEW m \in 0 .. n, NEW k, NEW c, Chain(P, Q, c, k, m),
         NEW j \in 1 .. m
  PROVE  \E s \in 1 .. k : c[s - 1] < j /\ j <= c[s]
<1> DEFINE S == {s \in 0 .. k : j <= c[s]}
<1>1. /\ k \in Nat /\ \A r \in 0 .. k : c[r] \in Nat
      /\ j \in Nat /\ j > 0 /\ j <= m /\ c[0] = 0 /\ c[k] = m
  <2>1. n \in Nat /\ m \in Nat /\ j \in Nat /\ j > 0 /\ j <= m /\ c[0] = 0 /\ c[k] = m
    BY DEF Sums, Chain
  <2>2. k \in Nat /\ \A r \in 0 .. k : c[r] \in 0 .. n
    BY CornersAre
  <2> QED BY <2>1, <2>2
<1>2. k \in S /\ S \in SUBSET Nat
  BY <1>1
<1> HIDE DEF S
<1>3. Min(S) \in S /\ \A y \in S : Min(S) <= y
  BY <1>2, MinIs
<1> DEFINE s == Min(S)
<1>4. s \in 0 .. k /\ j <= c[s]
  BY <1>3 DEF S
<1> HIDE DEF s
<1>5. s # 0
  BY <1>1, <1>4
<1>6. s \in 1 .. k /\ s - 1 \in 0 .. k
  BY <1>1, <1>4, <1>5
<1>7. s - 1 \notin S
  <2>1. ~ (s <= s - 1)
    BY <1>6
  <2> QED BY <1>3, <2>1 DEF s
<1>8. c[s - 1] < j
  <2>1. ~ (j <= c[s - 1])
    BY <1>6, <1>7 DEF S
  <2>2. c[s - 1] \in Nat
    BY <1>1, <1>6
  <2> QED BY <1>1, <2>1, <2>2
<1> QED BY <1>4, <1>6, <1>8

(* The mean of a block is the lowest of those that begin with it, and the  *)
(* highest of those that end with it.                                      *)
LEMMA LowestFrom ==
  ASSUME NEW P, NEW Q, NEW n, Sums(P, Q, n), NEW m \in 0 .. n, NEW k, NEW c, Chain(P, Q, c, k, m),
         NEW r \in 1 .. k, NEW j \in 1 .. m, c[r - 1] < j
  PROVE  Below(P, Q, c[r - 1], c[r], c[r - 1], j)
<1> DEFINE a == c[r - 1]
           b == c[r]
           Good == {s \in 1 .. k : r <= s => Below(P, Q, a, b, a, c[s])}
<1>1. k \in Nat /\ a \in 0 .. n /\ b \in 0 .. n /\ a <= b /\ a < b
  BY CornersAre
<1> HIDE DEF a, b
<1>2. ASSUME NEW s \in 1 .. k, r <= s
      PROVE  /\ c[s - 1] \in 0 .. n /\ c[s] \in 0 .. n /\ c[s - 1] <= c[s] /\ c[s - 1] < c[s]
             /\ a <= c[s - 1] /\ Below(P, Q, a, b, c[s - 1], c[s])
  <2>1. r \in 1 .. s
    BY <1>2
  <2>2. a <= c[s - 1]
    BY <2>1, CornersRise DEF a
  <2>3. Below(P, Q, a, b, c[s - 1], c[s])
    BY <2>1, MeansRise DEF a, b
  <2>4. /\ c[s - 1] \in 0 .. n /\ c[s] \in 0 .. n /\ c[s - 1] <= c[s] /\ c[s - 1] < c[s]
    BY CornersAre
  <2> QED BY <2>2, <2>3, <2>4
<1>3. ASSUME NEW s \in 1 .. k, s = 1 \/ s - 1 \in Good PROVE s \in Good
  <2> SUFFICES ASSUME r <= s PROVE Below(P, Q, a, b, a, c[s])
    OBVIOUS
  <2>1. CASE s = r
    <3>1. Below(P, Q, a, b, a, b)
      BY <1>1, Trivially
    <3> QED BY <2>1, <3>1 DEF b
  <2>2. CASE s # r
    <3>1. s - 1 \in Good /\ r <= s - 1
      BY <1>1, <1>3, <2>2
    <3>2. Below(P, Q, a, b, a, c[s - 1])
      BY <3>1
    <3> HIDE DEF Good
    <3> QED BY <1>1, <1>2, <3>2, Both
  <2> QED BY <2>1, <2>2
<1>4. 1 .. k \subseteq Good
  <2> HIDE DEF Good
  <2> QED BY <1>1, <1>3, UpTheRange
<1>5. PICK s \in 1 .. k : c[s - 1] < j /\ j <= c[s]
  BY BlockOf
<1>6. r <= s
  <2> SUFFICES ASSUME s <= r - 1 PROVE FALSE
    BY <1>1
  <2>1. r - 1 \in 1 .. k /\ s \in 1 .. r - 1
    BY <1>1
  <2>2. c[s] <= c[r - 1]
    BY <2>1, CornersRise
  <2>3. c[s] \in 0 .. n /\ c[r - 1] \in 0 .. n /\ n \in Nat /\ m \in 0 .. n
    BY CornersAre
  <2> QED BY <1>5, <2>2, <2>3
<1>7. Below(P, Q, a, b, a, c[s - 1])
  <2>1. CASE s = r
    <3>1. Below(P, Q, a, b, a, a)
      BY <1>1, Trivially
    <3> QED BY <2>1, <3>1 DEF a
  <2>2. CASE s # r
    <3>1. s - 1 \in 1 .. k /\ r <= s - 1
      BY <1>1, <1>6, <2>2
    <3> QED BY <1>4, <3>1
  <2> QED BY <2>1, <2>2
<1>8. j \in 0 .. n /\ c[s - 1] <= j
  <2>1. n \in Nat /\ m \in 0 .. n /\ c[s - 1] \in 0 .. n
    BY CornersAre
  <2> QED BY <1>5, <2>1
<1>9. Below(P, Q, c[s - 1], c[s], c[s - 1], j)
  <2>1. j \in c[s - 1] .. c[s]
    <3>1. c[s - 1] \in 0 .. n /\ c[s] \in 0 .. n
      BY CornersAre
    <3> QED BY <1>5, <1>8, <3>1
  <2>2. Below(P, Q, j, c[s], c[s - 1], j)
    BY <2>1 DEF Chain, Hung
  <2> QED BY <1>2, <1>5, <1>6, <1>8, <2>2, Between
<1>10. Below(P, Q, a, b, c[s - 1], j)
  BY <1>1, <1>2, <1>6, <1>8, <1>9, BelowTrans
<1>11. Below(P, Q, a, b, a, j)
  <2>1. c[s - 1] \in 0 .. n /\ a <= c[s - 1]
    BY <1>2, <1>6
  <2> QED BY <1>1, <2>1, <1>7, <1>8, <1>10, Both
<1> QED BY <1>11 DEF a, b

LEMMA HighestTo ==
  ASSUME NEW P, NEW Q, NEW n, Sums(P, Q, n), NEW m \in 0 .. n, NEW k, NEW c, Chain(P, Q, c, k, m),
         NEW r \in 1 .. k, NEW j \in 0 .. m, j < c[r]
  PROVE  Below(P, Q, j, c[r], c[r - 1], c[r])
<1> DEFINE a == c[r - 1]
           b == c[r]
           Good == {s \in 1 .. k : s <= r => Below(P, Q, c[s - 1], b, a, b)}
<1>1. k \in Nat /\ n \in Nat /\ a \in 0 .. n /\ b \in 0 .. n /\ a <= b /\ a < b
  BY CornersAre
<1> HIDE DEF a, b
<1>2. ASSUME NEW s \in 1 .. k, s <= r
      PROVE  /\ c[s - 1] \in 0 .. n /\ c[s] \in 0 .. n /\ c[s - 1] <= c[s] /\ c[s - 1] < c[s]
             /\ c[s] <= b /\ Below(P, Q, c[s - 1], c[s], a, b)
  <2>1. s \in 1 .. r
    BY <1>2
  <2>2. c[s] <= b
    BY <2>1, CornersRise DEF b
  <2>3. Below(P, Q, c[s - 1], c[s], a, b)
    BY <2>1, MeansRise DEF a, b
  <2>4. /\ c[s - 1] \in 0 .. n /\ c[s] \in 0 .. n /\ c[s - 1] <= c[s] /\ c[s - 1] < c[s]
    BY CornersAre
  <2> QED BY <2>2, <2>3, <2>4
<1>3. ASSUME NEW s \in 1 .. k, s = k \/ s + 1 \in Good PROVE s \in Good
  <2> SUFFICES ASSUME s <= r PROVE Below(P, Q, c[s - 1], b, a, b)
    OBVIOUS
  <2>1. CASE s = r
    <3>1. Below(P, Q, a, b, a, b)
      BY <1>1, Trivially
    <3> QED BY <2>1, <3>1 DEF a
  <2>2. CASE s # r
    <3>1. s + 1 \in Good /\ s + 1 <= r /\ (s + 1) - 1 = s
      BY <1>1, <1>3, <2>2
    <3>2. Below(P, Q, c[s], b, a, b)
      BY <3>1
    <3> HIDE DEF Good
    <3> QED BY <1>1, <1>2, <3>2, Both
  <2> QED BY <2>1, <2>2
<1>4. 1 .. k \subseteq Good
  <2> HIDE DEF Good
  <2> QED BY <1>1, <1>3, DownTheRange
<1>5. PICK s \in 1 .. k : c[s - 1] < j + 1 /\ j + 1 <= c[s]
  <2>1. c[r] \in 0 .. m /\ m \in Nat
    BY CornersAre DEF Chain
  <2>2. j + 1 \in 1 .. m
    BY <2>1
  <2> QED BY <2>2, BlockOf
<1>6. s <= r
  <2> SUFFICES ASSUME r <= s - 1 PROVE FALSE
    BY <1>1
  <2>1. s - 1 \in 1 .. k /\ r \in 1 .. s - 1
    BY <1>1
  <2>2. c[r] <= c[s - 1]
    BY <2>1, CornersRise
  <2>3. c[s - 1] \in 0 .. n /\ c[r] \in 0 .. n /\ n \in Nat /\ m \in 0 .. n
    BY CornersAre
  <2> QED BY <1>5, <2>2, <2>3
<1>7. Below(P, Q, c[s], b, a, b)
  <2>1. CASE s = r
    <3>1. Below(P, Q, b, b, a, b)
      BY <1>1, Trivially
    <3> QED BY <2>1, <3>1 DEF b
  <2>2. CASE s # r
    <3>1. s + 1 \in 1 .. k /\ s + 1 <= r /\ (s + 1) - 1 = s
      BY <1>1, <1>6, <2>2
    <3>2. Below(P, Q, c[(s + 1) - 1], b, a, b)
      BY <1>4, <3>1
    <3> QED BY <3>1, <3>2
  <2> QED BY <2>1, <2>2
<1>8. j \in 0 .. n /\ c[s - 1] <= j /\ j <= c[s]
  <2>1. n \in Nat /\ m \in 0 .. n /\ c[s - 1] \in 0 .. n /\ c[s] \in 0 .. n
    BY CornersAre
  <2> QED BY <1>5, <2>1
<1>9. Below(P, Q, j, c[s], c[s - 1], c[s])
  <2>1. j \in c[s - 1] .. c[s]
    <3>1. c[s - 1] \in 0 .. n /\ c[s] \in 0 .. n
      BY CornersAre
    <3> QED BY <1>8, <3>1
  <2>2. Below(P, Q, j, c[s], c[s - 1], j)
    BY <2>1 DEF Chain, Hung
  <2> QED BY <1>2, <1>6, <1>8, <2>2, Between
<1>10. Below(P, Q, j, c[s], a, b)
  BY <1>1, <1>2, <1>6, <1>8, <1>9, BelowTrans
<1>11. Below(P, Q, j, b, a, b)
  BY <1>1, <1>2, <1>6, <1>7, <1>8, <1>10, Both
<1> QED BY <1>11 DEF a, b

-----------------------------------------------------------------------------
(* The loops of _pava.                                                     *)

Blocks == [sum : Int, weight : Int, count : Int]

Part(P, Q, a, b) == [sum |-> Rise(P, a, b), weight |-> Rise(Q, a, b), count |-> b - a]

(* One bet: last holds what the last block becomes, stop where it ends.    *)
Popped(last, stop, blocks, new) ==
  LET n == Len(blocks) + 1 IN
  /\ last \in [1 .. n -> Blocks] /\ stop \in 1 .. n
  /\ last[n] = new /\ \A k \in 1 .. n : k # n => last[k] = Joined(blocks[k], last[k + 1])
  /\ stop # 1 => ~ Violates(blocks[stop - 1], last[stop])
  /\ \A k \in 1 .. n : stop < k => Violates(blocks[k - 1], last[k])

LEMMA PoolIs ==
  ASSUME NEW blocks \in Seq(Blocks), NEW new \in Blocks
  PROVE  \E last, stop : /\ Popped(last, stop, blocks, new)
                         /\ Pool(blocks, new) = Append(SubSeq(blocks, 1, stop - 1), last[stop])
<1> DEFINE n == Len(blocks) + 1
           Val(k, v) == IF k = n THEN new ELSE Joined(blocks[k], v)
           step == [kv \in (1 .. n) \X Blocks |-> Val(kv[1], kv[2])]
           Eqn(a) == a = [k \in 1 .. n |-> Val(k, a[k + 1])]
           last == CHOOSE a : Eqn(a)
           stops == {k \in 1 .. n : k = 1 \/ ~ Violates(blocks[k - 1], last[k])}
           stop == Max(stops)
<1>1. n \in Nat \ {0} /\ \A k \in 1 .. n : k # n => blocks[k] \in Blocks
  OBVIOUS
<1>2. ASSUME NEW k \in 1 .. n, NEW v, k = n \/ v \in Blocks PROVE Val(k, v) \in Blocks
  <2>1. CASE k = n
    BY <2>1
  <2>2. CASE k # n
    <3>1. blocks[k] \in Blocks /\ v \in Blocks
      BY <1>1, <1>2, <2>2
    <3> DEFINE b == blocks[k]
    <3>3. b \in Blocks
      BY <3>1
    <3> HIDE DEF b, n
    <3>2. Joined(b, v) \in Blocks
      <4>1. /\ b.sum \in Int /\ b.weight \in Int /\ b.count \in Int
            /\ v.sum \in Int /\ v.weight \in Int /\ v.count \in Int
        BY <3>1, <3>3 DEF Blocks
      <4> QED BY <4>1 DEF Joined, Blocks
    <3> QED BY <2>2, <3>2 DEF b
  <2> QED BY <2>1, <2>2
<1>3. step \in [(1 .. n) \X Blocks -> Blocks]
  <2> HIDE DEF Val, n
  <2> QED BY <1>2
<1>4. PICK f : RecursDown(f, n, Blocks, new, step)
  <2> HIDE DEF step, n
  <2>1. n \in Nat
    BY <1>1
  <2> QED BY Zenon, <1>3, <2>1, RecursionExistsDown
<1>5. ASSUME NEW k \in 1 .. n PROVE f[k] = Val(k, f[k + 1])
  <2> DEFINE v == IF k = n THEN new ELSE f[k + 1]
  <2>1. v \in Blocks
    <3>1. k # n => k + 1 \in 1 .. n
      <4> HIDE DEF n
      <4> QED BY <1>1
    <3> QED BY <1>4, <3>1 DEF RecursDown
  <2>2. f[k] = Val(k, v)
    <3> HIDE DEF Val, n
    <3> QED BY <1>4, <2>1 DEF RecursDown
  <2> QED BY <2>2
<1>6. Eqn(last)
  <2>1. f = [k \in 1 .. n |-> f[k]]
    BY <1>4 DEF RecursDown
  <2>2. Eqn(f)
    <3> HIDE DEF Val, n
    <3> QED BY <1>5, <2>1
  <2> HIDE DEF Eqn
  <2> QED BY <2>2
<1>7. Pool(blocks, new) = Append(SubSeq(blocks, 1, stop - 1), last[stop])
  BY Zenon DEF Pool
<1> HIDE DEF last
<1>8. \A k \in 1 .. n : last[k] = Val(k, last[k + 1])
  <2> HIDE DEF Val, n
  <2> QED BY <1>6
<1>9. last \in [1 .. n -> Blocks]
  <2> DEFINE Good == {k \in 1 .. n : last[k] \in Blocks}
  <2>1. ASSUME NEW k \in 1 .. n, k = n \/ k + 1 \in Good PROVE k \in Good
    <3> HIDE DEF Val, n
    <3> QED BY <1>2, <1>8, <2>1
  <2>2. 1 .. n \subseteq Good
    <3> HIDE DEF Good, n
    <3> QED BY <1>1, <2>1, DownTheRange
  <2>3. last = [k \in 1 .. n |-> last[k]]
    <3> HIDE DEF Val, n
    <3> QED BY <1>6
  <2> HIDE DEF n, Val
  <2> QED BY <2>2, <2>3
<1>10. stop \in stops /\ \A k \in stops : stop >= k
  <2>1. 1 \in stops /\ stops \in SUBSET (0 .. n)
    BY <1>1
  <2> HIDE DEF stops, n
  <2> QED BY <1>1, <2>1, MaxIs
<1> HIDE DEF stop
<1>11. stop \in 1 .. n /\ (stop # 1 => ~ Violates(blocks[stop - 1], last[stop]))
  BY <1>10
<1>12. ASSUME NEW k \in 1 .. n, stop < k PROVE Violates(blocks[k - 1], last[k])
  <2>1. k \notin stops
    <3>1. ~ (stop >= k) /\ stop \in Nat /\ k \in Nat
      BY <1>11, <1>12
    <3> HIDE DEF stops
    <3> QED BY <1>10, <3>1
  <2> QED BY <2>1
<1>13. last[n] = new /\ \A k \in 1 .. n : k # n => last[k] = Joined(blocks[k], last[k + 1])
  BY <1>1, <1>8
<1>14. Popped(last, stop, blocks, new)
  <2> HIDE DEF Val, stops
  <2> QED BY <1>9, <1>11, <1>12, <1>13 DEF Popped
<1> QED BY <1>7, <1>14

LEMMA PoolType ==
  ASSUME NEW blocks \in Seq(Blocks), NEW new \in Blocks
  PROVE  Pool(blocks, new) \in Seq(Blocks)
<1>1. PICK last, stop : /\ Popped(last, stop, blocks, new)
                        /\ Pool(blocks, new) = Append(SubSeq(blocks, 1, stop - 1), last[stop])
  BY PoolIs
<1>2. stop \in 1 .. Len(blocks) + 1 /\ last[stop] \in Blocks
  BY <1>1 DEF Popped
<1>3. SubSeq(blocks, 1, stop - 1) \in Seq(Blocks)
  BY <1>2
<1> QED BY <1>1, <1>2, <1>3

(* The blocks are the parts that the corners cut.                          *)
Cut(blocks, P, Q, c) ==
  /\ blocks \in Seq(Blocks)
  /\ \A r \in 1 .. Len(blocks) : blocks[r] = Part(P, Q, c[r - 1], c[r])

LEMMA ViolatesIs ==
  ASSUME NEW P, NEW Q, NEW n, Sums(P, Q, n), NEW a \in 0 .. n, NEW b \in 0 .. n, NEW d \in 0 .. n,
         a <= b, b <= d
  PROVE  /\ Violates(Part(P, Q, a, b), Part(P, Q, b, d)) => Below(P, Q, b, d, a, b)
         /\ ~ Violates(Part(P, Q, a, b), Part(P, Q, b, d)) => Below(P, Q, a, b, b, d)
         /\ Joined(Part(P, Q, a, b), Part(P, Q, b, d)) = Part(P, Q, a, d)
         /\ Part(P, Q, a, b) \in Blocks
<1> DEFINE p == Rise(P, a, b)
           q == Rise(Q, a, b)
           r == Rise(P, b, d)
           s == Rise(Q, b, d)
<1>1. p \in Int /\ q \in Int /\ r \in Int /\ s \in Int
  BY RiseIs
<1>2. Rise(P, a, d) = p + r /\ Rise(Q, a, d) = q + s
  BY RiseIs
<1>3. p * s \in Int /\ r * q \in Int
  <2> HIDE DEF p, q, r, s
  <2> QED BY <1>1
<1>4. a \in Int /\ b \in Int /\ d \in Int
  BY DEF Sums
<1> HIDE DEF p, q, r, s
<1>5. /\ Violates(Part(P, Q, a, b), Part(P, Q, b, d)) <=> p * s >= r * q
      /\ Below(P, Q, b, d, a, b) <=> r * q <= p * s
      /\ Below(P, Q, a, b, b, d) <=> p * s <= r * q
  BY DEF Violates, Part, Below, p, q, r, s
<1>6. Joined(Part(P, Q, a, b), Part(P, Q, b, d)) = Part(P, Q, a, d)
  <2>1. (b - a) + (d - b) = d - a
    BY <1>4
  <2> QED BY <1>2, <2>1 DEF Joined, Part, p, q, r, s
<1>7. Part(P, Q, a, b) \in Blocks
  BY <1>1, <1>4 DEF Part, Blocks, p, q
<1> QED BY <1>3, <1>5, <1>6, <1>7

LEMMA PoolChains ==
  ASSUME NEW P, NEW Q, NEW n, Sums(P, Q, n), NEW m \in 0 .. n, m + 1 \in 0 .. n,
         NEW blocks, NEW c, Cut(blocks, P, Q, c), Chain(P, Q, c, Len(blocks), m)
  PROVE  LET new == Pool(blocks, Part(P, Q, m, m + 1)) IN
         \E d : Cut(new, P, Q, d) /\ Chain(P, Q, d, Len(new), m + 1)
<1> DEFINE k == Len(blocks)
           single == Part(P, Q, m, m + 1)
           new == Pool(blocks, single)
<1>1. /\ k \in Nat /\ n \in Nat /\ m \in Nat /\ c \in [0 .. k -> 0 .. m] /\ c[0] = 0 /\ c[k] = m
      /\ blocks \in Seq(Blocks) /\ \A r \in 1 .. k : blocks[r] = Part(P, Q, c[r - 1], c[r])
  BY DEF Chain, Cut, Sums
<1>2. single \in Blocks
  <2>1. m <= m + 1 /\ m + 1 <= m + 1
    BY <1>1
  <2> QED BY <2>1, ViolatesIs
<1>3. PICK last, stop : /\ Popped(last, stop, blocks, single)
                        /\ new = Append(SubSeq(blocks, 1, stop - 1), last[stop])
  BY <1>1, <1>2, PoolIs
<1> HIDE DEF k, single, new
<1>4. /\ last \in [1 .. k + 1 -> Blocks] /\ stop \in 1 .. k + 1 /\ last[k + 1] = single
      /\ \A t \in 1 .. k + 1 : t # k + 1 => last[t] = Joined(blocks[t], last[t + 1])
      /\ stop # 1 => ~ Violates(blocks[stop - 1], last[stop])
      /\ \A t \in 1 .. k + 1 : stop < t => Violates(blocks[t - 1], last[t])
  BY <1>3 DEF Popped, k
<1>5. \A r \in 1 .. k : /\ c[r - 1] \in 0 .. n /\ c[r] \in 0 .. n /\ c[r - 1] < c[r] /\ c[r - 1] <= c[r]
                        /\ c[r] <= m
  <2> TAKE r \in 1 .. k
  <2>1. c[r - 1] \in 0 .. n /\ c[r] \in 0 .. n /\ c[r - 1] < c[r] /\ c[r - 1] <= c[r]
    BY CornersAre DEF k
  <2>2. c[r] \in 0 .. m
    BY <1>1
  <2> QED BY <1>1, <2>1, <2>2
<1> DEFINE Good == {t \in 1 .. k + 1 : stop <= t => /\ last[t] = Part(P, Q, c[t - 1], m + 1)
                                                   /\ Hung(P, Q, c[t - 1], m + 1)}
<1>6. ASSUME NEW t \in 1 .. k + 1, t = k + 1 \/ t + 1 \in Good PROVE t \in Good
  <2> SUFFICES ASSUME stop <= t
               PROVE  last[t] = Part(P, Q, c[t - 1], m + 1) /\ Hung(P, Q, c[t - 1], m + 1)
    OBVIOUS
  <2>1. CASE t = k + 1
    <3>1. c[t - 1] = m /\ last[t] = Part(P, Q, m, m + 1)
      BY <1>1, <1>4, <2>1 DEF single
    <3>2. Hung(P, Q, m, m + 1)
      <4> SUFFICES ASSUME NEW j \in m .. m + 1 PROVE Below(P, Q, j, m + 1, m, j)
        BY DEF Hung
      <4>1. j = m \/ j = m + 1
        BY <1>1
      <4>2. Below(P, Q, m, m + 1, m, m) /\ Below(P, Q, m + 1, m + 1, m, m + 1)
        <5>1. m <= m + 1
          BY <1>1
        <5> QED BY <5>1, Trivially
      <4> QED BY <4>1, <4>2
    <3> QED BY <3>1, <3>2
  <2>2. CASE t # k + 1
    <3>1. t \in 1 .. k /\ t + 1 \in Good /\ stop < t + 1 /\ stop <= t + 1 /\ t + 1 \in 1 .. k + 1
          /\ (t + 1) - 1 = t
      BY <1>1, <1>4, <1>6, <2>2
    <3>2. last[t + 1] = Part(P, Q, c[t], m + 1) /\ Hung(P, Q, c[t], m + 1)
      BY <3>1
    <3> HIDE DEF Good
    <3>3. Violates(blocks[t], last[t + 1]) /\ last[t] = Joined(blocks[t], last[t + 1])
      <4>1. Violates(blocks[(t + 1) - 1], last[t + 1])
        BY <1>4, <3>1
      <4> QED BY <1>4, <2>2, <3>1, <4>1
    <3>4. blocks[t] = Part(P, Q, c[t - 1], c[t])
      BY <1>1, <3>1
    <3>5. /\ c[t - 1] \in 0 .. n /\ c[t] \in 0 .. n /\ c[t - 1] < c[t] /\ c[t - 1] <= c[t]
          /\ c[t] < m + 1 /\ c[t] <= m + 1
      <4>1. /\ c[t - 1] \in 0 .. n /\ c[t] \in 0 .. n /\ c[t - 1] < c[t] /\ c[t - 1] <= c[t]
            /\ c[t] <= m
        BY <1>5, <3>1
      <4> QED BY <1>1, <4>1
    <3>6. Violates(Part(P, Q, c[t - 1], c[t]), Part(P, Q, c[t], m + 1))
      BY <3>2, <3>3, <3>4
    <3>7. Below(P, Q, c[t], m + 1, c[t - 1], c[t])
      BY <3>5, <3>6, ViolatesIs
    <3>8. last[t] = Part(P, Q, c[t - 1], m + 1)
      <4>1. Joined(Part(P, Q, c[t - 1], c[t]), Part(P, Q, c[t], m + 1)) = Part(P, Q, c[t - 1], m + 1)
        BY <3>5, ViolatesIs
      <4> QED BY <3>2, <3>3, <3>4, <4>1
    <3>9. Hung(P, Q, c[t - 1], c[t])
      BY <3>1 DEF Chain, k
    <3>10. Hung(P, Q, c[t - 1], m + 1)
      BY <3>2, <3>5, <3>7, <3>9, PoolHangs
    <3> QED BY <3>8, <3>10
  <2> QED BY <2>1, <2>2
<1>7. 1 .. k + 1 \subseteq Good
  <2>1. k + 1 \in Nat
    BY <1>1
  <2> DEFINE kk == k + 1
  <2>2. \A t \in 1 .. kk : t = kk \/ t + 1 \in Good => t \in Good
    BY <1>6
  <2> HIDE DEF Good, kk
  <2>3. 1 .. kk \subseteq Good
    <3>1. kk \in Nat
      BY <2>1 DEF kk
    <3> QED BY <2>2, <3>1, DownTheRange
  <2> QED BY <2>3 DEF kk
<1>8. last[stop] = Part(P, Q, c[stop - 1], m + 1) /\ Hung(P, Q, c[stop - 1], m + 1)
  <2>1. stop \in Good /\ stop <= stop
    BY <1>1, <1>4, <1>7
  <2> QED BY <2>1
<1> HIDE DEF Good
<1> DEFINE d == [r \in 0 .. stop |-> IF r = stop THEN m + 1 ELSE c[r]]
<1>9. new \in Seq(Blocks) /\ Len(new) = stop
  <2>1. SubSeq(blocks, 1, stop - 1) \in Seq(Blocks) /\ Len(SubSeq(blocks, 1, stop - 1)) = stop - 1
    BY <1>1, <1>4 DEF k
  <2>2. last[stop] \in Blocks /\ stop \in Nat
    BY <1>1, <1>4
  <2> QED BY <1>3, <2>1, <2>2
<1>10. \A r \in 1 .. stop : new[r] = IF r = stop THEN last[stop] ELSE blocks[r]
  <2> TAKE r \in 1 .. stop
  <2> DEFINE kept == SubSeq(blocks, 1, stop - 1)
  <2>1. kept \in Seq(Blocks) /\ Len(kept) = stop - 1 /\ (r # stop => kept[r] = blocks[r])
    BY <1>1, <1>4 DEF k
  <2>2. stop \in Nat /\ r \in Nat /\ r <= stop
    BY <1>1, <1>4
  <2> HIDE DEF kept
  <2>3. Append(kept, last[stop])[r] = IF r = stop THEN last[stop] ELSE kept[r]
    BY <2>1, <2>2
  <2> QED BY <1>3, <2>1, <2>3 DEF kept
<1>11. \A r \in 0 .. stop - 1 : r \in 0 .. k /\ r \in 0 .. stop /\ d[r] = c[r] /\ c[r] \in 0 .. m /\ c[r] <= m
  <2> TAKE r \in 0 .. stop - 1
  <2>1. r \in 0 .. k /\ r \in 0 .. stop /\ r # stop
    BY <1>1, <1>4
  <2>2. c[r] \in 0 .. m
    BY <1>1, <2>1
  <2> QED BY <1>1, <2>1, <2>2
<1>12. d[stop] = m + 1 /\ stop \in Nat /\ stop - 1 \in 0 .. stop - 1
  BY <1>1, <1>4
<1> HIDE DEF d
<1>13. \A r \in 1 .. stop : r # stop => r \in 0 .. stop - 1 /\ r - 1 \in 0 .. stop - 1 /\ r \in 1 .. k
  BY <1>1, <1>4
<1>14. Cut(new, P, Q, d)
  <2>1. ASSUME NEW r \in 1 .. stop PROVE new[r] = Part(P, Q, d[r - 1], d[r])
    <3>1. CASE r = stop
      BY <1>8, <1>10, <1>11, <1>12, <3>1
    <3>2. CASE r # stop
      <4>1. d[r - 1] = c[r - 1] /\ d[r] = c[r] /\ new[r] = blocks[r]
        BY <1>10, <1>11, <1>13, <3>2
      <4> QED BY <1>1, <1>13, <3>2, <4>1
    <3> QED BY <3>1, <3>2
  <2> QED BY <1>9, <2>1 DEF Cut
<1>15. Chain(P, Q, d, stop, m + 1)
  <2>1. d \in [0 .. stop -> 0 .. m + 1]
    <3>1. \A r \in 0 .. stop : d[r] \in 0 .. m + 1
      <4> TAKE r \in 0 .. stop
      <4>1. r = stop \/ r \in 0 .. stop - 1
        BY <1>12
      <4>2. r # stop => d[r] \in 0 .. m
        BY <1>11, <4>1
      <4> QED BY <1>1, <1>12, <4>2
    <3>2. d = [r \in 0 .. stop |-> d[r]]
      BY DEF d
    <3> QED BY <3>1, <3>2
  <2>2. d[0] = 0
    <3>1. 0 \in 0 .. stop - 1
      BY <1>4, <1>12
    <3> QED BY <1>1, <1>11, <3>1
  <2>3. ASSUME NEW r \in 1 .. stop PROVE d[r - 1] < d[r] /\ Hung(P, Q, d[r - 1], d[r])
    <3>1. CASE r = stop
      <4>1. d[r - 1] = c[stop - 1] /\ c[stop - 1] <= m /\ c[stop - 1] \in 0 .. m
        BY <1>11, <1>12, <3>1
      <4> QED BY <1>1, <1>8, <1>12, <3>1, <4>1
    <3>2. CASE r # stop
      <4>1. d[r - 1] = c[r - 1] /\ d[r] = c[r] /\ r \in 1 .. k
        BY <1>11, <1>13, <3>2
      <4> QED BY <4>1 DEF Chain, k
    <3> QED BY <3>1, <3>2
  <2>4. ASSUME NEW r \in 1 .. stop - 1 PROVE Below(P, Q, d[r - 1], d[r], d[r], d[r + 1])
    <3>1. r \in 1 .. stop /\ r # stop /\ r \in 1 .. k
      BY <1>1, <1>4
    <3>2. d[r - 1] = c[r - 1] /\ d[r] = c[r]
      BY <1>11, <1>13, <3>1
    <3>3. CASE r = stop - 1
      <4>1. r + 1 = stop /\ stop # 1
        BY <1>12, <3>3
      <4>2. ~ Violates(Part(P, Q, c[r - 1], c[r]), Part(P, Q, c[r], m + 1))
        BY <1>1, <1>4, <1>8, <3>1, <3>3, <4>1
      <4>3. c[r - 1] \in 0 .. n /\ c[r] \in 0 .. n /\ c[r - 1] <= c[r] /\ c[r] <= m + 1
        <5>1. c[r - 1] \in 0 .. n /\ c[r] \in 0 .. n /\ c[r - 1] <= c[r] /\ c[r] <= m
          BY <1>5, <3>1
        <5> QED BY <1>1, <5>1
      <4>4. Below(P, Q, c[r - 1], c[r], c[r], m + 1)
        BY <4>2, <4>3, ViolatesIs
      <4> QED BY <1>12, <3>2, <4>1, <4>4
    <3>4. CASE r # stop - 1
      <4>1. r + 1 \in 0 .. stop - 1 /\ r \in 1 .. k - 1
        BY <1>1, <1>4, <3>4
      <4>2. d[r + 1] = c[r + 1]
        BY <1>11, <4>1
      <4> QED BY <3>2, <4>1, <4>2 DEF Chain, k
    <3> QED BY <3>3, <3>4
  <2>5. m + 1 \in Nat
    BY <1>1
  <2> QED BY <1>12, <2>1, <2>2, <2>3, <2>4, <2>5 DEF Chain
<1>16. Cut(new, P, Q, d) /\ Chain(P, Q, d, Len(new), m + 1)
  BY <1>9, <1>14, <1>15
<1> QED BY <1>16 DEF new, single

-----------------------------------------------------------------------------
(* Sums up to each place, and the fit of a sequence of bets.               *)

UpTo(f, n) == [j \in 0 .. n |-> SumFunctionOnSet(f, 1 .. j)]

LEMMA UpToIs ==
  ASSUME NEW n \in Nat, NEW f \in [1 .. n -> Nat]
  PROVE  /\ UpTo(f, n) \in [0 .. n -> Nat]
         /\ \A a \in 1 .. n : \A b \in a .. n :
              /\ SumFunctionOnSet(f, a .. b) \in Nat
              /\ f[b] <= SumFunctionOnSet(f, a .. b)
              /\ Rise(UpTo(f, n), a - 1, b) = SumFunctionOnSet(f, a .. b)
<1> DEFINE S(a, b) == SumFunctionOnSet(f, a .. b)
<1>2. ASSUME NEW a \in 1 .. n + 1, NEW b \in 0 .. n
      PROVE  S(a, b) \in Nat /\ (a <= b => f[b] <= S(a, b) /\ f[b] \in Nat)
  <2>1. IsFiniteSet(a .. b) /\ \A j \in a .. b : f[j] \in Nat
    <3>1. a \in Int /\ b \in Int /\ \A j \in a .. b : j \in 1 .. n
      OBVIOUS
    <3>2. IsFiniteSet(a .. b)
      BY <3>1, FS_Interval
    <3> QED BY <3>1, <3>2
  <2>2. SumFunctionOnSet(f, a .. b) \in Nat /\ \A x \in a .. b : f[x] <= SumFunctionOnSet(f, a .. b)
    BY <2>1, SumPositive
  <2>3. a <= b => b \in a .. b
    OBVIOUS
  <2> QED BY <2>1, <2>2, <2>3
<1>3. UpTo(f, n) \in [0 .. n -> Nat] /\ \A j \in 0 .. n : UpTo(f, n)[j] = S(1, j)
  <2>1. \A j \in 0 .. n : S(1, j) \in Nat
    BY <1>2
  <2> QED BY <2>1 DEF UpTo
<1>4. ASSUME NEW a \in 1 .. n, NEW b \in 1 .. n, a <= b
      PROVE  S(a, b) = S(a, b - 1) + f[b]
  <2>1. a .. b = (a .. b - 1) \cup {b} /\ b \notin a .. b - 1
    BY <1>4
  <2>2. IsFiniteSet(a .. b - 1) /\ \A j \in (a .. b - 1) \cup {b} : f[j] \in Int
    <3>1. a \in Int /\ b - 1 \in Int /\ \A j \in (a .. b - 1) \cup {b} : j \in 1 .. n
      OBVIOUS
    <3>2. IsFiniteSet(a .. b - 1)
      BY <3>1, FS_Interval
    <3> QED BY <3>1, <3>2
  <2>3. SumFunctionOnSet(f, (a .. b - 1) \cup {b}) = f[b] + SumFunctionOnSet(f, a .. b - 1)
    BY <2>1, <2>2, SumInsert
  <2>4. f[b] \in Int /\ SumFunctionOnSet(f, a .. b - 1) \in Int
    <3>1. b - 1 \in 0 .. n /\ a \in 1 .. n + 1
      OBVIOUS
    <3>2. S(a, b - 1) \in Nat
      BY <1>2, <3>1
    <3> QED BY <3>2
  <2>5. f[b] + SumFunctionOnSet(f, a .. b - 1) = SumFunctionOnSet(f, a .. b - 1) + f[b]
    BY <2>4
  <2>6. SumFunctionOnSet(f, a .. b) = SumFunctionOnSet(f, a .. b - 1) + f[b]
    <3>1. SumFunctionOnSet(f, a .. b) = f[b] + SumFunctionOnSet(f, a .. b - 1)
      BY <2>1, <2>3
    <3> QED BY <2>5, <3>1
  <2> QED BY <2>6
<1>5. ASSUME NEW a \in 1 .. n, NEW b \in a .. n PROVE S(1, b) = S(1, a - 1) + S(a, b)
  <2> DEFINE Good == {t \in 1 .. n : a <= t => S(1, t) = S(1, a - 1) + S(a, t)}
  <2>1. ASSUME NEW t \in 1 .. n, t = 1 \/ t - 1 \in Good PROVE t \in Good
    <3> SUFFICES ASSUME a <= t PROVE S(1, t) = S(1, a - 1) + S(a, t)
      OBVIOUS
    <3>1. S(a, t) = S(a, t - 1) + f[t] /\ S(1, t) = S(1, t - 1) + f[t]
      BY <1>4
    <3>2. S(a, t - 1) \in Nat /\ S(1, t - 1) \in Nat /\ f[t] \in Nat /\ S(1, a - 1) \in Nat
      <4>1. t - 1 \in 0 .. n /\ a - 1 \in 0 .. n /\ 1 \in 1 .. n + 1 /\ a \in 1 .. n + 1
        OBVIOUS
      <4> QED BY <1>2, <4>1
    <3>3. CASE a = t
      <4>1. a .. t - 1 = {}
        BY <3>3
      <4>2. S(a, t - 1) = 0
        BY <4>1, SumEmpty
      <4> HIDE DEF S
      <4> QED BY <3>1, <3>2, <3>3, <4>2
    <3>4. CASE a # t
      <4>1. t - 1 \in Good /\ a <= t - 1
        BY <2>1, <3>4
      <4>2. S(1, t - 1) = S(1, a - 1) + S(a, t - 1)
        BY <4>1
      <4> HIDE DEF S, Good
      <4> QED BY <3>1, <3>2, <4>2
    <3> QED BY <3>3, <3>4
  <2>2. 1 .. n \subseteq Good
    <3> HIDE DEF Good
    <3> QED BY <2>1, UpTheRange
  <2>3. b \in 1 .. n /\ a <= b
    OBVIOUS
  <2> QED BY <2>2, <2>3
<1>6. ASSUME NEW a \in 1 .. n, NEW b \in a .. n
      PROVE  /\ S(a, b) \in Nat /\ f[b] <= S(a, b)
             /\ Rise(UpTo(f, n), a - 1, b) = S(a, b)
  <2>1. a - 1 \in 0 .. n /\ b \in 0 .. n /\ a \in 1 .. n + 1 /\ a <= b /\ 1 \in 1 .. n + 1
    OBVIOUS
  <2>2. S(a, b) \in Nat /\ S(1, a - 1) \in Nat /\ f[b] <= S(a, b)
    BY <1>2, <2>1
  <2>3. S(1, b) = S(1, a - 1) + S(a, b)
    BY <1>5
  <2> HIDE DEF S
  <2> QED BY <1>3, <2>1, <2>2, <2>3 DEF Rise
<1> QED BY <1>3, <1>6

Gains(seq) == [j \in DOMAIN seq |-> seq[j].label * seq[j].weight]
BetWeights(seq) == [j \in DOMAIN seq |-> seq[j].weight]
GainsTo(seq) == UpTo(Gains(seq), Len(seq))
WeightsTo(seq) == UpTo(BetWeights(seq), Len(seq))

LEMMA BetSums ==
  ASSUME NEW seq \in Seq(Bets)
  PROVE  /\ Gains(seq) \in [1 .. Len(seq) -> Nat] /\ BetWeights(seq) \in [1 .. Len(seq) -> Nat \ {0}]
         /\ Sums(GainsTo(seq), WeightsTo(seq), Len(seq))
         /\ \A m \in 0 .. Len(seq) : m # Len(seq) =>
              /\ m + 1 \in 0 .. Len(seq) /\ m + 1 \in 1 .. Len(seq)
              /\ Single(seq[m + 1]) = Part(GainsTo(seq), WeightsTo(seq), m, m + 1)
<1> DEFINE n == Len(seq)
           f == Gains(seq)
           w == BetWeights(seq)
           P == GainsTo(seq)
           Q == WeightsTo(seq)
<1>1. n \in Nat /\ DOMAIN seq = 1 .. n /\ \A j \in 1 .. n : seq[j] \in Bets
  OBVIOUS
<1>2. \A j \in 1 .. n : seq[j].label * seq[j].weight \in Nat /\ seq[j].weight \in Nat \ {0}
  <2> TAKE j \in 1 .. n
  <2>1. seq[j].label \in {0, 1} /\ seq[j].weight \in Nat \ {0}
    BY <1>1, BetsAssumption
  <2> QED BY <2>1
<1>3. f \in [1 .. n -> Nat] /\ w \in [1 .. n -> Nat \ {0}] /\ w \in [1 .. n -> Nat]
  BY <1>1, <1>2 DEF Gains, BetWeights
<1>4. \A j \in 1 .. n : f[j] = seq[j].label * seq[j].weight /\ w[j] = seq[j].weight
  BY <1>1 DEF Gains, BetWeights
<1>5. P = UpTo(f, n) /\ Q = UpTo(w, n)
  BY DEF GainsTo, WeightsTo
<1> HIDE DEF n, f, w, P, Q
<1>6. /\ P \in [0 .. n -> Nat]
      /\ \A a \in 1 .. n : \A b \in a .. n :
           SumFunctionOnSet(f, a .. b) \in Nat /\ Rise(P, a - 1, b) = SumFunctionOnSet(f, a .. b)
  <2>1. /\ UpTo(f, n) \in [0 .. n -> Nat]
        /\ \A a \in 1 .. n : \A b \in a .. n :
             /\ SumFunctionOnSet(f, a .. b) \in Nat
             /\ f[b] <= SumFunctionOnSet(f, a .. b)
             /\ Rise(UpTo(f, n), a - 1, b) = SumFunctionOnSet(f, a .. b)
    BY <1>1, <1>3, UpToIs, Zenon
  <2> QED BY <1>5, <2>1
<1>7. /\ Q \in [0 .. n -> Nat]
      /\ \A a \in 1 .. n : \A b \in a .. n :
           /\ SumFunctionOnSet(w, a .. b) \in Nat /\ w[b] <= SumFunctionOnSet(w, a .. b)
           /\ Rise(Q, a - 1, b) = SumFunctionOnSet(w, a .. b)
  <2>1. /\ UpTo(w, n) \in [0 .. n -> Nat]
        /\ \A a \in 1 .. n : \A b \in a .. n :
             /\ SumFunctionOnSet(w, a .. b) \in Nat
             /\ w[b] <= SumFunctionOnSet(w, a .. b)
             /\ Rise(UpTo(w, n), a - 1, b) = SumFunctionOnSet(w, a .. b)
    BY <1>1, <1>3, UpToIs, Zenon
  <2> QED BY <1>5, <2>1
<1>8. ASSUME NEW i \in 0 .. n, NEW j \in 0 .. n, i < j PROVE P[i] <= P[j] /\ Q[i] < Q[j]
  <2>1. i + 1 \in 1 .. n /\ j \in i + 1 .. n /\ (i + 1) - 1 = i /\ j \in 1 .. n
    BY <1>1, <1>8
  <2>2. Rise(P, i, j) \in Nat
    <3>1. Rise(P, (i + 1) - 1, j) \in Nat
      BY <1>6, <2>1
    <3> QED BY <2>1, <3>1
  <2>3. Rise(Q, i, j) \in Nat /\ w[j] <= Rise(Q, i, j)
    <3>1. Rise(Q, (i + 1) - 1, j) \in Nat /\ w[j] <= Rise(Q, (i + 1) - 1, j)
      BY <1>7, <2>1
    <3> QED BY <2>1, <3>1
  <2>4. P[i] \in Nat /\ P[j] \in Nat /\ Q[i] \in Nat /\ Q[j] \in Nat /\ w[j] \in Nat \ {0}
    BY <1>3, <1>6, <1>7, <2>1
  <2> QED BY <2>2, <2>3, <2>4 DEF Rise
<1>9. Sums(P, Q, n)
  BY <1>1, <1>6, <1>7, <1>8 DEF Sums
<1>10. ASSUME NEW m \in 0 .. n, m # n
       PROVE  /\ m + 1 \in 0 .. n /\ m + 1 \in 1 .. n
              /\ Single(seq[m + 1]) = Part(P, Q, m, m + 1)
  <2> DEFINE j == m + 1
  <2>1. j \in 0 .. n /\ j \in 1 .. n /\ j \in j .. n /\ j - 1 = m /\ (m + 1) - m = 1
    BY <1>1, <1>10
  <2>2. j .. j = {j}
    BY <2>1
  <2>3. f[j] \in Int /\ w[j] \in Int
    BY <1>3, <2>1
  <2> HIDE DEF j
  <2>4. SumFunctionOnSet(f, j .. j) = f[j] /\ SumFunctionOnSet(w, j .. j) = w[j]
    BY <2>2, <2>3, SumOne
  <2>5. Rise(P, j - 1, j) = f[j] /\ Rise(Q, j - 1, j) = w[j]
    BY <1>6, <1>7, <2>1, <2>4
  <2>6. Part(P, Q, m, j) = Single(seq[j])
    <3>1. j - m = 1
      BY <2>1 DEF j
    <3> QED BY <1>4, <2>1, <2>5, <3>1 DEF Part, Single
  <2> QED BY <2>1, <2>6 DEF j
<1> QED BY <1>3, <1>9, <1>10 DEF n, f, w, P, Q

(* The blocks of the first i bets. *)
LEMMA PavaIs ==
  ASSUME NEW seq \in Seq(Bets)
  PROVE  \E c : /\ Cut(Pava(seq), GainsTo(seq), WeightsTo(seq), c)
                /\ Chain(GainsTo(seq), WeightsTo(seq), c, Len(Pava(seq)), Len(seq))
<1> DEFINE n == Len(seq)
           P == GainsTo(seq)
           Q == WeightsTo(seq)
           V == Seq(Blocks)
           Val(i, v) == Pool(IF i = 1 THEN <<>> ELSE v, Single(seq[i]))
           step == [iv \in (1 .. n) \X V |-> Val(iv[1], iv[2])]
           Eqn(a) == a = [i \in DOMAIN seq |-> Pool(IF i = 1 THEN <<>> ELSE a[i - 1], Single(seq[i]))]
           upto == CHOOSE a : Eqn(a)
           Chained(bs, i) == \E c : Cut(bs, P, Q, c) /\ Chain(P, Q, c, Len(bs), i)
<1>1. n \in Nat /\ DOMAIN seq = 1 .. n /\ <<>> \in V
  OBVIOUS
<1>2. Sums(P, Q, n)
  BY BetSums
<1>3. ASSUME NEW i \in 1 .. n
      PROVE  /\ Single(seq[i]) \in Blocks /\ Single(seq[i]) = Part(P, Q, i - 1, i)
             /\ i - 1 \in 0 .. n /\ (i - 1) + 1 = i /\ i \in 0 .. n
  <2>1. i - 1 \in 0 .. n /\ i - 1 # n /\ (i - 1) + 1 = i /\ i - 1 <= i /\ i \in 0 .. n /\ i <= i
    BY <1>1
  <2>2. Single(seq[(i - 1) + 1]) = Part(P, Q, i - 1, (i - 1) + 1)
    BY <2>1, BetSums
  <2>3. Single(seq[i]) = Part(P, Q, i - 1, i)
    BY <2>1, <2>2
  <2> HIDE DEF n, P, Q
  <2>4. Part(P, Q, i - 1, i) \in Blocks
    BY <1>2, <2>1, ViolatesIs
  <2> QED BY <2>1, <2>3, <2>4
<1>4. ASSUME NEW i \in 1 .. n, NEW v, i = 1 \/ v \in V PROVE Val(i, v) \in V
  <2> DEFINE b == IF i = 1 THEN <<>> ELSE v
  <2>1. b \in Seq(Blocks)
    BY <1>1, <1>4
  <2>2. Single(seq[i]) \in Blocks
    BY <1>3
  <2> HIDE DEF b
  <2>3. Pool(b, Single(seq[i])) \in Seq(Blocks)
    BY <2>1, <2>2, PoolType
  <2> QED BY <2>3 DEF b
<1>5. step \in [(1 .. n) \X V -> V]
  <2> HIDE DEF Val, V, n
  <2> QED BY <1>4
<1>6. PICK f : Recurs(f, n, V, <<>>, step)
  <2> HIDE DEF step, n, V
  <2> QED BY Zenon, <1>1, <1>5, RecursionExists
<1>7. ASSUME NEW i \in 1 .. n PROVE f[i] = Pool(IF i = 1 THEN <<>> ELSE f[i - 1], Single(seq[i]))
  <2> DEFINE v == IF i = 1 THEN <<>> ELSE f[i - 1]
  <2>1. v \in V
    <3>1. i # 1 => i - 1 \in 1 .. n
      BY <1>1
    <3> HIDE DEF V, n
    <3> QED BY <1>1, <1>6, <3>1 DEF Recurs
  <2>2. f[i] = Val(i, v)
    <3> HIDE DEF Val, V, n
    <3> QED BY <1>6, <2>1 DEF Recurs
  <2> QED BY <2>2
<1>8. Eqn(upto)
  <2>1. f = [i \in 1 .. n |-> f[i]]
    BY <1>6 DEF Recurs
  <2>2. Eqn(f)
    <3>1. f = [i \in 1 .. n |-> Pool(IF i = 1 THEN <<>> ELSE f[i - 1], Single(seq[i]))]
      <4> HIDE DEF n
      <4> QED BY <1>7, <2>1, Zenon
    <3> QED BY <1>1, <3>1, Zenon
  <2> HIDE DEF Eqn
  <2> QED BY <2>2
<1>9. Pava(seq) = IF seq = <<>> THEN <<>> ELSE upto[n]
  BY Zenon DEF Pava
<1> HIDE DEF upto
<1>10. \A i \in 1 .. n : upto[i] = Pool(IF i = 1 THEN <<>> ELSE upto[i - 1], Single(seq[i]))
  BY <1>1, <1>8
<1>11. Chained(<<>>, 0)
  <2> DEFINE c == [r \in 0 .. 0 |-> 0]
  <2>1. Cut(<<>>, P, Q, c)
    <3> HIDE DEF c, P, Q
    <3> QED BY DEF Cut
  <2>2. Chain(P, Q, c, 0, 0)
    <3> HIDE DEF P, Q
    <3>1. c \in [0 .. 0 -> 0 .. 0] /\ c[0] = 0
      OBVIOUS
    <3>2. 1 .. 0 = {} /\ 1 .. 0 - 1 = {}
      OBVIOUS
    <3> HIDE DEF c
    <3> QED BY <3>1, <3>2 DEF Chain
  <2>3. Len(<<>>) = 0
    OBVIOUS
  <2> HIDE DEF c, P, Q
  <2> QED BY <2>1, <2>2, <2>3
<1>12. ASSUME NEW i \in 1 .. n, NEW bs, Chained(bs, i - 1)
       PROVE  Chained(Pool(bs, Single(seq[i])), i)
  <2> HIDE DEF P, Q, n
  <2>1. /\ Single(seq[i]) = Part(P, Q, i - 1, (i - 1) + 1) /\ i - 1 \in 0 .. n
        /\ (i - 1) + 1 \in 0 .. n /\ (i - 1) + 1 = i
    BY <1>3
  <2>2. PICK c : Cut(bs, P, Q, c) /\ Chain(P, Q, c, Len(bs), i - 1)
    BY <1>12
  <2> DEFINE new == Pool(bs, Part(P, Q, i - 1, (i - 1) + 1))
  <2>3. \E d : Cut(new, P, Q, d) /\ Chain(P, Q, d, Len(new), (i - 1) + 1)
    BY <1>2, <2>1, <2>2, PoolChains
  <2> QED BY <2>1, <2>3
<1> HIDE DEF Chained
<1> DEFINE Good == {i \in 1 .. n : Chained(upto[i], i)}
<1>13. ASSUME NEW i \in 1 .. n, i = 1 \/ i - 1 \in Good PROVE i \in Good
  <2> DEFINE bs == IF i = 1 THEN <<>> ELSE upto[i - 1]
  <2>1. Chained(bs, i - 1)
    <3>1. CASE i = 1
      <4>1. i - 1 = 0 /\ bs = <<>>
        BY <3>1
      <4> QED BY <1>11, <4>1
    <3>2. CASE i # 1
      BY <1>13, <3>2
    <3> QED BY <3>1, <3>2
  <2>2. upto[i] = Pool(bs, Single(seq[i]))
    BY <1>10
  <2> HIDE DEF bs
  <2> QED BY <1>12, <2>1, <2>2
<1>14. 1 .. n \subseteq Good
  <2> HIDE DEF Good, n
  <2> QED BY <1>1, <1>13, UpTheRange
<1>15. Chained(Pava(seq), n)
  <2>1. CASE seq = <<>>
    <3>1. n = 0 /\ Pava(seq) = <<>>
      BY <1>9, <2>1
    <3> QED BY <1>11, <3>1
  <2>2. CASE seq # <<>>
    <3>1. n \in 1 .. n /\ Pava(seq) = upto[n]
      BY <1>9, <2>2
    <3> QED BY <1>14, <3>1
  <2> QED BY <2>1, <2>2
<1> QED BY <1>15 DEF Chained

LEMMA Shifted ==
  ASSUME NEW x \in Nat, NEW y \in Nat, NEW z \in Nat, x < z, z <= y
  PROVE  z - x \in 1 .. y - x
<1>1. z - x \in Int /\ y - x \in Int /\ 1 <= z - x /\ z - x <= y - x
  OBVIOUS
<1> QED BY <1>1

(* Pieces of one value each, one after the other.                          *)
Pieces(c, v, k) == [b \in 1 .. k |-> [i \in 1 .. c[b] - c[b - 1] |-> v[b]]]

LEMMA FlattenIs ==
  ASSUME NEW k \in Nat, NEW c \in [0 .. k -> Nat], c[0] = 0, \A r \in 1 .. k : c[r - 1] < c[r],
         NEW v \in [1 .. k -> Int]
  PROVE  LET flat == FlattenSeq(Pieces(c, v, k)) IN
         /\ flat \in Seq(Int) /\ Len(flat) = c[k]
         /\ \A r \in 1 .. k : \A i \in c[r - 1] + 1 .. c[r] : flat[i] = v[r]
<1> DEFINE V == Seq(Int)
           seqs == Pieces(c, v, k)
           Val(t, u) == IF t = 1 THEN seqs[t] ELSE u \o seqs[t]
           step == [tu \in (1 .. k) \X V |-> Val(tu[1], tu[2])]
           Eqn(a) == a = [i \in 1 .. Len(seqs) |-> IF i = 1 THEN seqs[i] ELSE a[i - 1] \o seqs[i]]
           flatten == CHOOSE a : Eqn(a)
<1>1. Len(seqs) = k /\ (k = 0 => seqs = <<>>)
  BY DEF Pieces
<1>2. ASSUME NEW t \in 1 .. k
      PROVE  /\ seqs[t] = [i \in 1 .. c[t] - c[t - 1] |-> v[t]]
             /\ seqs[t] \in V /\ Len(seqs[t]) = c[t] - c[t - 1]
             /\ \A i \in 1 .. c[t] - c[t - 1] : seqs[t][i] = v[t]
             /\ c[t] \in Nat /\ c[t - 1] \in Nat /\ c[t - 1] < c[t] /\ t - 1 \in 0 .. k
  <2>1. t - 1 \in 0 .. k /\ t \in 0 .. k
    OBVIOUS
  <2>2. c[t] \in Nat /\ c[t - 1] \in Nat /\ c[t - 1] < c[t] /\ v[t] \in Int
    BY <2>1
  <2>3. seqs[t] = [i \in 1 .. c[t] - c[t - 1] |-> v[t]]
    BY DEF Pieces
  <2> HIDE DEF seqs
  <2>4. c[t] - c[t - 1] \in Nat
    BY <2>2
  <2> QED BY <2>1, <2>2, <2>3, <2>4
<1> HIDE DEF seqs
<1>3. <<>> \in V /\ step \in [(1 .. k) \X V -> V]
  <2>1. ASSUME NEW t \in 1 .. k, NEW u \in V PROVE Val(t, u) \in V
    <3>1. seqs[t] \in V
      BY <1>2
    <3> QED BY <3>1
  <2>2. <<>> \in V
    OBVIOUS
  <2> HIDE DEF Val, V
  <2> QED BY <2>1, <2>2
<1>4. PICK f : Recurs(f, k, V, <<>>, step)
  <2> HIDE DEF step, V
  <2> QED BY Zenon, <1>3, RecursionExists
<1>5. ASSUME NEW t \in 1 .. k PROVE f[t] = IF t = 1 THEN seqs[t] ELSE f[t - 1] \o seqs[t]
  <2> DEFINE u == IF t = 1 THEN <<>> ELSE f[t - 1]
  <2>1. u \in V
    <3>1. t # 1 => t - 1 \in 1 .. k
      OBVIOUS
    <3> HIDE DEF V
    <3> QED BY <1>3, <1>4, <3>1 DEF Recurs
  <2>2. f[t] = Val(t, u)
    <3> HIDE DEF Val, V
    <3> QED BY <1>4, <2>1 DEF Recurs
  <2> QED BY <2>2
<1>6. Eqn(flatten)
  <2>1. f = [i \in 1 .. k |-> f[i]]
    BY <1>4 DEF Recurs
  <2>2. f = [i \in 1 .. k |-> IF i = 1 THEN seqs[i] ELSE f[i - 1] \o seqs[i]]
    BY <1>5, <2>1, Zenon
  <2>3. Eqn(f)
    BY <1>1, <2>2, Zenon
  <2> HIDE DEF Eqn
  <2> QED BY <2>3
<1>7. FlattenSeq(seqs) = IF Len(seqs) = 0 THEN seqs ELSE flatten[Len(seqs)]
  BY Zenon DEF FlattenSeq
<1> HIDE DEF flatten
<1>8. \A t \in 1 .. k : flatten[t] = IF t = 1 THEN seqs[t] ELSE flatten[t - 1] \o seqs[t]
  BY <1>1, <1>6
<1> DEFINE Flat(g, t) == /\ g \in Seq(Int) /\ Len(g) = c[t]
                         /\ \A r \in 1 .. t : \A i \in c[r - 1] + 1 .. c[r] : g[i] = v[r]
           Good == {t \in 1 .. k : Flat(flatten[t], t)}
<1>9. ASSUME NEW t \in 1 .. k, t = 1 \/ t - 1 \in Good PROVE t \in Good
  <2>1. CASE t = 1
    <3>1. flatten[t] = seqs[1] /\ c[1 - 1] = 0 /\ 1 \in 1 .. k
      BY <1>8, <2>1
    <3>2. /\ seqs[1] \in V /\ Len(seqs[1]) = c[1] - 0 /\ c[1] \in Nat
          /\ \A i \in 1 .. c[1] - 0 : seqs[1][i] = v[1]
      BY <1>2, <3>1
    <3>3. \A i \in 0 + 1 .. c[1] : i \in 1 .. c[1] - 0
      BY <3>2
    <3>4. c[1] - 0 = c[1]
      BY <3>2
    <3>5. Flat(seqs[1], 1)
      BY <3>1, <3>2, <3>3, <3>4
    <3> HIDE DEF Flat
    <3> QED BY <2>1, <3>1, <3>5
  <2>2. CASE t # 1
    <3> DEFINE g == flatten[t - 1]
               h == seqs[t]
    <3>1. t - 1 \in 1 .. k /\ Flat(g, t - 1)
      BY <1>9, <2>2
    <3>2. flatten[t] = g \o h
      BY <1>8, <2>2
    <3>3. /\ h \in Seq(Int) /\ Len(h) = c[t] - c[t - 1]
          /\ \A i \in 1 .. c[t] - c[t - 1] : h[i] = v[t]
          /\ c[t] \in Nat /\ c[t - 1] \in Nat /\ c[t - 1] < c[t]
      BY <1>2
    <3> HIDE DEF g, h
    <3>4. g \in Seq(Int) /\ Len(g) = c[t - 1]
          /\ \A r \in 1 .. t - 1 : \A i \in c[r - 1] + 1 .. c[r] : g[i] = v[r]
      BY <3>1
    <3>0. /\ g \in Seq(Int) /\ h \in Seq(Int)
          /\ Len(g) = c[t - 1] /\ Len(h) = c[t] - c[t - 1]
      BY <3>3, <3>4
    <3>9. c[t] \in Nat /\ c[t - 1] \in Nat /\ c[t - 1] < c[t]
      BY <3>3
    <3>5. g \o h \in Seq(Int) /\ Len(g \o h) = c[t]
      <4>1. g \o h \in Seq(Int) /\ Len(g \o h) = Len(g) + Len(h)
        <5>1. g \in Seq(Int) /\ h \in Seq(Int)
          BY <3>0
        <5> QED BY <5>1
      <4>2. c[t - 1] + (c[t] - c[t - 1]) = c[t]
        BY <3>9
      <4> QED BY <3>0, <4>1, <4>2
    <3>6. ASSUME NEW r \in 1 .. t, NEW i \in c[r - 1] + 1 .. c[r] PROVE (g \o h)[i] = v[r]
      <4>1. CASE r = t
        <5>1. i \in Nat /\ i > c[t - 1] /\ i <= c[t]
          BY <3>3, <4>1
        <5>2. (g \o h)[i] = h[i - c[t - 1]] /\ i - c[t - 1] \in 1 .. c[t] - c[t - 1]
          <6>1. i - c[t - 1] \in 1 .. c[t] - c[t - 1]
            <7>1. c[t - 1] < i
              BY <3>9, <5>1
            <7> QED BY <3>9, <5>1, <7>1, Shifted, Zenon
          <6>2. i \in Len(g) + 1 .. Len(g) + Len(h)
            <7>1. i \in c[t - 1] + 1 .. c[t - 1] + (c[t] - c[t - 1])
              BY <3>9, <5>1
            <7> QED BY <3>0, <7>1
          <6>3. g \in Seq(Int) /\ h \in Seq(Int)
            BY <3>0
          <6>4. (g \o h)[i] = h[i - Len(g)]
            BY <6>2, <6>3
          <6> QED BY <3>0, <6>1, <6>4
        <5> QED BY <3>3, <4>1, <5>2
      <4>2. CASE r # t
        <5>1. r \in 1 .. t - 1 /\ r \in 1 .. k /\ t - 1 \in 1 .. k /\ r <= t - 1
          BY <3>1, <4>2
        <5>2. g[i] = v[r]
          BY <3>4, <5>1
        <5>3. c[r] <= c[t - 1]
          <6> DEFINE Up == {x \in 1 .. k : r <= x => c[r] <= c[x]}
          <6>1. ASSUME NEW x \in 1 .. k, x = 1 \/ x - 1 \in Up PROVE x \in Up
            <7> SUFFICES ASSUME r <= x PROVE c[r] <= c[x]
              OBVIOUS
            <7>1. c[x - 1] \in Nat /\ c[x] \in Nat /\ c[x - 1] < c[x] /\ c[r] \in Nat
              BY <1>2, <5>1
            <7>2. CASE r = x
              BY <7>1, <7>2
            <7>3. CASE r # x
              <8>1. x - 1 \in Up /\ r <= x - 1
                BY <5>1, <6>1, <7>3
              <8>2. c[r] <= c[x - 1]
                BY <8>1
              <8> QED BY <7>1, <8>2
            <7> QED BY <7>2, <7>3
          <6>2. 1 .. k \subseteq Up
            <7> HIDE DEF Up
            <7> QED BY <6>1, UpTheRange
          <6> QED BY <5>1, <6>2
        <5>4. c[r - 1] \in Nat /\ c[r] \in Nat
          BY <1>2, <5>1
        <5>5. i \in Nat /\ i >= 1 /\ i <= c[r]
          BY <5>4
        <5>6. c[t - 1] \in Nat
          BY <3>3
        <5>7. i \in 1 .. Len(g)
          BY <3>4, <5>3, <5>4, <5>5, <5>6
        <5>8. (g \o h)[i] = g[i]
          BY <3>3, <3>4, <5>7
        <5> QED BY <5>2, <5>8
      <4> QED BY <4>1, <4>2
    <3>7. Flat(g \o h, t)
      BY <3>5, <3>6
    <3> HIDE DEF Flat
    <3> QED BY <3>2, <3>7
  <2> QED BY <2>1, <2>2
<1>10. 1 .. k \subseteq Good
  <2> HIDE DEF Good
  <2> QED BY <1>9, UpTheRange
<1>11. Flat(FlattenSeq(seqs), k)
  <2>1. CASE k = 0
    <3>1. FlattenSeq(seqs) = <<>>
      BY <1>1, <1>7, <2>1 DEF seqs
    <3>2. Flat(<<>>, 0)
      OBVIOUS
    <3> HIDE DEF Flat
    <3> QED BY <2>1, <3>1, <3>2
  <2>2. CASE k # 0
    <3>1. FlattenSeq(seqs) = flatten[k] /\ k \in 1 .. k
      BY <1>1, <1>7, <2>2
    <3> HIDE DEF Flat
    <3> QED BY <1>10, <3>1
  <2> QED BY <2>1, <2>2
<1> QED BY <1>11 DEF seqs

(* Orders of means carry over to their multiples of 1 / Scale. *)
LEMMA FloorOrder ==
  ASSUME NEW p \in Nat, NEW q \in Nat \ {0}, NEW r \in Nat, NEW s \in Nat \ {0}, NEW k \in Nat,
         p * s <= r * q
  PROVE  (p * k) \div q <= (r * k) \div s
<1> DEFINE a == p * k
           b == r * k
           x == a \div q
<1>1. a \in Nat /\ b \in Nat
  OBVIOUS
<1>2. a * s <= b * q
  <2>1. (p * s) * k <= (r * q) * k
    <3>1. p * s \in Int /\ r * q \in Int
      OBVIOUS
    <3> QED BY <3>1, TimesMonotone
  <2>2. (p * s) * k = (p * k) * s /\ (r * q) * k = (r * k) * q
    OBVIOUS
  <2> QED BY <2>1, <2>2
<1> HIDE DEF a, b
<1>3. x \in Nat /\ x * q <= a
  BY <1>1, DivIs
<1> HIDE DEF x
<1>4. (x * s) * q <= b * q
  <2>1. (x * q) * s <= a * s
    <3>1. x * q \in Int
      BY <1>3
    <3> QED BY <1>1, <1>3, <3>1, TimesMonotone
  <2>2. (x * q) * s = (x * s) * q /\ (x * s) * q \in Int /\ a * s \in Int /\ b * q \in Int
    BY <1>1, <1>3
  <2> QED BY <1>2, <2>1, <2>2
<1>5. x * s <= b
  <2>1. x * s \in Int
    BY <1>3
  <2> QED BY <1>1, <1>4, <2>1, Cancel
<1>6. x <= b \div s
  BY <1>1, <1>3, <1>5, DivIs
<1> QED BY <1>6 DEF x, a, b

(* The mean over the places after a up to b, in multiples of 1 / Scale. *)
MeanOf(seq, a, b) ==
  (Rise(GainsTo(seq), a, b) * Scale) \div Rise(WeightsTo(seq), a, b)

LEMMA MeanOrder ==
  ASSUME NEW seq \in Seq(Bets), NEW a \in 0 .. Len(seq), NEW b \in 0 .. Len(seq), a < b,
         NEW d \in 0 .. Len(seq), NEW e \in 0 .. Len(seq), d < e
  PROVE  /\ MeanOf(seq, a, b) \in Nat
         /\ Below(GainsTo(seq), WeightsTo(seq), a, b, d, e) => MeanOf(seq, a, b) <= MeanOf(seq, d, e)
<1> DEFINE P == GainsTo(seq)
           Q == WeightsTo(seq)
           p == Rise(P, a, b)
           q == Rise(Q, a, b)
           r == Rise(P, d, e)
           s == Rise(Q, d, e)
<1>1. p \in Nat /\ q \in Nat \ {0} /\ r \in Nat /\ s \in Nat \ {0}
  <2>1. Sums(P, Q, Len(seq)) /\ a <= b /\ d <= e
    BY BetSums
  <2> HIDE DEF P, Q
  <2> QED BY <2>1, RiseIs
<1>2. Scale \in Nat
  BY DecisionAssumption
<1>3. MeanOf(seq, a, b) = (p * Scale) \div q /\ MeanOf(seq, d, e) = (r * Scale) \div s
  BY DEF MeanOf
<1>4. Below(P, Q, a, b, d, e) => p * s <= r * q
  BY DEF Below
<1> HIDE DEF p, q, r, s
<1>5. (p * Scale) \div q \in Nat
  <2>1. p * Scale \in Nat
    BY <1>1, <1>2
  <2> QED BY <1>1, <2>1, DivIs
<1>6. p * s <= r * q => (p * Scale) \div q <= (r * Scale) \div s
  BY <1>1, <1>2, FloorOrder
<1> QED BY <1>3, <1>4, <1>5, <1>6

(* What _pava gives every place is the mean of the block it is in.         *)
LEMMA FittedIs ==
  ASSUME NEW seq \in Seq(Bets)
  PROVE  \E c, k :
           /\ Chain(GainsTo(seq), WeightsTo(seq), c, k, Len(seq))
           /\ Fitted(seq) \in Seq(Int) /\ Len(Fitted(seq)) = Len(seq)
           /\ \A r \in 1 .. k : \A i \in c[r - 1] + 1 .. c[r] : Fitted(seq)[i] = MeanOf(seq, c[r - 1], c[r])
<1> DEFINE n == Len(seq)
           P == GainsTo(seq)
           Q == WeightsTo(seq)
           blocks == Pava(seq)
           k == Len(blocks)
           value(b) == (blocks[b].sum * Scale) \div blocks[b].weight
<1>1. PICK c : Cut(blocks, P, Q, c) /\ Chain(P, Q, c, k, n)
  BY PavaIs
<1>2. Sums(P, Q, n) /\ n \in 0 .. n
  <2>1. n \in Nat
    OBVIOUS
  <2> QED BY <2>1, BetSums
<1> DEFINE v == [b \in 1 .. k |-> MeanOf(seq, c[b - 1], c[b])]
<1>3. Fitted(seq) = FlattenSeq([b \in DOMAIN blocks |-> [i \in 1 .. blocks[b].count |-> value(b)]])
  BY Zenon DEF Fitted
<1>4. k \in Nat /\ DOMAIN blocks = 1 .. k
      /\ \A b \in 1 .. k : blocks[b] = Part(P, Q, c[b - 1], c[b])
  BY <1>1 DEF Cut
<1>5. \A b \in 1 .. k : blocks[b].count = c[b] - c[b - 1] /\ value(b) = v[b]
  <2> TAKE b \in 1 .. k
  <2>1. /\ blocks[b].sum = Rise(P, c[b - 1], c[b]) /\ blocks[b].weight = Rise(Q, c[b - 1], c[b])
        /\ blocks[b].count = c[b] - c[b - 1]
    <3>1. blocks[b] = Part(P, Q, c[b - 1], c[b])
      BY <1>4
    <3> HIDE DEF blocks, P, Q
    <3> QED BY <3>1 DEF Part
  <2>2. v[b] = MeanOf(seq, c[b - 1], c[b])
    OBVIOUS
  <2> QED BY <2>1, <2>2, Zenon DEF MeanOf
<1>6. [b \in DOMAIN blocks |-> [i \in 1 .. blocks[b].count |-> value(b)]] = Pieces(c, v, k)
  <2> HIDE DEF v, blocks, value, k
  <2>1. \A b \in 1 .. k : [i \in 1 .. blocks[b].count |-> value(b)] = [i \in 1 .. c[b] - c[b - 1] |-> v[b]]
    BY <1>5, Zenon
  <2> QED BY <1>4, <2>1, Zenon DEF Pieces
<1>7. /\ c \in [0 .. k -> Nat] /\ c[0] = 0 /\ c[k] = n
      /\ \A r \in 1 .. k : c[r - 1] < c[r] /\ c[r - 1] \in 0 .. n /\ c[r] \in 0 .. n
  <2>1. c \in [0 .. k -> 0 .. n] /\ c[0] = 0 /\ c[k] = n
    BY <1>1 DEF Chain
  <2>2. \A r \in 1 .. k : c[r - 1] < c[r] /\ c[r - 1] \in 0 .. n /\ c[r] \in 0 .. n
    <3> HIDE DEF P, Q, k, n
    <3> QED BY <1>1, <1>2, CornersAre
  <2>3. n \in Nat
    OBVIOUS
  <2> HIDE DEF k, n
  <2> QED BY <2>1, <2>2, <2>3
<1>8. v \in [1 .. k -> Int]
  <2>1. \A b \in 1 .. k : MeanOf(seq, c[b - 1], c[b]) \in Nat
    BY <1>7, MeanOrder
  <2> HIDE DEF k
  <2> QED BY <2>1
<1> HIDE DEF v, k, n, blocks, value
<1> DEFINE flat == FlattenSeq(Pieces(c, v, k))
<1>9. /\ flat \in Seq(Int) /\ Len(flat) = c[k]
      /\ \A r \in 1 .. k : \A i \in c[r - 1] + 1 .. c[r] : flat[i] = v[r]
  <2>1. \A r \in 1 .. k : c[r - 1] < c[r]
    BY <1>7
  <2> QED BY <1>4, <1>7, <1>8, <2>1, FlattenIs, Zenon
<1>10. Fitted(seq) = flat
  BY <1>3, <1>6
<1> HIDE DEF flat
<1>11. \A r \in 1 .. k : v[r] = MeanOf(seq, c[r - 1], c[r])
  BY DEF v
<1>12. /\ Chain(P, Q, c, k, n)
       /\ Fitted(seq) \in Seq(Int) /\ Len(Fitted(seq)) = n
       /\ \A r \in 1 .. k : \A i \in c[r - 1] + 1 .. c[r] :
            Fitted(seq)[i] = MeanOf(seq, c[r - 1], c[r])
  BY <1>1, <1>7, <1>9, <1>10, <1>11
<1> QED BY <1>12 DEF n

(* The lowest mean from a on that covers place i. *)
LowestMean(seq, a, i) == Min({MeanOf(seq, a - 1, b) : b \in i .. Len(seq)})

LEMMA MaxMinIs ==
  ASSUME NEW seq \in Seq(Bets), NEW i \in 1 .. Len(seq)
  PROVE  MaxMin(seq, i) = Max({LowestMean(seq, a, i) : a \in 1 .. i})
<1> DEFINE n == Len(seq)
           f == Gains(seq)
           w == BetWeights(seq)
           mean(a, b) == (SumFunctionOnSet(f, a .. b) * Scale) \div SumFunctionOnSet(w, a .. b)
<1>1. MaxMin(seq, i) = Max({Min({mean(a, b) : b \in i .. n}) : a \in 1 .. i})
  BY Zenon DEF MaxMin, Gains, BetWeights
<1>2. ASSUME NEW a \in 1 .. i PROVE Min({mean(a, b) : b \in i .. n}) = LowestMean(seq, a, i)
  <2>1. ASSUME NEW b \in i .. n PROVE mean(a, b) = MeanOf(seq, a - 1, b)
    <3>1. n \in Nat /\ a \in 1 .. n /\ b \in a .. n
      OBVIOUS
    <3>2. f \in [1 .. n -> Nat] /\ w \in [1 .. n -> Nat]
      BY BetSums
    <3>3. Rise(UpTo(f, n), a - 1, b) = SumFunctionOnSet(f, a .. b)
      <4> HIDE DEF f, n
      <4> QED BY <3>1, <3>2, UpToIs
    <3>4. Rise(UpTo(w, n), a - 1, b) = SumFunctionOnSet(w, a .. b)
      <4> HIDE DEF w, n
      <4> QED BY <3>1, <3>2, UpToIs
    <3> QED BY <3>3, <3>4, Zenon DEF MeanOf, GainsTo, WeightsTo
  <2> HIDE DEF mean, n
  <2>2. {mean(a, b) : b \in i .. n} = {MeanOf(seq, a - 1, b) : b \in i .. n}
    BY <2>1
  <2> QED BY <2>2 DEF LowestMean, n
<1> HIDE DEF mean, n
<1>3. {Min({mean(a, b) : b \in i .. n}) : a \in 1 .. i} = {LowestMean(seq, a, i) : a \in 1 .. i}
  BY <1>2
<1> QED BY <1>1, <1>3

LEMMA FitIsMaxMin ==
  ASSUME NEW seq \in Seq(Bets), NEW i \in 1 .. Len(seq)
  PROVE  Fitted(seq)[i] = MaxMin(seq, i)
<1> DEFINE n == Len(seq)
           P == GainsTo(seq)
           Q == WeightsTo(seq)
<1>1. n \in Nat /\ n \in 0 .. n /\ Sums(P, Q, n) /\ i \in 1 .. n
  BY BetSums
<1>2. PICK c, k :
        /\ Chain(P, Q, c, k, n)
        /\ \A r \in 1 .. k : \A j \in c[r - 1] + 1 .. c[r] : Fitted(seq)[j] = MeanOf(seq, c[r - 1], c[r])
  BY FittedIs
<1> HIDE DEF P, Q, n
<1>3. PICK r \in 1 .. k : c[r - 1] < i /\ i <= c[r]
  BY <1>1, <1>2, BlockOf
<1> DEFINE x == c[r - 1]
           y == c[r]
           v == MeanOf(seq, x, y)
<1>4. x \in 0 .. n /\ y \in 0 .. n /\ x < y /\ x < i /\ i <= y
  BY <1>1, <1>2, <1>3, CornersAre
<1>5. Fitted(seq)[i] = v
  <2>1. i \in c[r - 1] + 1 .. c[r]
    BY <1>1, <1>4
  <2> QED BY <1>2, <2>1
<1>6. ASSUME NEW b \in i .. n PROVE v <= MeanOf(seq, x, b)
  <2>1. b \in 1 .. n /\ x < b /\ b \in 0 .. n
    BY <1>1, <1>4
  <2>2. Below(P, Q, x, y, x, b)
    BY <1>1, <1>2, <2>1, LowestFrom
  <2> HIDE DEF x, y
  <2>3. Below(P, Q, x, y, x, b) => MeanOf(seq, x, y) <= MeanOf(seq, x, b)
    BY <1>4, <2>1, MeanOrder DEF P, Q, n
  <2> QED BY <2>2, <2>3
<1>7. ASSUME NEW a \in 1 .. i PROVE MeanOf(seq, a - 1, y) <= v
  <2>1. a - 1 \in 0 .. n /\ a - 1 < y
    BY <1>1, <1>4
  <2>2. Below(P, Q, a - 1, y, x, y)
    BY <1>1, <1>2, <2>1, HighestTo
  <2> HIDE DEF x, y
  <2>3. Below(P, Q, a - 1, y, x, y) => MeanOf(seq, a - 1, y) <= MeanOf(seq, x, y)
    BY <1>4, <2>1, MeanOrder DEF P, Q, n
  <2> QED BY <2>2, <2>3
<1>8. v \in Nat
  <2> HIDE DEF x, y
  <2> QED BY <1>4, MeanOrder DEF n
<1>9. ASSUME NEW a \in 1 .. i
      PROVE  /\ LowestMean(seq, a, i) \in {MeanOf(seq, a - 1, b) : b \in i .. n}
             /\ \A b \in i .. n : LowestMean(seq, a, i) <= MeanOf(seq, a - 1, b)
             /\ LowestMean(seq, a, i) \in Nat
  <2> DEFINE S == {MeanOf(seq, a - 1, b) : b \in i .. n}
  <2>1. \A b \in i .. n : MeanOf(seq, a - 1, b) \in Nat
    <3> TAKE b \in i .. n
    <3>1. a - 1 \in 0 .. n /\ b \in 0 .. n /\ a - 1 < b
      BY <1>1
    <3> QED BY <3>1, MeanOrder DEF n
  <2>2. S \in SUBSET Nat /\ S # {}
    <3>1. n \in i .. n
      BY <1>1
    <3> QED BY <2>1, <3>1
  <2>3. LowestMean(seq, a, i) = Min(S)
    BY DEF LowestMean, n
  <2>4. Min(S) \in S /\ \A z \in S : Min(S) <= z
    <3> HIDE DEF S
    <3> QED BY <2>2, MinIs
  <2> QED BY <2>2, <2>3, <2>4
<1> HIDE DEF v
<1>10. ASSUME NEW a \in 1 .. i PROVE LowestMean(seq, a, i) \in 0 .. v
  <2>1. y \in i .. n
    BY <1>1, <1>4
  <2>2. LowestMean(seq, a, i) <= MeanOf(seq, a - 1, y) /\ LowestMean(seq, a, i) \in Nat
    BY <1>9, <2>1
  <2>3. MeanOf(seq, a - 1, y) \in Nat
    <3>1. a - 1 \in 0 .. n /\ a - 1 < y
      BY <1>1, <1>4
    <3> HIDE DEF x, y
    <3> QED BY <1>4, <3>1, MeanOrder DEF n
  <2>4. MeanOf(seq, a - 1, y) <= v
    BY <1>7
  <2> HIDE DEF x, y
  <2> QED BY <1>8, <2>2, <2>3, <2>4
<1>11. LowestMean(seq, x + 1, i) = v
  <2>1. x + 1 \in 1 .. i /\ (x + 1) - 1 = x
    BY <1>1, <1>4
  <2>2. PICK b \in i .. n : LowestMean(seq, x + 1, i) = MeanOf(seq, (x + 1) - 1, b)
    BY <1>9, <2>1
  <2>3. v <= LowestMean(seq, x + 1, i)
    BY <1>6, <2>1, <2>2
  <2>4. LowestMean(seq, x + 1, i) \in 0 .. v
    BY <1>10, <2>1
  <2> HIDE DEF x, y
  <2> QED BY <1>8, <2>3, <2>4
<1> DEFINE T == {LowestMean(seq, a, i) : a \in 1 .. i}
<1>12. T \in SUBSET (0 .. v) /\ v \in T
  <2>1. x + 1 \in 1 .. i
    BY <1>1, <1>4
  <2> HIDE DEF x, y
  <2> QED BY <1>10, <1>11, <2>1
<1> HIDE DEF T
<1>13. Max(T) \in T /\ \A z \in T : Max(T) >= z
  BY <1>8, <1>12, MaxIs
<1>14. Max(T) = v
  <2>1. Max(T) \in 0 .. v /\ Max(T) >= v
    BY <1>12, <1>13
  <2> QED BY <1>8, <2>1
<1>15. MaxMin(seq, i) = Max(T)
  BY MaxMinIs DEF T
<1> QED BY <1>5, <1>14, <1>15

(* Sorting by rank: who comes before i when 1 to n are ordered by s, and   *)
(* the k-th in that order.                                                 *)
Ahead(s, n, i) == {j \in 1 .. n : s[j] < s[i] \/ (s[j] = s[i] /\ j < i)}
InPlace(s, n, k) == CHOOSE i \in 1 .. n : Cardinality(Ahead(s, n, i)) = k - 1

LEMMA PlacesAre ==
  ASSUME NEW n \in Nat, NEW s \in [1 .. n -> Int]
  PROVE  /\ \A k \in 1 .. n : InPlace(s, n, k) \in 1 .. n
         /\ \A k, l \in 1 .. n : k < l => s[InPlace(s, n, k)] <= s[InPlace(s, n, l)]
         /\ \A i \in 1 .. n : \E k \in 1 .. n : InPlace(s, n, k) = i
<1> DEFINE rank == [i \in 1 .. n |-> Cardinality(Ahead(s, n, i))]
<1>1. ASSUME NEW i \in 1 .. n
      PROVE  /\ Ahead(s, n, i) \subseteq 1 .. n /\ i \notin Ahead(s, n, i)
             /\ IsFiniteSet(Ahead(s, n, i)) /\ rank[i] \in Nat /\ rank[i] < n
  <2>1. Ahead(s, n, i) \subseteq 1 .. n
    BY DEF Ahead
  <2>2. IsFiniteSet(1 .. n) /\ Cardinality(1 .. n) = n
    BY FS_Interval
  <2>3. i \notin Ahead(s, n, i)
    <3>1. s[i] \in Int /\ i \in Int
      OBVIOUS
    <3>2. ~ (s[i] < s[i]) /\ ~ (i < i)
      BY <3>1
    <3> QED BY <3>2 DEF Ahead
  <2>4. /\ IsFiniteSet(Ahead(s, n, i)) /\ Cardinality(Ahead(s, n, i)) \in Nat
        /\ Cardinality(Ahead(s, n, i)) <= n
        /\ Cardinality(Ahead(s, n, i)) = n => Ahead(s, n, i) = 1 .. n
    <3>1. Ahead(s, n, i) \in SUBSET (1 .. n)
      BY <2>1
    <3>2. /\ IsFiniteSet(Ahead(s, n, i)) /\ Cardinality(Ahead(s, n, i)) <= Cardinality(1 .. n)
          /\ Cardinality(1 .. n) = Cardinality(Ahead(s, n, i)) => 1 .. n = Ahead(s, n, i)
      BY <2>2, <3>1, FS_Subset, Zenon
    <3>3. Cardinality(Ahead(s, n, i)) \in Nat
      BY <3>2, FS_CardinalityType
    <3> QED BY <2>2, <3>2, <3>3
  <2>5. Cardinality(Ahead(s, n, i)) # n
    BY <2>3, <2>4
  <2>6. rank[i] = Cardinality(Ahead(s, n, i))
    OBVIOUS
  <2> HIDE DEF rank
  <2> QED BY <2>1, <2>3, <2>4, <2>5, <2>6
<1>2. ASSUME NEW i \in 1 .. n, NEW j \in 1 .. n, j \in Ahead(s, n, i) PROVE rank[j] < rank[i]
  <2>1. Ahead(s, n, j) \subseteq Ahead(s, n, i)
    <3> SUFFICES ASSUME NEW h \in Ahead(s, n, j) PROVE h \in Ahead(s, n, i)
      OBVIOUS
    <3>1. h \in 1 .. n /\ (s[h] < s[j] \/ (s[h] = s[j] /\ h < j))
      BY DEF Ahead
    <3>2. s[j] < s[i] \/ (s[j] = s[i] /\ j < i)
      BY <1>2 DEF Ahead
    <3>3. s[h] \in Int /\ s[i] \in Int /\ s[j] \in Int /\ h \in Int /\ i \in Int /\ j \in Int
      BY <3>1
    <3>4. s[h] < s[i] \/ (s[h] = s[i] /\ h < i)
      BY <3>1, <3>2, <3>3
    <3> QED BY <3>1, <3>4 DEF Ahead
  <2>2. /\ Cardinality(Ahead(s, n, j)) <= Cardinality(Ahead(s, n, i))
        /\ Cardinality(Ahead(s, n, i)) = Cardinality(Ahead(s, n, j)) => Ahead(s, n, i) = Ahead(s, n, j)
    <3>1. IsFiniteSet(Ahead(s, n, i)) /\ Ahead(s, n, j) \in SUBSET Ahead(s, n, i)
      BY <1>1, <2>1
    <3> QED BY <3>1, FS_Subset, Zenon
  <2>3. Ahead(s, n, i) # Ahead(s, n, j)
    BY <1>1, <1>2
  <2>4. rank[i] = Cardinality(Ahead(s, n, i)) /\ rank[j] = Cardinality(Ahead(s, n, j))
    OBVIOUS
  <2>5. rank[i] \in Nat /\ rank[j] \in Nat
    BY <1>1
  <2> HIDE DEF rank
  <2> QED BY <2>2, <2>3, <2>4, <2>5
<1>3. \A i, j \in 1 .. n : i = j \/ i \in Ahead(s, n, j) \/ j \in Ahead(s, n, i)
  <2> SUFFICES ASSUME NEW i \in 1 .. n, NEW j \in 1 .. n
               PROVE  i = j \/ i \in Ahead(s, n, j) \/ j \in Ahead(s, n, i)
    OBVIOUS
  <2>1. s[i] \in Int /\ s[j] \in Int /\ i \in Int /\ j \in Int
    OBVIOUS
  <2>2. i = j \/ s[i] < s[j] \/ (s[i] = s[j] /\ i < j) \/ s[j] < s[i] \/ (s[j] = s[i] /\ j < i)
    BY <2>1
  <2> QED BY <2>2 DEF Ahead
<1> DEFINE R == 0 .. n - 1
<1>4. rank \in [1 .. n -> R]
  <2>1. \A i \in 1 .. n : rank[i] \in R
    <3> TAKE i \in 1 .. n
    <3>1. rank[i] \in Nat /\ rank[i] < n
      BY <1>1
    <3> HIDE DEF rank
    <3> QED BY <3>1
  <2>2. rank = [i \in 1 .. n |-> rank[i]]
    OBVIOUS
  <2> HIDE DEF rank, R
  <2> QED BY <2>1, <2>2
<1> HIDE DEF rank
<1>5. \A i, j \in 1 .. n : rank[i] = rank[j] => i = j
  <2> SUFFICES ASSUME NEW i \in 1 .. n, NEW j \in 1 .. n, rank[i] = rank[j], i # j PROVE FALSE
    OBVIOUS
  <2>1. rank[i] < rank[j] \/ rank[j] < rank[i]
    BY <1>2, <1>3
  <2>2. rank[i] \in Nat
    BY <1>1
  <2> QED BY <2>1, <2>2
<1>6. \A r \in R : \E i \in 1 .. n : rank[i] = r
  <2>1. rank \in Injection(1 .. n, R)
    <3>1. DOMAIN rank = 1 .. n
      BY <1>4
    <3> HIDE DEF R
    <3> QED BY <1>4, <1>5, <3>1 DEF Injection, IsInjective
  <2>2. IsFiniteSet(R) /\ Cardinality(R) = n
    <3>1. /\ IsFiniteSet(0 .. n - 1)
          /\ Cardinality(0 .. n - 1) = IF 0 > n - 1 THEN 0 ELSE (n - 1) - 0 + 1
      BY FS_Interval
    <3> QED BY <3>1
  <2>3. Cardinality(1 .. n) = n
    <3>1. Cardinality(1 .. n) = IF 1 > n THEN 0 ELSE n - 1 + 1
      BY FS_Interval
    <3> QED BY <3>1
  <2>4. rank \in Surjection(1 .. n, R)
    <3>1. Cardinality(1 .. n) = Cardinality(R) <=> rank \in Surjection(1 .. n, R)
      BY <2>1, <2>2, FS_Injection
    <3> QED BY <2>2, <2>3, <3>1
  <2> HIDE DEF R
  <2> QED BY <2>4 DEF Surjection
<1>7. ASSUME NEW k \in 1 .. n
      PROVE  InPlace(s, n, k) \in 1 .. n /\ rank[InPlace(s, n, k)] = k - 1
  <2>1. k - 1 \in R
    OBVIOUS
  <2>2. PICK i \in 1 .. n : rank[i] = k - 1
    BY <1>6, <2>1
  <2>3. \A j \in 1 .. n : rank[j] = Cardinality(Ahead(s, n, j))
    BY DEF rank
  <2>4. \E j \in 1 .. n : Cardinality(Ahead(s, n, j)) = k - 1
    BY <2>2, <2>3
  <2>5. InPlace(s, n, k) \in 1 .. n /\ Cardinality(Ahead(s, n, InPlace(s, n, k))) = k - 1
    BY <2>4, Zenon DEF InPlace
  <2> QED BY <2>3, <2>5
<1>8. ASSUME NEW k \in 1 .. n, NEW l \in 1 .. n, k < l
      PROVE  s[InPlace(s, n, k)] <= s[InPlace(s, n, l)]
  <2> DEFINE i == InPlace(s, n, k)
             j == InPlace(s, n, l)
  <2>1. i \in 1 .. n /\ rank[i] = k - 1 /\ j \in 1 .. n /\ rank[j] = l - 1
    BY <1>7
  <2> HIDE DEF i, j
  <2>2. ~ (j \in Ahead(s, n, i)) /\ i # j
    <3>1. ~ (rank[j] < rank[i]) /\ rank[i] # rank[j]
      BY <1>8, <2>1
    <3> QED BY <1>2, <2>1, <3>1
  <2>3. i \in Ahead(s, n, j)
    BY <1>3, <2>1, <2>2
  <2>4. s[i] < s[j] \/ s[i] = s[j]
    BY <2>3 DEF Ahead
  <2>5. s[i] \in Int /\ s[j] \in Int
    BY <2>1
  <2>6. s[i] <= s[j]
    BY <2>4, <2>5
  <2> QED BY <2>6 DEF i, j
<1>9. ASSUME NEW i \in 1 .. n PROVE \E k \in 1 .. n : InPlace(s, n, k) = i
  <2>1. rank[i] \in Nat /\ rank[i] < n
    BY <1>1
  <2>2. rank[i] + 1 \in 1 .. n /\ (rank[i] + 1) - 1 = rank[i]
    BY <2>1
  <2>3. InPlace(s, n, rank[i] + 1) \in 1 .. n /\ rank[InPlace(s, n, rank[i] + 1)] = rank[i]
    BY <1>7, <2>2
  <2>4. InPlace(s, n, rank[i] + 1) = i
    BY <1>5, <2>3
  <2> QED BY <2>2, <2>4
<1> QED BY <1>7, <1>8, <1>9

LEMMA SortedIs ==
  ASSUME NEW seq \in Seq(Bets)
  PROVE  /\ Sorted(seq) \in Seq(Bets) /\ Len(Sorted(seq)) = Len(seq)
         /\ \A i \in 1 .. Len(seq) : seq[i].score \in Int /\ Sorted(seq)[i].score \in Int
         /\ \A i, j \in 1 .. Len(seq) : i < j => Sorted(seq)[i].score <= Sorted(seq)[j].score
         /\ \A i \in 1 .. Len(seq) : \E k \in 1 .. Len(seq) : Sorted(seq)[k] = seq[i]
         /\ \A i \in 1 .. Len(seq) : \E k \in 1 .. Len(seq) : Sorted(seq)[i] = seq[k]
<1> DEFINE n == Len(seq)
           s == [i \in 1 .. n |-> seq[i].score]
           before(i) == {j \in DOMAIN seq : \/ seq[j].score < seq[i].score
                                            \/ (seq[j].score = seq[i].score /\ j < i)}
           at(k) == CHOOSE i \in DOMAIN seq : Cardinality(before(i)) = k - 1
<1>1. n \in Nat /\ DOMAIN seq = 1 .. n /\ \A i \in 1 .. n : seq[i] \in Bets
  OBVIOUS
<1>2. Sorted(seq) = Tabulated([k \in DOMAIN seq |-> seq[at(k)]])
  BY Zenon DEF Sorted
<1>3. \A i \in 1 .. n : s[i] = seq[i].score /\ seq[i].score \in Int
  <2>1. \A b \in Bets : b.score \in Int
    BY BetsAssumption, DecisionAssumption
  <2> QED BY <1>1, <2>1
<1>4. s \in [1 .. n -> Int]
  BY <1>3
<1>5. \A i \in 1 .. n : before(i) = Ahead(s, n, i)
  <2> TAKE i \in 1 .. n
  <2>1. \A j \in 1 .. n : (seq[j].score < seq[i].score \/ (seq[j].score = seq[i].score /\ j < i))
                           <=> (s[j] < s[i] \/ (s[j] = s[i] /\ j < i))
    BY <1>3
  <2> HIDE DEF s, n
  <2> QED BY <1>1, <2>1, Zenon DEF Ahead
<1> HIDE DEF s, before
<1>6. \A k \in 1 .. n : at(k) = InPlace(s, n, k)
  <2> TAKE k \in 1 .. n
  <2>1. \A i : (i \in DOMAIN seq /\ Cardinality(before(i)) = k - 1)
                 <=> (i \in 1 .. n /\ Cardinality(Ahead(s, n, i)) = k - 1)
    BY <1>1, <1>5
  <2> QED BY <2>1, Zenon DEF InPlace
<1> HIDE DEF at
<1>7. /\ \A k \in 1 .. n : at(k) \in 1 .. n
      /\ \A k, l \in 1 .. n : k < l => s[at(k)] <= s[at(l)]
      /\ \A i \in 1 .. n : \E k \in 1 .. n : at(k) = i
  <2>1. /\ \A k \in 1 .. n : InPlace(s, n, k) \in 1 .. n
        /\ \A k, l \in 1 .. n : k < l => s[InPlace(s, n, k)] <= s[InPlace(s, n, l)]
        /\ \A i \in 1 .. n : \E k \in 1 .. n : InPlace(s, n, k) = i
    BY <1>1, <1>4, PlacesAre, Zenon
  <2> QED BY <1>6, <2>1, Zenon
<1>8. Sorted(seq) = [k \in 1 .. n |-> seq[at(k)]]
  BY <1>1, <1>2, TabulatedIs
<1>9. \A k \in 1 .. n : Sorted(seq)[k] = seq[at(k)] /\ at(k) \in 1 .. n /\ seq[at(k)] \in Bets
  BY <1>1, <1>7, <1>8
<1>10. Sorted(seq) \in Seq(Bets) /\ Len(Sorted(seq)) = n
  <2> HIDE DEF n
  <2> QED BY <1>1, <1>8, <1>9
<1>11. \A i \in 1 .. n : Sorted(seq)[i].score = s[at(i)] /\ Sorted(seq)[i].score \in Int
  BY <1>3, <1>9
<1> HIDE DEF n
<1>12. \A i, j \in 1 .. n : i < j => Sorted(seq)[i].score <= Sorted(seq)[j].score
  BY <1>7, <1>11
<1>13. \A i \in 1 .. n : \E k \in 1 .. n : Sorted(seq)[k] = seq[i]
  <2> TAKE i \in 1 .. n
  <2>1. PICK k \in 1 .. n : at(k) = i
    BY <1>7
  <2> QED BY <1>9, <2>1
<1>14. \A i \in 1 .. n : \E k \in 1 .. n : Sorted(seq)[i] = seq[k]
  BY <1>9
<1> QED BY <1>3, <1>10, <1>11, <1>12, <1>13, <1>14, Zenon DEF n

(* What _pava gives never falls from one place to a later one.             *)
LEMMA FitRises ==
  ASSUME NEW seq \in Seq(Bets), NEW i \in 1 .. Len(seq), NEW j \in 1 .. Len(seq), i <= j
  PROVE  Fitted(seq)[i] \in Nat /\ Fitted(seq)[j] \in Nat /\ Fitted(seq)[i] <= Fitted(seq)[j]
<1> DEFINE n == Len(seq)
           P == GainsTo(seq)
           Q == WeightsTo(seq)
<1>1. n \in Nat /\ n \in 0 .. n /\ Sums(P, Q, n) /\ i \in 1 .. n /\ j \in 1 .. n
  BY BetSums
<1>2. PICK c, k :
        /\ Chain(P, Q, c, k, n)
        /\ \A r \in 1 .. k : \A h \in c[r - 1] + 1 .. c[r] : Fitted(seq)[h] = MeanOf(seq, c[r - 1], c[r])
  BY FittedIs
<1> HIDE DEF P, Q, n
<1>3. PICK r \in 1 .. k : c[r - 1] < i /\ i <= c[r]
  BY <1>1, <1>2, BlockOf
<1>4. PICK s \in 1 .. k : c[s - 1] < j /\ j <= c[s]
  BY <1>1, <1>2, BlockOf
<1> DEFINE x == c[r - 1]
           y == c[r]
           d == c[s - 1]
           e == c[s]
<1>5. /\ x \in 0 .. n /\ y \in 0 .. n /\ x < y /\ d \in 0 .. n /\ e \in 0 .. n /\ d < e
      /\ k \in Nat
  BY <1>1, <1>2, CornersAre
<1>6. Fitted(seq)[i] = MeanOf(seq, x, y) /\ Fitted(seq)[j] = MeanOf(seq, d, e)
  <2>1. i \in x + 1 .. y /\ j \in d + 1 .. e
    BY <1>1, <1>3, <1>4, <1>5
  <2> QED BY <1>2, <2>1
<1>7. r <= s
  <2> SUFFICES ASSUME ~ (r <= s) PROVE FALSE
    OBVIOUS
  <2>1. r - 1 \in 1 .. k /\ s \in 1 .. r - 1
    BY <1>5
  <2>2. c[s] <= c[r - 1]
    BY <1>1, <1>2, <2>1, CornersRise
  <2> QED BY <1>1, <1>3, <1>4, <1>5, <2>2
<1>8. Below(P, Q, x, y, d, e)
  <2>1. r \in 1 .. s
    BY <1>5, <1>7
  <2> QED BY <1>1, <1>2, <2>1, MeansRise
<1> HIDE DEF x, y, d, e
<1>9. /\ MeanOf(seq, x, y) \in Nat
      /\ Below(P, Q, x, y, d, e) => MeanOf(seq, x, y) <= MeanOf(seq, d, e)
  BY <1>5, MeanOrder DEF P, Q, n
<1>10. MeanOf(seq, d, e) \in Nat
  BY <1>5, MeanOrder DEF n
<1> QED BY <1>6, <1>8, <1>9, <1>10

(* Means of values that are all below others are not above their mean.     *)
LEMMA MeansBetween ==
  ASSUME NEW A, NEW B, IsFiniteSet(A), IsFiniteSet(B), A # {}, B # {}, NEW f,
         \A i \in A \cup B : f[i] \in Nat, \A i \in A : \A j \in B : f[i] <= f[j]
  PROVE  SumFunctionOnSet(f, A) \div Cardinality(A) <= SumFunctionOnSet(f, B) \div Cardinality(B)
<1> DEFINE V == {f[j] : j \in B}
           v == Min(V)
           a == Cardinality(A)
           b == Cardinality(B)
           s == SumFunctionOnSet(f, A)
           t == SumFunctionOnSet(f, B)
<1>1. V \in SUBSET Nat /\ V # {}
  OBVIOUS
<1>2. v \in V /\ \A z \in V : v <= z
  <2> HIDE DEF V
  <2> QED BY <1>1, MinIs
<1>3. v \in Nat /\ \A j \in B : v <= f[j]
  BY <1>1, <1>2
<1>4. \A i \in A : f[i] <= v
  BY <1>2
<1>5. a \in Nat \ {0} /\ b \in Nat \ {0}
  BY FS_CardinalityType, FS_EmptySet
<1>6. s \in Nat /\ t \in Nat
  BY SumPositive
<1> HIDE DEF v, V
<1>7. s <= v * a
  <2> DEFINE c == [i \in A |-> v]
  <2>1. \A i \in A : c[i] = v /\ c[i] \in Int /\ f[i] \in Int /\ f[i] <= c[i]
    BY <1>3, <1>4
  <2> HIDE DEF c
  <2>2. SumFunctionOnSet(c, A) = v * a
    BY <1>3, <2>1, SumConstant
  <2>3. s <= SumFunctionOnSet(c, A)
    BY <2>1, SumMonotone
  <2> QED BY <2>2, <2>3
<1>8. v * b <= t
  <2> DEFINE c == [i \in B |-> v]
  <2>1. \A i \in B : c[i] = v /\ c[i] \in Int /\ f[i] \in Int /\ c[i] <= f[i]
    BY <1>3
  <2> HIDE DEF c
  <2>2. SumFunctionOnSet(c, B) = v * b
    BY <1>3, <2>1, SumConstant
  <2>3. SumFunctionOnSet(c, B) <= t
    BY <2>1, SumMonotone
  <2> QED BY <2>2, <2>3
<1> HIDE DEF a, b, s, t
<1>9. s \div a <= v
  <2> DEFINE q == s \div a
  <2>1. q \in Nat /\ q * a <= s
    BY <1>5, <1>6, DivIs
  <2> HIDE DEF q
  <2>2. q * a \in Int /\ v * a \in Int
    BY <1>3, <1>5, <2>1
  <2>3. q * a <= v * a
    BY <1>6, <1>7, <2>1, <2>2
  <2>4. q <= v
    BY <1>3, <1>5, <2>1, <2>3, Cancel
  <2> QED BY <2>4 DEF q
<1>10. v <= t \div b /\ t \div b \in Nat
  BY <1>3, <1>5, <1>6, <1>8, DivIs
<1>11. s \div a \in Nat
  BY <1>5, <1>6, DivIs
<1>12. s \div a <= t \div b
  <2> DEFINE q == s \div a
             r == t \div b
  <2>1. q \in Nat /\ r \in Nat /\ q <= v /\ v <= r
    BY <1>9, <1>10, <1>11
  <2> HIDE DEF q, r
  <2>2. q <= r
    BY <1>3, <2>1
  <2> QED BY <2>2 DEF q, r
<1> QED BY <1>12 DEF a, b, s, t

GroupAt(seq, x) == {i \in DOMAIN seq : seq[i].score = x}

(* The calibrator never falls from one score to a higher one.              *)
Rising(cal) ==
  /\ IsFiniteSet(DOMAIN cal) /\ DOMAIN cal \subseteq Int
  /\ \A x \in DOMAIN cal : cal[x] \in Nat
  /\ \A x, y \in DOMAIN cal : x < y => cal[x] <= cal[y]

LEMMA CalibratorRises ==
  ASSUME NEW seq \in Seq(Bets)
  PROVE  Rising(Calibrator(seq)) /\ (seq # <<>> => DOMAIN Calibrator(seq) # {})
<1> DEFINE n == Len(seq)
           sorted == Sorted(seq)
           fitted == Fitted(sorted)
           at(x) == {i \in DOMAIN sorted : sorted[i].score = x}
           D == {seq[i].score : i \in DOMAIN seq}
           cal == Calibrator(seq)
<1>1. cal = Tabulated([x \in D |-> SumFunctionOnSet(fitted, at(x)) \div Cardinality(at(x))])
  BY Zenon DEF Calibrator
<1>2. cal = [x \in D |-> SumFunctionOnSet(fitted, at(x)) \div Cardinality(at(x))]
  BY <1>1, TabulatedIs, Zenon
<1>3. /\ n \in Nat /\ DOMAIN seq = 1 .. n
      /\ sorted \in Seq(Bets) /\ Len(sorted) = n
      /\ \A i \in 1 .. n : seq[i].score \in Int /\ sorted[i].score \in Int
      /\ \A i, j \in 1 .. n : i < j => sorted[i].score <= sorted[j].score
      /\ \A i \in 1 .. n : \E k \in 1 .. n : sorted[k] = seq[i]
  BY SortedIs
<1>13. seq # <<>> => D # {}
  <2> SUFFICES ASSUME seq # <<>> PROVE D # {}
    OBVIOUS
  <2>1. 1 \in DOMAIN seq
    OBVIOUS
  <2> QED BY <2>1
<1> HIDE DEF sorted, n, cal
<1>4. DOMAIN sorted = 1 .. n
  BY <1>3
<1>5. D \subseteq Int /\ IsFiniteSet(D)
  <2>1. D \subseteq Int
    BY <1>3
  <2>3. IsFiniteSet(1 .. n)
    <3>1. 1 \in Int /\ n \in Int
      BY <1>3
    <3> HIDE DEF D
    <3> QED BY <3>1, FS_Interval
  <2> DEFINE g == [i \in 1 .. n |-> seq[i].score]
  <2>2. g \in Surjection(1 .. n, D)
    BY <1>3 DEF Surjection
  <2> HIDE DEF g, D
  <2> QED BY <2>1, <2>2, <2>3, FS_Surjection
<1>6. ASSUME NEW x \in D
      PROVE  at(x) # {} /\ at(x) \subseteq 1 .. n /\ IsFiniteSet(at(x))
  <2>1. PICK i \in 1 .. n : seq[i].score = x
    BY <1>3
  <2>2. PICK k \in 1 .. n : sorted[k] = seq[i]
    BY <1>3
  <2>3. k \in at(x)
    BY <1>4, <2>1, <2>2
  <2>4. at(x) \subseteq 1 .. n
    BY <1>4
  <2>5. IsFiniteSet(1 .. n)
    BY <1>3, FS_Interval
  <2> HIDE DEF at
  <2> QED BY <2>3, <2>4, <2>5, FS_Subset
<1>7. ASSUME NEW i \in 1 .. n, NEW j \in 1 .. n, i <= j
      PROVE  fitted[i] \in Nat /\ fitted[i] <= fitted[j]
  BY <1>3, <1>7, FitRises
<1>8. \A i \in 1 .. n : fitted[i] \in Nat
  <2> TAKE i \in 1 .. n
  <2>1. i <= i
    BY <1>3
  <2> QED BY <1>7, <2>1
<1>9. ASSUME NEW x \in D, NEW y \in D, x < y, NEW i \in at(x), NEW j \in at(y)
      PROVE  fitted[i] <= fitted[j]
  <2>1. /\ i \in 1 .. n /\ j \in 1 .. n
        /\ sorted[i].score = x /\ sorted[j].score = y
    BY <1>4
  <2>2. x \in Int /\ y \in Int /\ i \in Int /\ j \in Int
    BY <1>5, <2>1
  <2>3. i <= j
    <3>1. ~ (j < i)
      <4>1. ~ (sorted[j].score <= sorted[i].score)
        BY <1>9, <2>1, <2>2
      <4> QED BY <1>3, <2>1, <4>1
    <3> QED BY <2>2, <3>1
  <2> QED BY <1>7, <2>1, <2>3
<1> HIDE DEF fitted, at
<1>10. ASSUME NEW x \in D PROVE SumFunctionOnSet(fitted, at(x)) \div Cardinality(at(x)) \in Nat
  <2>1. Cardinality(at(x)) \in Nat \ {0}
    BY <1>6, FS_CardinalityType, FS_EmptySet
  <2>2. \A i \in at(x) : fitted[i] \in Nat
    BY <1>6, <1>8
  <2>3. SumFunctionOnSet(fitted, at(x)) \in Nat
    BY <1>6, <2>2, SumPositive
  <2> QED BY <2>1, <2>3, DivIs
<1>11. ASSUME NEW x \in D, NEW y \in D, x < y
       PROVE  SumFunctionOnSet(fitted, at(x)) \div Cardinality(at(x))
                <= SumFunctionOnSet(fitted, at(y)) \div Cardinality(at(y))
  <2>1. \A i \in at(x) : \A j \in at(y) : fitted[i] <= fitted[j]
    BY <1>9, <1>11
  <2>2. \A i \in at(x) \cup at(y) : fitted[i] \in Nat
    BY <1>6, <1>8
  <2>3. at(x) # {} /\ at(y) # {} /\ IsFiniteSet(at(x)) /\ IsFiniteSet(at(y))
    BY <1>6
  <2> QED BY <2>1, <2>2, <2>3, MeansBetween
<1>12. DOMAIN cal = D /\ \A x \in D : cal[x] = SumFunctionOnSet(fitted, at(x)) \div Cardinality(at(x))
  BY <1>2
<1> HIDE DEF D
<1>14. Rising(cal)
  BY <1>5, <1>10, <1>11, <1>12 DEF Rising
<1> QED BY <1>12, <1>13, <1>14 DEF cal

(* A finite set of integers has a least and a greatest element.            *)
LEMMA ExtremesAre ==
  ASSUME NEW S \in SUBSET Int, IsFiniteSet(S), S # {}
  PROVE  /\ Min(S) \in S /\ \A y \in S : Min(S) <= y
         /\ Max(S) \in S /\ \A y \in S : y <= Max(S)
<1> DEFINE Low(T) == \E m \in T : \A y \in T : m <= y
           High(T) == \E m \in T : \A y \in T : m >= y
           Good == {T \in SUBSET S : T = {} \/ (Low(T) /\ High(T))}
<1>1. {} \in Good
  OBVIOUS
<1>2. ASSUME NEW T \in SUBSET S, NEW x \in S \ T, T \in Good PROVE T \cup {x} \in Good
  <2>1. CASE T = {}
    <3>1. x <= x /\ x >= x
      OBVIOUS
    <3>2. Low({x}) /\ High({x})
      BY <3>1
    <3> QED BY <2>1, <3>2
  <2>2. CASE T # {}
    <3>1. PICK l \in T : \A y \in T : l <= y
      BY <1>2, <2>2
    <3>2. PICK h \in T : \A y \in T : h >= y
      BY <1>2, <2>2
    <3>3. l \in Int /\ h \in Int /\ x \in Int /\ \A y \in T : y \in Int
      OBVIOUS
    <3>4. Low(T \cup {x})
      <4>1. CASE l <= x
        BY <3>1, <4>1
      <4>2. CASE ~ (l <= x)
        <5>1. \A y \in T \cup {x} : x <= y
          BY <3>1, <3>3, <4>2
        <5> QED BY <5>1
      <4> QED BY <4>1, <4>2
    <3>5. High(T \cup {x})
      <4>1. CASE h >= x
        BY <3>2, <4>1
      <4>2. CASE ~ (h >= x)
        <5>1. \A y \in T \cup {x} : x >= y
          BY <3>2, <3>3, <4>2
        <5> QED BY <5>1
      <4> QED BY <4>1, <4>2
    <3> HIDE DEF Low, High
    <3> QED BY <3>4, <3>5
  <2> QED BY <2>1, <2>2
<1>3. S \in Good
  <2> HIDE DEF Good
  <2> QED BY <1>1, <1>2, FiniteSetInduction
<1>4. Low(S) /\ High(S)
  BY <1>3
<1>5. Min(S) \in S /\ \A y \in S : Min(S) <= y
  BY <1>4 DEF Min
<1>6. Max(S) \in S /\ \A y \in S : Max(S) >= y
  BY <1>4 DEF Max
<1> QED BY <1>5, <1>6

(* The grid points between which a score lies.                             *)
Under(cal, x) ==
  LET below == {y \in DOMAIN cal : y <= x}
      above == {y \in DOMAIN cal : y >= x}
  IN IF below = {} THEN Min(above) ELSE Max(below)

Over(cal, x) ==
  LET below == {y \in DOMAIN cal : y <= x}
      above == {y \in DOMAIN cal : y >= x}
  IN IF above = {} THEN Max(below) ELSE Min(above)

Neighbours(D, x, a, b) ==
  /\ a \in D /\ b \in D /\ a <= b
  /\ \A y \in D : (y <= x => y <= a) /\ (y >= x => y >= b)
  /\ a <= x \/ \A y \in D : y > x
  /\ b >= x \/ \A y \in D : y < x

LEMMA NeighboursAre ==
  ASSUME NEW cal, Rising(cal), DOMAIN cal # {}, NEW x \in Int
  PROVE  Neighbours(DOMAIN cal, x, Under(cal, x), Over(cal, x))
<1> DEFINE D == DOMAIN cal
           below == {y \in D : y <= x}
           above == {y \in D : y >= x}
           a == Under(cal, x)
           b == Over(cal, x)
<1>1. IsFiniteSet(D) /\ D \subseteq Int /\ D # {}
  BY DEF Rising
<1>2. a = IF below = {} THEN Min(above) ELSE Max(below)
  BY Zenon DEF Under
<1>3. b = IF above = {} THEN Max(below) ELSE Min(above)
  BY Zenon DEF Over
<1>4. below \in SUBSET Int /\ above \in SUBSET Int /\ IsFiniteSet(below) /\ IsFiniteSet(above)
  BY <1>1, FS_Subset
<1>5. \A y \in D : y \in below \/ y \in above
  BY <1>1
<1>6. /\ \A y \in below : y \in D /\ y <= x
      /\ \A y \in above : y \in D /\ y >= x
      /\ \A y \in D : (y <= x => y \in below) /\ (y >= x => y \in above)
  OBVIOUS
<1> HIDE DEF a, b, below, above, D
<1>7. below # {} => Max(below) \in below /\ \A y \in below : y <= Max(below)
  BY <1>4, ExtremesAre
<1>8. above # {} => Min(above) \in above /\ \A y \in above : Min(above) <= y
  BY <1>4, ExtremesAre
<1>9. CASE below = {}
  <2>1. above # {} /\ \A y \in D : y \in above
    BY <1>1, <1>5, <1>9
  <2>2. a = Min(above) /\ b = Min(above)
    BY <1>2, <1>3, <1>9, <2>1
  <2>3. a \in D /\ a = b /\ b >= x /\ \A y \in D : b <= y /\ y > x
    <3>1. \A y \in D : ~ (y <= x) /\ b <= y
      <4>1. \A y \in D : y \notin below
        BY <1>9
      <4>2. \A y \in D : Min(above) <= y
        BY <1>8, <2>1
      <4> QED BY <1>6, <2>2, <4>1, <4>2, Zenon
    <3>2. \A y \in D : y \in Int
      BY <1>1
    <3>3. a \in D /\ b >= x
      BY <1>6, <1>8, <2>1, <2>2, Zenon
    <3> QED BY <2>2, <3>1, <3>2, <3>3
  <2> QED BY <1>1, <2>3 DEF Neighbours, a, b, D
<1>10. CASE above = {}
  <2>1. below # {} /\ \A y \in D : y \in below
    BY <1>1, <1>5, <1>10
  <2>2. a = Max(below) /\ b = Max(below)
    BY <1>2, <1>3, <1>10, <2>1
  <2>3. a \in D /\ a = b /\ a <= x /\ \A y \in D : y <= a /\ y < x
    <3>1. \A y \in D : ~ (y >= x) /\ y <= a
      <4>1. \A y \in D : y \notin above
        BY <1>10
      <4>2. \A y \in D : y <= Max(below)
        BY <1>7, <2>1
      <4> QED BY <1>6, <2>2, <4>1, <4>2, Zenon
    <3>2. \A y \in D : y \in Int
      BY <1>1
    <3>3. a \in D /\ a <= x
      BY <1>6, <1>7, <2>1, <2>2, Zenon
    <3> QED BY <2>2, <3>1, <3>2, <3>3
  <2> QED BY <1>1, <2>3 DEF Neighbours, a, b, D
<1>11. CASE below # {} /\ above # {}
  <2>1. a = Max(below) /\ b = Min(above)
    BY <1>2, <1>3, <1>11
  <2>2. /\ a \in D /\ a <= x /\ \A y \in D : y <= x => y <= a
        /\ b \in D /\ b >= x /\ \A y \in D : y >= x => y >= b
    <3>1. a \in below /\ \A y \in below : y <= a
      BY <1>7, <1>11, <2>1
    <3>2. b \in above /\ \A y \in above : b <= y
      BY <1>8, <1>11, <2>1
    <3>3. \A y \in D : y \in Int
      BY <1>1
    <3>4. \A y \in D : y >= x => y >= b
      BY <1>6, <3>2, <3>3
    <3>5. \A y \in D : y <= x => y <= a
      BY <1>6, <3>1
    <3>6. a \in D /\ a <= x /\ b \in D /\ b >= x
      BY <1>6, <3>1, <3>2, Zenon
    <3> QED BY <3>4, <3>5, <3>6
  <2>3. a <= b
    <3>1. a \in Int /\ b \in Int
      BY <1>1, <2>2
    <3> QED BY <2>2, <3>1
  <2> QED BY <2>2, <2>3 DEF Neighbours, a, b, D
<1> QED BY <1>9, <1>10, <1>11

(* The value between two points weighs theirs by the distance to the other. *)
Interpolated(u, v, a, b, x, tau) == u * (b - x) + v * (x - a) >= tau * (b - a)

LEMMA InterpolationIs ==
  ASSUME NEW u \in Int, NEW v \in Int, u <= v, NEW tau \in Int,
         NEW a \in Int, NEW b \in Int, a < b, NEW x \in Int, a <= x, x <= b
  PROVE  /\ Interpolated(u, v, a, b, x, tau) => v >= tau
         /\ u >= tau => Interpolated(u, v, a, b, x, tau)
         /\ \A y \in Int : x <= y /\ Interpolated(u, v, a, b, x, tau) => Interpolated(u, v, a, b, y, tau)
<1>1. b - x \in Nat /\ x - a \in Nat /\ b - a \in Nat \ {0}
  OBVIOUS
<1>2. \A w \in Int : w * (b - x) + w * (x - a) = w * (b - a)
  <2> TAKE w \in Int
  <2>1. (b - x) + (x - a) = b - a
    OBVIOUS
  <2> QED BY <2>1
<1>3. /\ u * (b - x) \in Int /\ v * (b - x) \in Int /\ tau * (b - x) \in Int
      /\ u * (x - a) \in Int /\ v * (x - a) \in Int /\ tau * (x - a) \in Int
      /\ v * (b - a) \in Int /\ tau * (b - a) \in Int
  OBVIOUS
<1>4. ASSUME Interpolated(u, v, a, b, x, tau) PROVE v >= tau
  <2>1. u * (b - x) <= v * (b - x)
    BY <1>1, TimesMonotone
  <2>2. tau * (b - a) <= u * (b - x) + v * (x - a)
    BY <1>3, <1>4 DEF Interpolated
  <2>3. v * (b - x) + v * (x - a) = v * (b - a)
    BY <1>2
  <2>4. tau * (b - a) <= v * (b - a)
    BY <1>3, <2>1, <2>2, <2>3
  <2>5. tau <= v
    BY <1>1, <2>4, Cancel
  <2> QED BY <2>5
<1>5. ASSUME u >= tau PROVE Interpolated(u, v, a, b, x, tau)
  <2>1. tau <= u /\ tau <= v
    BY <1>5
  <2>2. tau * (b - x) <= u * (b - x)
    BY <1>1, <2>1, TimesMonotone
  <2>3. tau * (x - a) <= v * (x - a)
    BY <1>1, <2>1, TimesMonotone
  <2>4. tau * (b - x) + tau * (x - a) = tau * (b - a)
    BY <1>2
  <2>5. u * (b - x) + v * (x - a) >= tau * (b - a)
    BY <1>3, <2>2, <2>3, <2>4
  <2> QED BY <2>5 DEF Interpolated
<1>6. ASSUME NEW y \in Int, x <= y, Interpolated(u, v, a, b, x, tau)
      PROVE  Interpolated(u, v, a, b, y, tau)
  <2>1. y - x \in Nat
    BY <1>6
  <2>2. u * (y - x) <= v * (y - x)
    BY <2>1, TimesMonotone
  <2>3. u * (b - x) = u * (b - y) + u * (y - x)
    <3>1. b - x = (b - y) + (y - x)
      OBVIOUS
    <3> QED BY <3>1
  <2>4. v * (y - a) = v * (x - a) + v * (y - x)
    <3>1. y - a = (x - a) + (y - x)
      OBVIOUS
    <3> QED BY <3>1
  <2>5. u * (b - y) \in Int /\ u * (y - x) \in Int /\ v * (y - a) \in Int /\ v * (y - x) \in Int
    OBVIOUS
  <2>6. u * (b - x) + v * (x - a) >= tau * (b - a)
    BY <1>6 DEF Interpolated
  <2>7. u * (b - y) + v * (y - a) >= tau * (b - a)
    BY <1>3, <2>2, <2>3, <2>4, <2>5, <2>6
  <2> QED BY <2>7 DEF Interpolated
<1> QED BY <1>4, <1>5, <1>6

(* Where a lower score passes a threshold, a higher one does.              *)
LEMMA PassesUp ==
  ASSUME NEW cal, Rising(cal), DOMAIN cal # {}, NEW tau \in Int,
         NEW r \in Int, NEW s \in Int, r < s, PassesAt(cal, r, tau)
  PROVE  PassesAt(cal, s, tau)
<1> DEFINE D == DOMAIN cal
           Passing(x, a, b) == IF a >= b THEN cal[a] >= tau
                               ELSE cal[a] * (b - x) + cal[b] * (x - a) >= tau * (b - a)
           a == Under(cal, r)
           b == Over(cal, r)
           c == Under(cal, s)
           d == Over(cal, s)
<1>1. /\ PassesAt(cal, r, tau) = Passing(r, a, b)
      /\ PassesAt(cal, s, tau) = Passing(s, c, d)
  BY Zenon DEF PassesAt, Under, Over
<1>2. Neighbours(D, r, a, b) /\ Neighbours(D, s, c, d)
  BY NeighboursAre
<1>3. /\ D \subseteq Int /\ \A x \in D : cal[x] \in Int
      /\ \A x, y \in D : x < y => cal[x] <= cal[y]
  BY DEF Rising
<1> HIDE DEF a, b, c, d, D, Passing
<1>4. /\ a \in D /\ b \in D /\ c \in D /\ d \in D /\ a <= b /\ c <= d
      /\ a \in Int /\ b \in Int /\ c \in Int /\ d \in Int
      /\ cal[a] \in Int /\ cal[b] \in Int /\ cal[c] \in Int /\ cal[d] \in Int
  BY <1>2, <1>3 DEF Neighbours
<1>5. /\ \A y \in D : (y <= r => y <= a) /\ (y >= r => y >= b)
      /\ \A y \in D : (y <= s => y <= c) /\ (y >= s => y >= d)
      /\ a <= r \/ \A y \in D : y > r
      /\ b >= r \/ \A y \in D : y < r
      /\ c <= s \/ \A y \in D : y > s
      /\ d >= s \/ \A y \in D : y < s
  BY <1>2 DEF Neighbours
<1>6. a < b => a <= r /\ r <= b
  <2> SUFFICES ASSUME a < b PROVE a <= r /\ r <= b
    OBVIOUS
  <2>1. a <= r
    <3>1. ~ (a >= r) \/ a <= r
      BY <1>4, <1>5
    <3> QED BY <1>4, <3>1
  <2>2. r <= b
    <3>1. ~ (b <= r) \/ r <= b
      BY <1>4, <1>5
    <3> QED BY <1>4, <3>1
  <2> QED BY <2>1, <2>2
<1>7. c < d => c <= s /\ s <= d
  <2> SUFFICES ASSUME c < d PROVE c <= s /\ s <= d
    OBVIOUS
  <2>1. c <= s
    <3>1. ~ (c >= s) \/ c <= s
      BY <1>4, <1>5
    <3> QED BY <1>4, <3>1
  <2>2. s <= d
    <3>1. ~ (d <= s) \/ s <= d
      BY <1>4, <1>5
    <3> QED BY <1>4, <3>1
  <2> QED BY <2>1, <2>2
<1>8. /\ \A x \in Int : Passing(x, a, b) = IF a >= b THEN cal[a] >= tau
                                            ELSE Interpolated(cal[a], cal[b], a, b, x, tau)
      /\ \A x \in Int : Passing(x, c, d) = IF c >= d THEN cal[c] >= tau
                                            ELSE Interpolated(cal[c], cal[d], c, d, x, tau)
  BY Zenon DEF Passing, Interpolated
<1>9. cal[a] <= cal[b] /\ cal[c] <= cal[d]
  BY <1>3, <1>4
<1>10. Passing(r, a, b)
  BY <1>1
<1>11. CASE b <= s
  <2>1. cal[b] >= tau
    <3>1. CASE a >= b
      <4>1. a = b
        BY <1>4, <3>1
      <4> QED BY <1>8, <1>10, <3>1, <4>1
    <3>2. CASE ~ (a >= b)
      <4>1. a < b /\ Interpolated(cal[a], cal[b], a, b, r, tau)
        BY <1>4, <1>8, <1>10, <3>2
      <4> QED BY <1>4, <1>6, <1>9, <4>1, InterpolationIs
    <3> QED BY <3>1, <3>2
  <2>2. b <= c
    BY <1>4, <1>5, <1>11
  <2>3. cal[b] <= cal[c]
    BY <1>3, <1>4, <2>2
  <2>4. cal[c] >= tau
    BY <1>4, <2>1, <2>3
  <2>5. ~ (c >= d) => Interpolated(cal[c], cal[d], c, d, s, tau)
    <3> SUFFICES ASSUME ~ (c >= d) PROVE Interpolated(cal[c], cal[d], c, d, s, tau)
      OBVIOUS
    <3>1. c < d
      BY <1>4
    <3> QED BY <1>4, <1>7, <1>9, <2>4, <3>1, InterpolationIs
  <2> QED BY <1>1, <1>8, <2>4, <2>5
<1>12. CASE ~ (b <= s)
  <2>1. d = b
    <3>1. d <= b
      BY <1>4, <1>5, <1>12
    <3>2. d >= s
      BY <1>4, <1>5, <1>12
    <3>3. b <= d
      BY <1>4, <1>5, <3>2
    <3> QED BY <1>4, <3>1, <3>3
  <2>2. c = a
    <3>1. CASE a <= r
      <4>1. a <= c
        BY <1>4, <1>5, <3>1
      <4>2. c <= s
        BY <1>4, <1>5, <3>1
      <4>3. ~ (c >= r)
        BY <1>4, <1>5, <1>12, <4>2
      <4>4. c <= a
        BY <1>4, <1>5, <4>3
      <4> QED BY <1>4, <4>1, <4>4
    <3>2. CASE ~ (a <= r)
      <4>1. \A y \in D : y > r
        BY <1>5, <3>2
      <4>2. a >= b /\ c >= b
        <5>1. a >= r /\ c >= r
          BY <1>4, <4>1
        <5> QED BY <1>4, <1>5, <5>1
      <4> QED BY <1>4, <2>1, <4>2
    <3> QED BY <3>1, <3>2
  <2>3. Passing(s, a, b)
    <3>1. CASE a >= b
      BY <1>8, <1>10, <3>1
    <3>2. CASE ~ (a >= b)
      <4>1. a < b /\ Interpolated(cal[a], cal[b], a, b, r, tau) /\ r <= s
        BY <1>4, <1>8, <1>10, <3>2
      <4>2. Interpolated(cal[a], cal[b], a, b, s, tau)
        BY <1>4, <1>6, <1>9, <4>1, InterpolationIs
      <4> QED BY <1>8, <3>2, <4>2
    <3> QED BY <3>1, <3>2
  <2> QED BY <1>1, <2>1, <2>2, <2>3
<1> QED BY <1>11, <1>12

(* Whatever the scores, the tuned threshold is one of the grid or the default. *)
LEMMA ThresholdIs ==
  ASSUME NEW cal, NEW seq \in Seq(Bets), NEW raw
  PROVE  TuneThreshold(cal, seq, raw) \in Int
<1> DEFINE D == DOMAIN TauGrid
           G == 0 .. Scale
           V == [tau : G, n : Nat, right : Nat]
           base == [tau |-> DefaultTau, n |-> 0, right |-> 0]
           taken(tau) == {i \in DOMAIN seq : PassesAt(cal, raw[i], tau)}
           right(tau) == {i \in taken(tau) : seq[i].label = 1}
           better(tau, best) ==
             best.n = 0 \/ Cardinality(right(tau)) * best.n > best.right * Cardinality(taken(tau))
           try(best, tau) ==
             IF Cardinality(taken(tau)) >= Max({MinTrades, 1}) /\ better(tau, best)
             THEN [tau |-> tau, n |-> Cardinality(taken(tau)), right |-> Cardinality(right(tau))]
             ELSE best
           step == [tv \in G \X V |-> try(tv[2], tv[1])]
           pick == [s \in SUBSET D |-> Max(s)]
           Eqn(g) == g = [s \in SUBSET D |->
                            IF s = {} THEN base ELSE try(g[s \ {Max(s)}], TauGrid[Max(s)])]
<1>1. \A tau \in G, best \in V : try(best, tau) \in V
  <2> SUFFICES ASSUME NEW tau \in G, NEW best \in V PROVE try(best, tau) \in V
    OBVIOUS
  <2>1. IsFiniteSet(DOMAIN seq)
    <3>1. DOMAIN seq = 1 .. Len(seq) /\ Len(seq) \in Int /\ 1 \in Int
      OBVIOUS
    <3> QED BY <3>1, FS_Interval
  <2>2. taken(tau) \in SUBSET DOMAIN seq /\ right(tau) \in SUBSET DOMAIN seq
    OBVIOUS
  <2> HIDE DEF taken, right, better
  <2>3. IsFiniteSet(taken(tau)) /\ IsFiniteSet(right(tau))
    BY <2>1, <2>2, FS_Subset
  <2>4. Cardinality(taken(tau)) \in Nat /\ Cardinality(right(tau)) \in Nat
    BY <2>3, FS_CardinalityType
  <2> QED BY <2>4
<1> HIDE DEF try
<1>2. base \in V /\ TauGrid \in Seq(G)
  BY DecisionAssumption
<1>2a. \A i \in D : TauGrid[i] \in G
  <2>1. TauGrid \in Seq(G)
    BY <1>2
  <2> HIDE DEF G
  <2> QED BY <2>1
<1>3. step \in [G \X V -> V]
  <2> HIDE DEF V, G
  <2> QED BY <1>1
<1>4. IsFiniteSet(D) /\ Picks(pick, D) /\ \E g : LeftFoldOf(g, TauGrid, V, base, step)
  <2>1. IsFiniteSet(D) /\ Picks(Latest(TauGrid), D) /\ \E g : LeftFoldOf(g, TauGrid, V, base, step)
    <3> HIDE DEF V, step, base, G
    <3> QED BY <1>2, <1>3, LeftFoldExists, Zenon
  <2> QED BY <2>1 DEF Latest
<1>5. PICK g : LeftFoldOf(g, TauGrid, V, base, step)
  BY <1>4, Zenon
<1>6. ASSUME NEW s \in SUBSET D
      PROVE  g[s] = IF s = {} THEN base ELSE try(g[s \ {Max(s)}], TauGrid[Max(s)])
  <2>1. CASE s # {}
    <3>1. Max(s) \in D
      BY <1>4, <2>1 DEF Picks
    <3>2. TauGrid[Max(s)] \in G
      BY <1>2a, <3>1
    <3>3. g[s \ {Max(s)}] \in V
      BY <1>5 DEF LeftFoldOf
    <3>4. g[s] = step[<<TauGrid[Max(s)], g[s \ {Max(s)}]>>]
      BY <1>5, <2>1 DEF LeftFoldOf
    <3> HIDE DEF V, base, G
    <3> QED BY <2>1, <3>2, <3>3, <3>4
  <2>2. CASE s = {}
    BY <1>5, <2>2 DEF LeftFoldOf
  <2> QED BY <2>1, <2>2
<1>7. Eqn(g)
  <2>1. g = [s \in SUBSET D |-> g[s]]
    BY <1>5 DEF LeftFoldOf
  <2> HIDE DEF base
  <2> QED BY <1>6, <2>1
<1>8. Eqn(CHOOSE c : Eqn(c))
  <2> HIDE DEF Eqn
  <2> QED BY <1>7
<1> DEFINE c == CHOOSE c : Eqn(c)
<1>9. TuneThreshold(cal, seq, raw) = c[D].tau
  BY Zenon DEF TuneThreshold, FoldLeft, MapThenFoldSet, try
<1>10. \A s \in SUBSET D : c[s] \in V
  <2> DEFINE Good == {s \in SUBSET D : c[s] \in V}
  <2>1. Eqn(c)
    BY <1>8
  <2>2. ASSUME NEW s \in SUBSET D
        PROVE  c[s] = IF s = {} THEN base ELSE try(c[s \ {Max(s)}], TauGrid[Max(s)])
    <3> HIDE DEF c, base
    <3> QED BY <2>1
  <2> HIDE DEF c, Eqn, base
  <2>3. Grows(Good, pick, D)
    <3>1. {} \in Good
      BY <1>2, <2>2
    <3>2. ASSUME NEW s \in SUBSET D, s # {}, s \ {pick[s]} \in Good PROVE s \in Good
      <4>1. Max(s) \in s /\ pick[s] = Max(s)
        BY <1>4, <3>2 DEF Picks
      <4>2. TauGrid[Max(s)] \in G /\ c[s \ {Max(s)}] \in V
        <5>1. Max(s) \in D
          BY <4>1
        <5> HIDE DEF V, G
        <5> QED BY <1>2a, <3>2, <4>1, <5>1
      <4>3. c[s] \in V
        <5>1. c[s] = try(c[s \ {Max(s)}], TauGrid[Max(s)])
          BY <2>2, <3>2
        <5> HIDE DEF V, G
        <5> QED BY <1>1, <4>2, <5>1
      <4> QED BY <4>3
    <3> QED BY <3>1, <3>2 DEF Grows
  <2>4. SUBSET D \subseteq Good
    <3> HIDE DEF Good, pick, D
    <3> QED BY <1>4, <2>3, FoldInduction
  <2> QED BY <2>4
<1>11. c[D] \in V
  <2> HIDE DEF c, V
  <2> QED BY <1>10
<1> HIDE DEF c
<1>12. c[D].tau \in 0 .. Scale
  BY <1>11
<1>13. 0 .. Scale \subseteq Int
  OBVIOUS
<1> QED BY <1>9, <1>12, <1>13

(* The bets are bets, and the scores that pass the gate are all those from *)
(* some one on.                                                            *)
GateOK ==
  /\ bets \in Seq(Bets)
  /\ \A r \in gate, s \in RawScores : r < s => s \in gate

LEMMA GateStep == GateOK /\ [Next]_vars => GateOK'
<1> SUFFICES ASSUME GateOK, [Next]_vars PROVE GateOK'
  OBVIOUS
<1>1. ASSUME NEW b \in Bets, CollectBet(b) PROVE GateOK'
  <2>1. bets' \in Seq(Bets) /\ gate' = gate
    BY <1>1 DEF CollectBet, GateOK
  <2> QED BY <2>1 DEF GateOK
<1>2. CASE TrainTrust
  <2> DEFINE cal == Calibrator(bets)
  <2>1. PICK raw \in [DOMAIN bets -> RawScores] :
          gate' = {s \in RawScores : PassesAt(cal, s, TuneThreshold(cal, bets, raw))}
    BY <1>2, Zenon DEF TrainTrust
  <2> DEFINE tau == TuneThreshold(cal, bets, raw)
  <2>2. bets \in Seq(Bets) /\ bets # <<>> /\ bets' = <<>>
    BY <1>2 DEF TrainTrust, GateOK
  <2>3. Rising(cal) /\ DOMAIN cal # {}
    BY <2>2, CalibratorRises
  <2>4. tau \in Int
    BY <2>2, ThresholdIs
  <2> HIDE DEF cal, tau
  <2>5. gate' = {s \in RawScores : PassesAt(cal, s, tau)}
    BY <2>1 DEF tau
  <2>6. ASSUME NEW r \in gate', NEW s \in RawScores, r < s PROVE s \in gate'
    <3>1. r \in RawScores /\ PassesAt(cal, r, tau)
      BY <2>5
    <3>2. r \in Int /\ s \in Int
      BY <3>1, DecisionAssumption
    <3>3. PassesAt(cal, s, tau)
      BY <2>3, <2>4, <2>6, <3>1, <3>2, PassesUp
    <3> QED BY <2>5, <3>3
  <2>7. bets' \in Seq(Bets)
    BY <2>2
  <2> QED BY <2>6, <2>7 DEF GateOK
<1>3. CASE FitGated
  <2> DEFINE cal == Calibrator(bets)
  <2>1. bets \in Seq(Bets) /\ bets' = <<>>
    BY <1>3 DEF FitGated, GateOK
  <2>2. CASE EnoughBets(bets)
    <3>1. gate' = {s \in RawScores : PassesAt(cal, s, DefaultTau)}
      BY <1>3, <2>2 DEF FitGated
    <3>2. bets # <<>>
      <4>1. Len(bets) >= 1
        BY <2>1, <2>2, DecisionAssumption DEF EnoughBets
      <4> QED BY <4>1
    <3>3. Rising(cal) /\ DOMAIN cal # {} /\ DefaultTau \in Int
      BY <2>1, <3>2, CalibratorRises, DecisionAssumption
    <3> HIDE DEF cal
    <3>4. ASSUME NEW r \in gate', NEW s \in RawScores, r < s PROVE s \in gate'
      <4>1. r \in RawScores /\ PassesAt(cal, r, DefaultTau)
        BY <3>1
      <4>2. r \in Int /\ s \in Int
        BY <4>1, DecisionAssumption
      <4>3. PassesAt(cal, s, DefaultTau)
        BY <3>3, <3>4, <4>1, <4>2, PassesUp
      <4> QED BY <3>1, <4>3
    <3> QED BY <2>1, <3>4 DEF GateOK
  <2>3. CASE ~ EnoughBets(bets)
    <3>1. gate' = {}
      BY <1>3, <2>3 DEF FitGated
    <3> QED BY <2>1, <3>1 DEF GateOK
  <2> QED BY <2>2, <2>3
<1>4. ASSUME UNCHANGED <<bets, gate>> PROVE GateOK'
  BY <1>4 DEF GateOK
<1> QED BY <1>1, <1>2, <1>3, <1>4 DEF Next, vars, training, market, monitor, FitRegimes, NewRow,
                         ReadRegime, Decide, UpdateEquity, Restart

(* For all bets a calibrator may be given, of any number, scores and       *)
(* weights, and whatever grid, default and scores the threshold is tuned   *)
(* with: the pooling ends at the nearest non-decreasing fit, the           *)
(* calibrator never falls and the gate never prefers a lower score.        *)
THEOREM FitIsNearest == Spec => []IsotonicIsNearest
<1>1. Init => GateOK
  BY DEF Init, GateOK
<1>2. GateOK => IsotonicIsNearest
  <2> SUFFICES ASSUME GateOK PROVE IsotonicIsNearest
    OBVIOUS
  <2> DEFINE sorted == Sorted(bets)
             fitted == Fitted(sorted)
             cal == Calibrator(bets)
  <2>1. bets \in Seq(Bets) /\ \A r \in gate, s \in RawScores : r < s => s \in gate
    BY DEF GateOK
  <2>2. sorted \in Seq(Bets) /\ Len(sorted) = Len(bets) /\ DOMAIN bets = 1 .. Len(bets)
    BY <2>1, SortedIs
  <2>3. ASSUME NEW i \in DOMAIN bets PROVE fitted[i] = MaxMin(sorted, i)
    <3>1. i \in 1 .. Len(sorted)
      BY <2>2
    <3> HIDE DEF sorted
    <3> QED BY <2>2, <3>1, FitIsMaxMin
  <2>4. \A x, y \in DOMAIN cal : x < y => cal[x] <= cal[y]
    BY <2>1, CalibratorRises DEF Rising
  <2> QED BY <2>1, <2>3, <2>4, Zenon DEF IsotonicIsNearest
<1> QED BY <1>1, <1>2, GateStep, PTL DEF Spec
=============================================================================
