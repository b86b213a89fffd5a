----------------------------- MODULE BetProofs -----------------------------
(***************************************************************************)
(* What a bet is and how much is put on it: the labels of layer 4 for      *)
(* every history of bars, revisions and runs, and the sizes of layer 6 for *)
(* every batch, account and correlation.                                   *)
(***************************************************************************)
EXTENDS Sizing, Labeling, DataProofs

(* Labels.                                                                 *)

(* The bars of two histories agree before bar h, which both have. *)
AgreeBefore(bs, cs, h) ==
  h <= Len(bs) /\ h <= Len(cs) /\ \A j \in 1 .. h - 1 : bs[j] = cs[j]

LEMMA ShapeIs ==
  ASSUME NEW bs \in Seq(Shapes), NEW j \in 1 .. Len(bs)
  PROVE  /\ bs[j].low \in Nat /\ bs[j].close \in Nat /\ bs[j].high \in Nat /\ bs[j].atr \in Nat
         /\ 0 < bs[j].low /\ bs[j].low <= bs[j].close /\ bs[j].close <= bs[j].high
<1>1. bs[j] \in Shapes
  OBVIOUS
<1>2. bs[j] \in [high : Nat, low : Nat, close : Nat, atr : Nat]
  BY <1>1, ShapesAssumption
<1> QED BY <1>1, <1>2, ShapesAssumption

LEMMA EventIs ==
  ASSUME NEW bs \in Seq(Shapes), NEW e \in Events(bs)
  PROVE  /\ Len(bs) \in Nat /\ e \in Nat \ {0} /\ e < Len(bs)
         /\ EndBar(bs, e) \in e + 1 .. Len(bs) /\ EndBar(bs, e) <= e + Vertical
         /\ EndBar(bs, e) < Len(bs) => EndBar(bs, e) = e + Vertical
         /\ Touches(bs, e) \in SUBSET Nat
         /\ \A j \in Touches(bs, e) : j \in e + 1 .. EndBar(bs, e)
<1>1. Len(bs) \in Nat /\ e \in 1 .. Len(bs) - 1 /\ Vertical \in Nat \ {0}
  BY LabelingAssumption DEF Events
<1>2. EndBar(bs, e) \in e + 1 .. Len(bs) /\ EndBar(bs, e) <= e + Vertical
       /\ (EndBar(bs, e) < Len(bs) => EndBar(bs, e) = e + Vertical)
  BY <1>1 DEF EndBar, Earlier
<1>3. \A j \in Touches(bs, e) : j \in e + 1 .. EndBar(bs, e)
  BY DEF Touches
<1> QED BY <1>1, <1>2, <1>3

(* Where a label ends: the first touch, or the vertical barrier. *)
LEMMA LabelIs ==
  ASSUME NEW bs \in Seq(Shapes), NEW e \in Events(bs)
  PROVE  /\ LabelOf(bs, e).t1 \in e + 1 .. EndBar(bs, e)
         /\ Touches(bs, e) = {} => LabelOf(bs, e).t1 = EndBar(bs, e)
         /\ Touches(bs, e) # {} => /\ LabelOf(bs, e).t1 \in Touches(bs, e)
                                   /\ \A j \in Touches(bs, e) : LabelOf(bs, e).t1 <= j
<1> DEFINE t == IF Touches(bs, e) = {} THEN EndBar(bs, e) ELSE Min(Touches(bs, e))
<1>1. LabelOf(bs, e).t1 = t
  BY DEF LabelOf
<1>2. CASE Touches(bs, e) = {}
  BY <1>1, <1>2, EventIs
<1>3. CASE Touches(bs, e) # {}
  <2>1. Min(Touches(bs, e)) \in Touches(bs, e) /\ \A j \in Touches(bs, e) : Min(Touches(bs, e)) <= j
    BY <1>3, EventIs, MinIs
  <2> QED BY <1>1, <1>3, <2>1, EventIs
<1> QED BY <1>2, <1>3

(* A label that ends before bar h depends on the bars before h alone.      *)
LEMMA LabelStable ==
  ASSUME NEW bs \in Seq(Shapes), NEW cs \in Seq(Shapes), NEW h \in Nat, AgreeBefore(bs, cs, h),
         NEW e \in Events(bs), LabelOf(bs, e).t1 < h
  PROVE  e \in Events(cs) /\ LabelOf(cs, e) = LabelOf(bs, e)
<1> DEFINE t == LabelOf(bs, e).t1
<1>0. /\ Len(bs) \in Nat /\ Len(cs) \in Nat /\ e \in Nat \ {0} /\ h <= Len(bs) /\ h <= Len(cs)
      /\ t \in Nat /\ e < t /\ t < h /\ \A j \in 1 .. h - 1 : bs[j] = cs[j]
      /\ Vertical \in Nat \ {0}
  BY EventIs, LabelIs, LabelingAssumption DEF AgreeBefore
<1>1. bs[e] = cs[e] /\ e \in 1 .. Len(cs) - 1
  BY <1>0
<1>2. e \in Events(cs)
  BY <1>1 DEF Events
<1>3. /\ TpPrice(bs, e) = TpPrice(cs, e) /\ SlPrice(bs, e) = SlPrice(cs, e)
      /\ \A x : Gain(bs, e, x) = Gain(cs, e, x)
  BY <1>1 DEF TpPrice, SlPrice, Gain
<1>4. \A j \in e + 1 .. h - 1 : /\ HitTp(bs, e, j) <=> HitTp(cs, e, j)
                                /\ HitSl(bs, e, j) <=> HitSl(cs, e, j)
                                /\ Outcome(bs, e, j) = Outcome(cs, e, j)
  BY <1>0, <1>3 DEF HitTp, HitSl, Outcome
<1>5. \A j \in e + 1 .. h - 1 : j \in Touches(bs, e) <=> j \in Touches(cs, e)
  <2> TAKE j \in e + 1 .. h - 1
  <2>1. j <= EndBar(bs, e) <=> j <= EndBar(cs, e)
    BY <1>0 DEF EndBar, Earlier
  <2>2. EndBar(bs, e) \in Int /\ EndBar(cs, e) \in Int
    BY <1>2, EventIs
  <2>3. j \in e + 1 .. EndBar(bs, e) <=> j \in e + 1 .. EndBar(cs, e)
    BY <1>0, <2>1, <2>2
  <2> QED BY <1>4, <2>3 DEF Touches
<1>6. CASE Touches(bs, e) = {}
  <2>1. t = EndBar(bs, e)
    BY <1>6, LabelIs
  <2>2. t = e + Vertical
    BY <1>0, <2>1, EventIs
  <2>3. EndBar(cs, e) = e + Vertical
    BY <1>0, <2>2 DEF EndBar, Earlier
  <2>4. Touches(cs, e) = {}
    <3> SUFFICES ASSUME NEW j \in Touches(cs, e) PROVE FALSE
      OBVIOUS
    <3>1. j \in e + 1 .. e + Vertical
      BY <1>2, <2>3, EventIs
    <3>2. j \in e + 1 .. h - 1
      BY <1>0, <2>2, <3>1
    <3> QED BY <1>5, <1>6, <3>2
  <2>5. bs[EndBar(bs, e)] = cs[EndBar(cs, e)] /\ EndBar(bs, e) = EndBar(cs, e)
    BY <1>0, <2>1, <2>2, <2>3
  <2> QED BY <1>1, <1>2, <1>3, <1>6, <2>4, <2>5 DEF LabelOf
<1>7. CASE Touches(bs, e) # {}
  <2>1. t \in Touches(bs, e) /\ \A j \in Touches(bs, e) : t <= j
    BY <1>7, LabelIs
  <2>2. t \in e + 1 .. h - 1
    BY <1>0
  <2>3. t \in Touches(cs, e)
    BY <1>5, <2>1, <2>2
  <2>4. ASSUME NEW j \in Touches(cs, e) PROVE t <= j
    <3>1. j \in Nat /\ e + 1 <= j
      BY <1>2, EventIs
    <3> SUFFICES ASSUME j < t PROVE FALSE
      BY <1>0, <3>1
    <3>2. j \in e + 1 .. h - 1
      BY <1>0, <3>1
    <3>3. t <= j
      BY <1>5, <2>1, <3>2
    <3> QED BY <1>0, <3>1, <3>3
  <2>5. Min(Touches(bs, e)) = t /\ Min(Touches(cs, e)) = t
    <3>1. Min(Touches(bs, e)) = t
      BY <1>7 DEF LabelOf
    <3>2. Min(Touches(cs, e)) \in Touches(cs, e) /\ \A j \in Touches(cs, e) : Min(Touches(cs, e)) <= j
      BY <1>2, <2>3, EventIs, MinIs
    <3>3. Min(Touches(cs, e)) \in Nat
      BY <1>2, <3>2, EventIs
    <3>4. Min(Touches(cs, e)) <= t /\ t <= Min(Touches(cs, e))
      BY <2>3, <2>4, <3>2
    <3> QED BY <1>0, <3>1, <3>3, <3>4
  <2>6. bs[t] = cs[t] /\ Outcome(bs, e, t) = Outcome(cs, e, t)
    BY <1>0, <1>4, <2>2
  <2> HIDE DEF t
  <2> QED BY <1>1, <1>2, <1>3, <1>7, <2>3, <2>5, <2>6 DEF LabelOf
<1> QED BY <1>6, <1>7

(* A bet to be taken has gained, whichever barrier ended it. *)
LEMMA TakenGains ==
  ASSUME NEW bs \in Seq(Shapes), Len(bs) <= NBars, side \in SideMaps, Meta, TpMult > 0,
         NEW e \in Events(bs), LabelOf(bs, e).label = 1
  PROVE  side[e] * (LabelOf(bs, e).exit - bs[e].close) > 0
<1> DEFINE s == side[e]
           c == bs[e].close
           a == bs[e].atr
           t == LabelOf(bs, e).t1
           x == LabelOf(bs, e).exit
           b == LabelOf(bs, e).barrier
<1>1. e \in 1 .. NBars /\ e \in 1 .. Len(bs)
  BY EventIs, LabelingAssumption
<1>2. s \in {-1, 1} /\ SideOf(e) = s
  BY <1>1, LabelingAssumption DEF Events, SideOf, Meta
<1>3. c \in Nat \ {0} /\ a \in Nat \ {0}
  BY <1>1, ShapeIs, LabelingAssumption DEF Events
<1>4. t \in 1 .. Len(bs)
  BY EventIs, LabelIs
<1>5. \/ b = "tp" /\ x = TpPrice(bs, e)
      \/ b = "vertical" /\ x = bs[t].close /\ 100 * Gain(bs, e, x) > MinRetPct * c
  BY DEF LabelOf, Outcome
<1>6. TpPrice(bs, e) = c + s * TpMult * a
  BY <1>2 DEF TpPrice
<1>7. Gain(bs, e, x) = s * (x - c)
  BY <1>2 DEF Gain
<1>8. bs[t].close \in Int
  BY <1>4, ShapeIs
<1>9. TpMult \in Nat \ {0} /\ MinRetPct \in Nat
  BY LabelingAssumption
<1> HIDE DEF s, c, a, t, x, b
<1>10. TpMult * a \in Nat \ {0}
  BY <1>3, <1>9
<1>11. MinRetPct * c \in Nat
  BY <1>3, <1>9
<1>12. CASE b = "tp"
  <2> DEFINE g == TpMult * a
  <2>1. x = c + s * g
    BY <1>2, <1>3, <1>5, <1>6, <1>9, <1>12
  <2> HIDE DEF g
  <2>2. s * (x - c) > 0
    BY <1>2, <1>3, <1>10, <2>1 DEF g
  <2> QED BY <2>2 DEF s, x, c
<1>13. CASE b = "vertical"
  <2>1. x \in Int /\ 100 * (s * (x - c)) > 0
    BY <1>2, <1>3, <1>5, <1>7, <1>8, <1>11, <1>13
  <2>2. s * (x - c) \in Int
    BY <1>2, <1>3, <2>1
  <2>3. s * (x - c) > 0
    BY <2>1, <2>2
  <2> QED BY <2>3 DEF s, x, c
<1> QED BY <1>5, <1>12, <1>13

LEMMA LabelRecord ==
  ASSUME NEW bs, NEW e
  PROVE  LabelOf(bs, e) = [t1 |-> LabelOf(bs, e).t1, barrier |-> LabelOf(bs, e).barrier,
                           exit |-> LabelOf(bs, e).exit, label |-> LabelOf(bs, e).label,
                           weight |-> 0]
BY DEF LabelOf

(* Label l is that of event e but for its weight. *)
Weighted(l, bs, e) == l = [LabelOf(bs, e) EXCEPT !.weight = l.weight]

LEMMA WeightedIs ==
  ASSUME NEW l, NEW bs, NEW e, Weighted(l, bs, e)
  PROVE  /\ Content(l) = LabelOf(bs, e) /\ l.t1 = LabelOf(bs, e).t1
         /\ l.barrier = LabelOf(bs, e).barrier /\ l.exit = LabelOf(bs, e).exit
         /\ l.label = LabelOf(bs, e).label
BY LabelRecord DEF Weighted, Content

LEMMA MadeIs ==
  ASSUME NEW bs
  PROVE  /\ DOMAIN MakeLabels(bs) = Events(bs)
         /\ \A e \in Events(bs) : Weighted(MakeLabels(bs)[e], bs, e)
<1> DEFINE t1 == [e \in Events(bs) |-> LabelOf(bs, e).t1]
           u == [e \in Events(bs) |-> Uniqueness(t1, e)]
<1>1. MakeLabels(bs) = [e \in Events(bs) |-> [LabelOf(bs, e) EXCEPT !.weight = Weight(u, e)]]
  BY DEF MakeLabels
<1> HIDE DEF u
<1>2. ASSUME NEW e \in Events(bs) PROVE Weighted(MakeLabels(bs)[e], bs, e)
  BY <1>1, LabelRecord DEF Weighted
<1> QED BY <1>1, <1>2

-----------------------------------------------------------------------------
(* The label store between two runs: every label is that of an event the   *)
(* last run saw, and a settled one is what a run would make of it now.     *)
Kept(e) ==
  /\ e \in Events(bars) /\ e < horizon
  /\ labels[e].t1 \in e + 1 .. horizon /\ labels[e].t1 <= e + Vertical
  /\ Settled(e) => Weighted(labels[e], bars, e)
  /\ Meta /\ labels[e].label = 1 /\ TpMult > 0
       => side[e] * (labels[e].exit - bars[e].close) > 0

LabelInv ==
  /\ bars \in Seq(Shapes) /\ Len(bars) <= NBars /\ side \in SideMaps
  /\ horizon \in 0 .. Len(bars)
  /\ \A e \in DOMAIN labels : Kept(e)

(* No step changes the sides. *)
LEMMA SameSide ==
  ASSUME side' = side
  PROVE  /\ Events(bars)' = Events(bars')
         /\ \A e : Weighted(labels[e], bars, e)' <=> Weighted(labels'[e], bars', e)
<1>1. Meta' <=> Meta
  BY DEF Meta
<1>2. ASSUME NEW e PROVE SideOf(e)' = SideOf(e)
  BY <1>1 DEF SideOf
<1>3. Events(bars)' = Events(bars')
  BY <1>2 DEF Events
<1>4. ASSUME NEW e PROVE LabelOf(bars, e)' = LabelOf(bars', e)
  <2>1. TpPrice(bars, e)' = TpPrice(bars', e) /\ SlPrice(bars, e)' = SlPrice(bars', e)
    BY <1>2 DEF TpPrice, SlPrice
  <2>2. ASSUME NEW j
        PROVE  /\ HitTp(bars, e, j)' <=> HitTp(bars', e, j)
               /\ HitSl(bars, e, j)' <=> HitSl(bars', e, j)
    BY <1>2, <2>1 DEF HitTp, HitSl
  <2>3. Touches(bars, e)' = Touches(bars', e)
    BY <2>2 DEF Touches, EndBar
  <2>4. ASSUME NEW j PROVE Outcome(bars, e, j)' = Outcome(bars', e, j)
    BY <2>2 DEF Outcome
  <2>5. ASSUME NEW x PROVE Gain(bars, e, x)' = Gain(bars', e, x)
    BY <1>2 DEF Gain
  <2> QED BY <1>1, <2>1, <2>3, <2>4, <2>5 DEF LabelOf, EndBar
<1> QED BY <1>3, <1>4 DEF Weighted

LEMMA RelabelMakes ==
  ASSUME LabelInv, Relabel
  PROVE  /\ DOMAIN labels' = Events(bars)
         /\ \A e \in Events(bars) : labels'[e] = MakeLabels(bars)[e]
<1>1. labels' = [e \in DOMAIN MakeLabels(bars) \cup DOMAIN labels |->
                   IF e \in DOMAIN MakeLabels(bars) THEN MakeLabels(bars)[e] ELSE labels[e]]
  BY DEF Relabel
<1>2. DOMAIN MakeLabels(bars) = Events(bars) /\ DOMAIN labels \subseteq Events(bars)
  BY MadeIs DEF LabelInv, Kept
<1> QED BY <1>1, <1>2

LEMMA LabelStep == LabelInv /\ [LabelNext]_labelVars => LabelInv'
<1> SUFFICES ASSUME LabelInv, [LabelNext]_labelVars PROVE LabelInv'
  OBVIOUS
<1>0. Len(bars) \in Nat /\ horizon \in Nat /\ horizon <= Len(bars)
  BY DEF LabelInv
<1>1. ASSUME bars' \in Seq(Shapes), Len(bars') <= NBars, AgreeBefore(bars, bars', horizon),
             UNCHANGED <<side, labels, horizon>>
      PROVE  LabelInv'
  <2>1. horizon' \in 0 .. Len(bars')
    BY <1>0, <1>1 DEF AgreeBefore
  <2>2. ASSUME NEW e \in DOMAIN labels PROVE Kept(e)'
    <3>1. Kept(e)
      BY DEF LabelInv
    <3>2. e \in 1 .. horizon - 1 /\ bars'[e] = bars[e] /\ Len(bars') \in Nat
      BY <1>0, <1>1, <3>1, EventIs DEF AgreeBefore, LabelInv, Kept
    <3>3. e \in Events(bars')
      <4>1. e \in 1 .. Len(bars') - 1
        BY <1>0, <1>1, <3>2 DEF AgreeBefore
      <4> QED BY <3>1, <3>2, <4>1 DEF Events, Kept
    <3>4. ASSUME Settled(e) PROVE LabelOf(bars', e) = LabelOf(bars, e)
      <4>1. LabelOf(bars, e).t1 = labels[e].t1
        BY <3>1, <3>4, WeightedIs DEF Kept
      <4>2. LabelOf(bars, e).t1 < horizon
        BY <3>4, <4>1 DEF Settled
      <4> QED BY <1>0, <1>1, <3>1, <4>2, LabelStable DEF LabelInv, Kept
    <3>5. (Settled(e)' <=> Settled(e)) /\ (Meta' <=> Meta)
      BY <1>1 DEF Settled, Meta
    <3>6. Settled(e) => Weighted(labels'[e], bars', e)
      BY <1>1, <3>1, <3>4 DEF Weighted, Kept
    <3>7. e \in Events(bars)' /\ (Settled(e) => Weighted(labels[e], bars, e)')
      BY <1>1, <3>3, <3>6, SameSide
    <3> QED BY <1>1, <3>1, <3>2, <3>5, <3>7 DEF Kept
  <2> QED BY <1>1, <2>1, <2>2 DEF LabelInv
<1>2. ASSUME NEW shape \in Shapes, Arrive(shape) PROVE LabelInv'
  <2>1. bars' \in Seq(Shapes) /\ Len(bars') <= NBars /\ AgreeBefore(bars, bars', horizon)
    BY <1>0, <1>2, LabelingAssumption DEF Arrive, AgreeBefore, LabelInv
  <2> QED BY <1>1, <1>2, <2>1 DEF Arrive
<1>3. ASSUME NEW shape \in Shapes, Revise(shape) PROVE LabelInv'
  <2>1. bars' \in Seq(Shapes) /\ Len(bars') <= NBars /\ AgreeBefore(bars, bars', horizon)
    BY <1>0, <1>3, LabelingAssumption DEF Revise, AgreeBefore, LabelInv
  <2> QED BY <1>1, <1>3, <2>1 DEF Revise
<1>4. CASE Relabel
  <2>1. bars' = bars /\ side' = side /\ horizon' = Len(bars)
    BY <1>4 DEF Relabel
  <2>2. DOMAIN labels' = Events(bars)
    BY <1>4, RelabelMakes
  <2>3. ASSUME NEW e \in Events(bars) PROVE Kept(e)'
    <3>1. Weighted(labels'[e], bars, e)
      BY <1>4, MadeIs, RelabelMakes
    <3>2. /\ labels'[e].t1 = LabelOf(bars, e).t1 /\ labels'[e].exit = LabelOf(bars, e).exit
          /\ labels'[e].label = LabelOf(bars, e).label
      BY <3>1, WeightedIs
    <3>3. e < Len(bars) /\ LabelOf(bars, e).t1 \in e + 1 .. Len(bars) /\ LabelOf(bars, e).t1 <= e + Vertical
      <4>1. bars \in Seq(Shapes) /\ Vertical \in Nat
        BY LabelingAssumption DEF LabelInv
      <4> QED BY <1>0, <4>1, EventIs, LabelIs
    <3>4. ASSUME Meta, labels'[e].label = 1, TpMult > 0
          PROVE  side[e] * (labels'[e].exit - bars[e].close) > 0
      BY <3>2, <3>4, TakenGains DEF LabelInv
    <3>5. e \in Events(bars)' /\ Weighted(labels[e], bars, e)'
      BY <2>1, <3>1, SameSide
    <3>6. Meta' <=> Meta
      BY <2>1 DEF Meta
    <3> QED BY <2>1, <3>2, <3>3, <3>4, <3>5, <3>6 DEF Kept
  <2> QED BY <1>0, <2>1, <2>2, <2>3 DEF LabelInv
<1>5. CASE UNCHANGED labelVars
  <2>1. AgreeBefore(bars, bars', horizon) /\ bars' = bars
    BY <1>0, <1>5 DEF labelVars, AgreeBefore
  <2> QED BY <1>1, <1>5, <2>1 DEF labelVars, LabelInv
<1> QED BY <1>2, <1>3, <1>4, <1>5 DEF LabelNext

LEMMA LabelInvariant == LabelSpec => []LabelInv
<1>1. LabelInit => LabelInv
  <2> SUFFICES ASSUME LabelInit PROVE LabelInv
    OBVIOUS
  <2>1. Len(<<>>) = 0 /\ <<>> \in Seq(Shapes) /\ DOMAIN <<>> = {}
    OBVIOUS
  <2> QED BY <2>1, LabelingAssumption DEF LabelInit, LabelInv
<1> QED BY <1>1, LabelStep, PTL DEF LabelSpec

(* A label whose last bar was complete when it was made is never changed   *)
(* by later bars, revisions or runs, but for its weight.                   *)
THEOREM LabelsSettle == LabelSpec => SettledNeverChanges
<1>1. ASSUME LabelInv, [LabelNext]_labelVars, NEW e \in DOMAIN labels, Settled(e)
      PROVE  Content(labels'[e]) = Content(labels[e])
  <2>1. Kept(e) /\ Content(labels[e]) = LabelOf(bars, e)
    BY <1>1, WeightedIs DEF LabelInv, Kept
  <2>2. CASE Relabel
    BY <1>1, <2>1, <2>2, RelabelMakes, MadeIs, WeightedIs DEF Kept
  <2>3. CASE labels' = labels
    BY <2>3
  <2> QED BY <1>1, <2>2, <2>3 DEF LabelNext, Arrive, Revise, labelVars
<1>2. LabelInv /\ [LabelNext]_labelVars
        => [\A e \in DOMAIN labels : Settled(e) => Content(labels'[e]) = Content(labels[e])]_labelVars
  BY <1>1
<1> QED BY <1>2, LabelInvariant, PTL DEF LabelSpec, SettledNeverChanges

(* A settled take-profit label is a certain win when ties go to the stop   *)
(* (the default): no bar up to its end touches the stop.                   *)
THEOREM WinsCertain ==
  ASSUME TieBreak = "sl"
  PROVE  LabelSpec => []WinsAreCertain
<1>1. ASSUME LabelInv PROVE WinsAreCertain
  <2> SUFFICES ASSUME NEW e \in DOMAIN labels, Settled(e), labels[e].barrier = "tp",
                      NEW j \in e + 1 .. labels[e].t1, HitSl(bars, e, j)
               PROVE  FALSE
    BY DEF WinsAreCertain
  <2> DEFINE t == LabelOf(bars, e).t1
  <2>1. Kept(e) /\ t = labels[e].t1 /\ LabelOf(bars, e).barrier = "tp"
    BY <1>1, WeightedIs DEF LabelInv, Kept
  <2>2. e \in Events(bars) /\ bars \in Seq(Shapes)
    BY <1>1, <2>1 DEF LabelInv, Kept
  <2>3. Touches(bars, e) # {} /\ Outcome(bars, e, Min(Touches(bars, e))) = "tp"
        /\ t = Min(Touches(bars, e))
    BY <2>1 DEF LabelOf
  <2>4. t \in Touches(bars, e) /\ \A i \in Touches(bars, e) : t <= i
    BY <2>2, <2>3, LabelIs
  <2>5. ~ HitSl(bars, e, t)
    BY <2>3 DEF Outcome
  <2>6. t \in e + 1 .. EndBar(bars, e) /\ EndBar(bars, e) \in Int /\ e \in Nat
    BY <2>2, <2>4, EventIs
  <2>7. j \in e + 1 .. t /\ j \in e + 1 .. EndBar(bars, e)
    <3>1. j \in e + 1 .. t
      BY <2>1
    <3> HIDE DEF t
    <3> QED BY <2>6, <3>1
  <2>8. j \in Touches(bars, e)
    BY <2>7 DEF Touches
  <2>9. j = t
    <3>1. t <= j
      BY <2>4, <2>8
    <3> HIDE DEF t
    <3> QED BY <2>6, <2>7, <3>1
  <2> QED BY <2>5, <2>9
<1> QED BY <1>1, LabelInvariant, PTL

(* A bet the meta-model is taught to take has gained, long or short, by    *)
(* barrier or by timeout, wherever the profit barrier is off the entry.    *)
THEOREM TakenBetsHaveGained ==
  ASSUME TpMult > 0
  PROVE  LabelSpec => []TakenBetsGain
<1>1. LabelInv => TakenBetsGain
  BY DEF LabelInv, Kept, TakenBetsGain
<1> QED BY <1>1, LabelInvariant, PTL

LEMMA Divides ==
  ASSUME NEW u \in Nat, NEW c \in Nat \ {0}, u % c = 0
  PROVE  u \div c \in Nat /\ c * (u \div c) = u
<1>1. u = c * (u \div c) + (u % c) /\ u \div c \in Int /\ u % c \in Nat
  OBVIOUS
<1>2. u \div c >= 0
  OBVIOUS
<1> QED BY <1>1, <1>2

(* At most Vertical + 1 labels are live at a bar: those that began in the  *)
(* Vertical bars before it, or at it.                                      *)
LEMMA ConcurrencyBounded ==
  ASSUME LabelInv, NEW e \in DOMAIN labels, NEW b \in e .. labels[e].t1
  PROVE  /\ Concurrency(Ends, b) \in 1 .. Vertical + 1
         /\ Concurrency(Ends, b) * (Unit \div Concurrency(Ends, b)) = Unit
         /\ Unit \div Concurrency(Ends, b) \in Nat
<1> DEFINE L == Live(Ends, b)
<1>1. Vertical \in Nat /\ Unit \in Nat
  BY LabelingAssumption
<1>2. \A f \in DOMAIN labels : f \in Nat /\ labels[f].t1 \in Nat /\ labels[f].t1 <= f + Vertical
  <2> TAKE f \in DOMAIN labels
  <2>1. Kept(f) /\ bars \in Seq(Shapes) /\ horizon \in Nat
    BY DEF LabelInv
  <2>2. f \in Nat
    BY <2>1, EventIs DEF Kept
  <2> QED BY <2>1, <2>2 DEF Kept
<1>3. b \in Nat /\ e <= b /\ b <= labels[e].t1
  BY <1>2
<1>4. L \subseteq b - Vertical .. b
  <2> SUFFICES ASSUME NEW f \in L PROVE f \in b - Vertical .. b
    OBVIOUS
  <2>1. f \in DOMAIN labels /\ f <= b /\ b <= labels[f].t1
    BY DEF Live, Ends
  <2> QED BY <1>1, <1>2, <1>3, <2>1
<1>5. e \in L
  BY <1>3 DEF Live, Ends
<1>6. IsFiniteSet(b - Vertical .. b) /\ Cardinality(b - Vertical .. b) = Vertical + 1
  <2>1. b - Vertical \in Int /\ b \in Int /\ ~ (b - Vertical > b) /\ b - (b - Vertical) + 1 = Vertical + 1
    BY <1>1, <1>3
  <2> QED BY <2>1, FS_Interval
<1>7. IsFiniteSet(L) /\ Cardinality(L) <= Vertical + 1
  <2> HIDE DEF L
  <2> QED BY <1>4, <1>6, FS_Subset
<1>8. Cardinality(L) \in Nat /\ Cardinality(L) # 0
  <2> HIDE DEF L
  <2> QED BY <1>5, <1>7, FS_CardinalityType, FS_EmptySet
<1>9. Cardinality(L) \in 1 .. Vertical + 1
  BY <1>1, <1>7, <1>8
<1>10. Unit % Cardinality(L) = 0
  BY <1>9, LabelingAssumption
<1>11. Concurrency(Ends, b) = Cardinality(L)
  BY DEF Concurrency
<1> HIDE DEF L
<1> QED BY <1>1, <1>8, <1>9, <1>10, <1>11, Divides

(* Over all labels, every bar some label covers is counted exactly once:   *)
(* the shares, summed label by label, are the bars summed bar by bar, and  *)
(* a bar with c live labels is shared c times.                             *)
THEOREM SharesAddUp == LabelSpec => []InformationCountedOnce
<1>1. ASSUME LabelInv PROVE InformationCountedOnce
  <2> DEFINE E == DOMAIN labels
             B == UNION {e .. labels[e].t1 : e \in E}
             w == [b \in B |-> Unit \div Concurrency(Ends, b)]
             span == [e \in E |-> e .. labels[e].t1]
             inner == [e \in E |-> Share(Ends, e)]
             counted == [b \in B |-> Unit]
  <2>1. Len(bars) \in Nat /\ bars \in Seq(Shapes) /\ horizon \in 0 .. Len(bars)
    BY <1>1 DEF LabelInv
  <2>2. \A e \in E : e \in 1 .. Len(bars) /\ labels[e].t1 \in 1 .. Len(bars)
    <3> TAKE e \in E
    <3>1. Kept(e)
      BY <1>1 DEF LabelInv
    <3>2. e \in Nat \ {0} /\ e < Len(bars)
      BY <2>1, <3>1, EventIs DEF Kept
    <3> QED BY <2>1, <3>1, <3>2 DEF Kept
  <2>3. IsFiniteSet(E) /\ IsFiniteSet(B)
    <3>1. IsFiniteSet(1 .. Len(bars))
      BY <2>1, FS_Interval
    <3>2. E \in SUBSET (1 .. Len(bars)) /\ B \in SUBSET (1 .. Len(bars))
      BY <2>1, <2>2
    <3> HIDE DEF E, B
    <3> QED BY <3>1, <3>2, FS_Subset
  <2>4. ASSUME NEW b \in B
        PROVE  /\ w[b] \in Int
               /\ counted[b] = Cardinality({e \in E : b \in span[e]}) * w[b]
    <3>1. PICK e \in E : b \in e .. labels[e].t1
      OBVIOUS
    <3>2. /\ Concurrency(Ends, b) \in 1 .. Vertical + 1
          /\ Concurrency(Ends, b) * (Unit \div Concurrency(Ends, b)) = Unit
          /\ Unit \div Concurrency(Ends, b) \in Nat
      BY <1>1, <3>1, ConcurrencyBounded
    <3>3. {f \in E : b \in span[f]} = Live(Ends, b)
      <4>1. b \in Int
        BY <2>2, <3>1
      <4>2. \A f \in E : b \in span[f] <=> (f <= b /\ b <= Ends[f])
        BY <2>2, <4>1 DEF Ends
      <4> QED BY <4>2 DEF Live, Ends
    <3>4. w[b] = Unit \div Concurrency(Ends, b) /\ counted[b] = Unit
      OBVIOUS
    <3>5. Concurrency(Ends, b) = Cardinality({f \in E : b \in span[f]})
      BY <3>3 DEF Concurrency
    <3> HIDE DEF E, B, w, span, counted
    <3> QED BY <3>2, <3>4, <3>5
  <2>5. ASSUME NEW e \in E PROVE span[e] \subseteq B /\ inner[e] = SumFunctionOnSet(w, span[e])
    <3>1. span[e] \in SUBSET B
      OBVIOUS
    <3>2. IsFiniteSet(span[e])
      <4> HIDE DEF span, B
      <4> QED BY <2>3, <3>1, FS_Subset
    <3> DEFINE f == [b \in e .. labels[e].t1 |-> Unit \div Concurrency(Ends, b)]
    <3>3. inner[e] = SumFunctionOnSet(f, span[e])
      BY DEF Share, Ends, SumFunction
    <3>4. \A b \in span[e] : f[b] \in Int /\ f[b] = w[b]
      BY <2>4, <3>1
    <3>5. SumFunctionOnSet(f, span[e]) = SumFunctionOnSet(w, span[e])
      <4> HIDE DEF f, span, w
      <4> QED BY <3>2, <3>4, SumEqual
    <3> QED BY <3>1, <3>3, <3>5
  <2>6. SumFunctionOnSet(inner, E) = SumFunctionOnSet(counted, B)
    <3>1. /\ \A b \in B : w[b] \in Int
          /\ \A b \in B : counted[b] = Cardinality({e \in E : b \in span[e]}) * w[b]
          /\ \A e \in E : span[e] \subseteq B
          /\ \A e \in E : inner[e] = SumFunctionOnSet(w, span[e])
      BY <2>4, <2>5
    <3> HIDE DEF E, B, w, span, inner, counted
    <3> QED BY <2>3, <3>1, DoubleCount
  <2>7. SumFunctionOnSet(counted, B) = Unit * Cardinality(B)
    <3>1. (\A b \in B : counted[b] = Unit) /\ Unit \in Int
      BY LabelingAssumption
    <3> HIDE DEF B, counted
    <3> QED BY <2>3, <3>1, SumConstant
  <2> QED BY <2>6, <2>7 DEF InformationCountedOnce, SumFunction
<1> QED BY <1>1, LabelInvariant, PTL

-----------------------------------------------------------------------------
(* The slope of a trend.                                                   *)

(* The sums of a slope. *)
Pairs(e, span) == {p \in (e .. e + span) \X (e .. e + span) : p[1] < p[2]}
RunSquares(e, span) == [p \in Pairs(e, span) |-> (p[2] - p[1]) * (p[2] - p[1])]
RunRises(bs, e, span) ==
  [p \in Pairs(e, span) |-> (p[2] - p[1]) * (bs[p[2]].close - bs[p[1]].close)]
RiseSquares(bs, e, span) ==
  [p \in Pairs(e, span) |-> (bs[p[2]].close - bs[p[1]].close) * (bs[p[2]].close - bs[p[1]].close)]

LEMMA SlopeSums ==
  ASSUME NEW bs, NEW e, NEW span, NEW rounded
  PROVE  Slope(bs, e, span, rounded)
           = TValue(span + 1, SumFunctionOnSet(RunSquares(e, span), Pairs(e, span)),
                              SumFunctionOnSet(RunRises(bs, e, span), Pairs(e, span)),
                              SumFunctionOnSet(RiseSquares(bs, e, span), Pairs(e, span)), rounded[span])
BY Zenon DEF Slope, Pairs, RunSquares, RunRises, RiseSquares, SumFunction

(* Prices that are integers, over a span of bars. *)
Priced(bs, e, span) == \A i \in e .. e + span : bs[i].close \in Int

LEMMA PairsAre ==
  ASSUME NEW e \in Nat, NEW span \in Nat \ {0}
  PROVE  /\ IsFiniteSet(Pairs(e, span)) /\ <<e, e + 1>> \in Pairs(e, span)
         /\ \A p \in Pairs(e, span) : /\ p[1] \in e .. e + span /\ p[2] \in e .. e + span
                                      /\ p[2] - p[1] \in Nat \ {0}
<1>1. IsFiniteSet(e .. e + span)
  BY FS_Interval
<1>2. IsFiniteSet((e .. e + span) \X (e .. e + span))
  BY <1>1, FS_Product
<1>3. IsFiniteSet(Pairs(e, span))
  BY <1>2, FS_Subset DEF Pairs
<1>4. <<e, e + 1>> \in Pairs(e, span)
  BY DEF Pairs
<1> QED BY <1>3, <1>4 DEF Pairs

Slopes == [num : Nat, den : Nat \ {0}, sign : {-1, 0, 1}]

LEMMA SignIs ==
  ASSUME NEW i \in Int
  PROVE  Sign(i) \in {-1, 0, 1} /\ Sign(- i) = - Sign(i)
BY DEF Sign

LEMMA SlopeIs ==
  ASSUME NEW bs, NEW e \in Nat, NEW span \in Nat \ {0}, Priced(bs, e, span),
         NEW rounded, rounded[span] \in Nat
  PROVE  Slope(bs, e, span, rounded) \in Slopes
<1> DEFINE P == Pairs(e, span)
           x == [p \in P |-> p[2] - p[1]]
           y == [p \in P |-> bs[p[2]].close - bs[p[1]].close]
           f == RunSquares(e, span)
           g == RunRises(bs, e, span)
           h == RiseSquares(bs, e, span)
           xx == SumFunctionOnSet(f, P)
           xy == SumFunctionOnSet(g, P)
           yy == SumFunctionOnSet(h, P)
<1>1. IsFiniteSet(P) /\ <<e, e + 1>> \in P
  BY PairsAre
<1>2. ASSUME NEW p \in P
      PROVE  /\ x[p] \in Nat \ {0} /\ x[p] \in Int /\ y[p] \in Int
             /\ f[p] = x[p] * x[p] /\ g[p] = x[p] * y[p] /\ h[p] = y[p] * y[p]
  <2>1. p[1] \in e .. e + span /\ p[2] \in e .. e + span /\ p[2] - p[1] \in Nat \ {0}
    BY PairsAre
  <2>2. bs[p[1]].close \in Int /\ bs[p[2]].close \in Int
    BY <2>1 DEF Priced
  <2> QED BY <2>1, <2>2 DEF RunSquares, RunRises, RiseSquares
<1> HIDE DEF P, x, y, f, g, h
<1>3. ASSUME NEW p \in P PROVE f[p] \in Nat /\ 0 < f[p]
  <2>1. PICK k \in Nat \ {0} : k = x[p]
    BY <1>2
  <2>2. k * k \in Nat /\ 0 < k * k
    BY <2>1
  <2> QED BY <1>2, <2>1, <2>2
<1>4. xx \in Nat /\ \A p \in P : f[p] <= xx
  BY <1>1, <1>3, SumPositive
<1>5. 0 < xx
  BY <1>1, <1>3, <1>4
<1>6. xx \in Int /\ xy \in Int /\ yy \in Int /\ xy * xy <= xx * yy
  <2>1. ProductsOf(P, x, y, f, g, h)
    BY <1>2 DEF ProductsOf
  <2> QED BY <1>1, <1>5, <2>1, SumSchwarz
<1>7. Slope(bs, e, span, rounded) = TValue(span + 1, xx, xy, yy, rounded[span])
  BY SlopeSums DEF P, f, g, h
<1> HIDE DEF xx, xy, yy
<1>8. Sign(xy) \in {-1, 0, 1}
  BY <1>6, SignIs
<1>9. CASE span + 1 < 3
  <2>1. TValue(span + 1, xx, xy, yy, rounded[span]) = [num |-> 0, den |-> 1, sign |-> 0]
    BY <1>9 DEF TValue
  <2> QED BY <1>7, <2>1 DEF Slopes
<1>10. CASE span + 1 >= 3 /\ xx * yy = xy * xy
  <2>1. TValue(span + 1, xx, xy, yy, rounded[span])
          = [num |-> IF xy = 0 THEN 0 ELSE rounded[span], den |-> 1, sign |-> Sign(xy)]
    BY <1>10 DEF TValue
  <2> QED BY <1>7, <1>8, <2>1 DEF Slopes
<1>11. CASE span + 1 >= 3 /\ xx * yy # xy * xy
  <2> DEFINE q == xy * xy
             r == xx * yy
             u == (span + 1 - 2) * xy * xy
  <2>1. TValue(span + 1, xx, xy, yy, rounded[span])
          = [num |-> (span + 1 - 2) * xy * xy, den |-> xx * yy - xy * xy, sign |-> Sign(xy)]
    BY <1>11 DEF TValue
  <2>2. q \in Int /\ r \in Int /\ q <= r /\ q # r
    BY <1>6, <1>11
  <2>3. q \in Nat
    <3>1. CASE xy >= 0
      BY <1>6, <3>1
    <3>2. CASE xy < 0
      <4>1. - xy \in Nat /\ (- xy) * (- xy) = xy * xy
        BY <1>6, <3>2
      <4>2. (- xy) * (- xy) \in Nat
        BY <4>1
      <4> QED BY <4>1, <4>2
    <3> QED BY <1>6, <3>1, <3>2
  <2>4. u = (span - 1) * q /\ span - 1 \in Nat
    <3>1. span + 1 - 2 = span - 1 /\ span - 1 \in Nat
      BY <1>11
    <3>2. (span - 1) * xy * xy = (span - 1) * (xy * xy)
      BY <1>6, <3>1
    <3> QED BY <3>1, <3>2
  <2>5. r - q \in Nat \ {0}
    <3> HIDE DEF q, r
    <3> QED BY <2>2
  <2>6. u \in Nat
    <3> HIDE DEF q, u
    <3> QED BY <2>3, <2>4
  <2> HIDE DEF u
  <2>7. [num |-> u, den |-> r - q, sign |-> Sign(xy)] \in Slopes
    <3> HIDE DEF q, r
    <3> QED BY <1>8, <2>5, <2>6 DEF Slopes
  <2> QED BY <1>7, <2>1, <2>7 DEF u
<1> QED BY <1>9, <1>10, <1>11

Turned(s) == [num |-> s.num, den |-> s.den, sign |-> - s.sign]

LEMMA SlopeMirrored ==
  ASSUME NEW bs, NEW cs, NEW e \in Nat, NEW span \in Nat \ {0}, NEW rounded,
         Priced(bs, e, span), \A i \in e .. e + span : cs[i].close = - bs[i].close
  PROVE  Slope(cs, e, span, rounded) = Turned(Slope(bs, e, span, rounded))
<1> DEFINE P == Pairs(e, span)
           xx == SumFunctionOnSet(RunSquares(e, span), P)
           xy == SumFunctionOnSet(RunRises(bs, e, span), P)
           yy == SumFunctionOnSet(RiseSquares(bs, e, span), P)
           ny == SumFunctionOnSet(RunRises(cs, e, span), P)
           nn == SumFunctionOnSet(RiseSquares(cs, e, span), P)
<1>1. IsFiniteSet(P)
  BY PairsAre
<1>2. ASSUME NEW p \in P
      PROVE  /\ RunSquares(e, span)[p] \in Int
             /\ RunRises(bs, e, span)[p] \in Int /\ RiseSquares(bs, e, span)[p] \in Int
             /\ RunRises(cs, e, span)[p] = (-1) * RunRises(bs, e, span)[p]
             /\ RiseSquares(bs, e, span)[p] = RiseSquares(cs, e, span)[p]
  <2>1. p[1] \in e .. e + span /\ p[2] \in e .. e + span /\ p[2] - p[1] \in Nat \ {0}
    BY PairsAre
  <2>2. PICK u \in Int, v \in Int : u = bs[p[1]].close /\ v = bs[p[2]].close
    BY <2>1 DEF Priced
  <2>3. cs[p[1]].close = - u /\ cs[p[2]].close = - v
    BY <2>1, <2>2
  <2>4. PICK k \in Nat : k = p[2] - p[1]
    BY <2>1
  <2>5. /\ RunSquares(e, span)[p] = k * k
        /\ RunRises(bs, e, span)[p] = k * (v - u) /\ RiseSquares(bs, e, span)[p] = (v - u) * (v - u)
        /\ RunRises(cs, e, span)[p] = k * ((- v) - (- u))
        /\ RiseSquares(cs, e, span)[p] = ((- v) - (- u)) * ((- v) - (- u))
    BY <2>2, <2>3, <2>4 DEF RunSquares, RunRises, RiseSquares
  <2>6. k * ((- v) - (- u)) = (-1) * (k * (v - u)) /\ (v - u) * (v - u) = ((- v) - (- u)) * ((- v) - (- u))
    OBVIOUS
  <2>7. k * k \in Int /\ k * (v - u) \in Int /\ (v - u) * (v - u) \in Int
    OBVIOUS
  <2> QED BY <2>5, <2>6, <2>7
<1>3. xx \in Int /\ xy \in Int /\ yy \in Int
  BY <1>1, <1>2, SumInt
<1>4. ny = (-1) * xy
  BY <1>1, <1>2, SumTimes
<1>5. nn = yy
  BY <1>1, <1>2, SumEqual
<1>6. /\ Slope(bs, e, span, rounded) = TValue(span + 1, xx, xy, yy, rounded[span])
      /\ Slope(cs, e, span, rounded) = TValue(span + 1, xx, ny, nn, rounded[span])
  BY SlopeSums
<1> HIDE DEF xx, xy, yy, ny, nn
<1>7. ny = - xy /\ ny * ny = xy * xy /\ Sign(ny) = - Sign(xy)
  BY <1>3, <1>4, SignIs
<1>8. (span + 1 - 2) * ny * ny = (span + 1 - 2) * xy * xy
  BY <1>3, <1>7
<1>9. CASE span + 1 < 3
  <2>1. Slope(bs, e, span, rounded) = [num |-> 0, den |-> 1, sign |-> 0]
    BY <1>6, <1>9 DEF TValue
  <2>2. Slope(cs, e, span, rounded) = [num |-> 0, den |-> 1, sign |-> 0]
    BY <1>6, <1>9 DEF TValue
  <2> QED BY <2>1, <2>2 DEF Turned
<1>10. CASE span + 1 >= 3 /\ xx * yy = xy * xy
  <2>1. Slope(bs, e, span, rounded)
          = [num |-> IF xy = 0 THEN 0 ELSE rounded[span], den |-> 1, sign |-> Sign(xy)]
    BY <1>6, <1>10 DEF TValue
  <2>2. Slope(cs, e, span, rounded)
          = [num |-> IF ny = 0 THEN 0 ELSE rounded[span], den |-> 1, sign |-> Sign(ny)]
    BY <1>5, <1>6, <1>7, <1>10 DEF TValue
  <2>3. ny = 0 <=> xy = 0
    BY <1>3, <1>7
  <2> QED BY <1>7, <2>1, <2>2, <2>3 DEF Turned
<1>11. CASE span + 1 >= 3 /\ xx * yy # xy * xy
  <2>1. Slope(bs, e, span, rounded)
          = [num |-> (span + 1 - 2) * xy * xy, den |-> xx * yy - xy * xy, sign |-> Sign(xy)]
    BY <1>6, <1>11 DEF TValue
  <2>2. Slope(cs, e, span, rounded)
          = [num |-> (span + 1 - 2) * ny * ny, den |-> xx * yy - ny * ny, sign |-> Sign(ny)]
    BY <1>5, <1>6, <1>7, <1>11 DEF TValue
  <2> QED BY <1>7, <1>8, <2>1, <2>2 DEF Turned
<1> QED BY <1>9, <1>10, <1>11

-----------------------------------------------------------------------------
(* The scan. *)

Scans == [span : Nat, slope : Slopes]

(* The horizons in the order of the scan. *)
Scanned(bs, e) == [i \in 1 .. Cardinality(Horizons(bs, e)) |-> MinHorizon + i - 1]

(* The best horizon after initial sets of turns. *)
Scanning(g, bs, e, rounded) ==
  \A s \in SUBSET DOMAIN Scanned(bs, e) :
    g[s] = IF s = {} THEN NoTrend ELSE Better(bs, e, g[s \ {Max(s)}], Scanned(bs, e)[Max(s)], rounded)

(* The bars from e on have prices. *)
PricedFrom(bs, e) == \A i \in e .. Len(bs) : bs[i].close \in Int

LEMMA ScannedIs ==
  ASSUME NEW bs, Len(bs) \in Nat, NEW e \in 1 .. Len(bs)
  PROVE  /\ Scanned(bs, e) \in Seq(Horizons(bs, e))
         /\ \A span \in Horizons(bs, e) : /\ span \in Nat \ {0} /\ e + span <= Len(bs)
                                          /\ \E i \in DOMAIN Scanned(bs, e) : Scanned(bs, e)[i] = span
<1> DEFINE top == Earlier(MaxHorizon, Len(bs) - e)
           n == Cardinality(Horizons(bs, e))
<1>1. MinHorizon \in Nat \ {0} /\ MaxHorizon \in Nat
  BY LabelingAssumption
<1>2. top \in Nat /\ top <= Len(bs) - e /\ Horizons(bs, e) = MinHorizon .. top
  BY <1>1 DEF Earlier, Horizons
<1> HIDE DEF top
<1>3. n = IF MinHorizon > top THEN 0 ELSE top - MinHorizon + 1
  BY <1>1, <1>2, FS_Interval
<1>4. n \in Nat /\ Scanned(bs, e) = [i \in 1 .. n |-> MinHorizon + i - 1]
  BY <1>1, <1>2, <1>3 DEF Scanned
<1> HIDE DEF n
<1>5. \A i \in 1 .. n : MinHorizon + i - 1 \in Horizons(bs, e)
  BY <1>1, <1>2, <1>3, <1>4
<1>6. Scanned(bs, e) \in Seq(Horizons(bs, e))
  BY <1>4, <1>5
<1>7. ASSUME NEW span \in Horizons(bs, e)
      PROVE  /\ span \in Nat \ {0} /\ e + span <= Len(bs)
             /\ \E i \in DOMAIN Scanned(bs, e) : Scanned(bs, e)[i] = span
  <2>1. span - MinHorizon + 1 \in 1 .. n
    BY <1>1, <1>2, <1>3
  <2>2. Scanned(bs, e)[span - MinHorizon + 1] = span
    BY <1>1, <1>2, <1>4, <2>1
  <2> QED BY <1>1, <1>2, <1>4, <2>1, <2>2
<1> QED BY <1>6, <1>7

LEMMA SlopeTyped ==
  ASSUME NEW bs, Len(bs) \in Nat, NEW e \in 1 .. Len(bs), PricedFrom(bs, e), NEW span \in Horizons(bs, e),
         NEW rounded \in [Horizons(bs, e) -> Nat]
  PROVE  span \in Nat \ {0} /\ Priced(bs, e, span) /\ Slope(bs, e, span, rounded) \in Slopes
<1>1. span \in Nat \ {0} /\ e + span <= Len(bs)
  BY ScannedIs
<1>2. Priced(bs, e, span)
  BY <1>1 DEF PricedFrom, Priced
<1> QED BY <1>1, <1>2, SlopeIs

LEMMA TrendIs ==
  ASSUME NEW bs, Len(bs) \in Nat, NEW e \in 1 .. Len(bs), PricedFrom(bs, e),
         NEW rounded \in [Horizons(bs, e) -> Nat]
  PROVE  /\ IsFiniteSet(DOMAIN Scanned(bs, e))
         /\ Picks(Latest(Scanned(bs, e)), DOMAIN Scanned(bs, e))
         /\ \E g : /\ Scanning(g, bs, e, rounded)
                   /\ LET best == g[DOMAIN Scanned(bs, e)]
                      IN TrendOf(bs, e, rounded) = [t1 |-> e + best.span,
                                           label |-> IF best.slope.num >= TThreshold * TThreshold * best.slope.den
                                                     THEN best.slope.sign ELSE 0]
<1> DEFINE seq == Scanned(bs, e)
           D == DOMAIN seq
           T == Horizons(bs, e)
           step == [tv \in T \X Scans |-> Better(bs, e, tv[2], tv[1], rounded)]
           Eqn(g) == g = [s \in SUBSET D |->
                            IF s = {} THEN NoTrend ELSE Better(bs, e, g[s \ {Max(s)}], seq[Max(s)], rounded)]
           c == CHOOSE c : Eqn(c)
<1>1. seq \in Seq(T)
  BY ScannedIs
<1>2. NoTrend \in Scans
  BY LabelingAssumption DEF NoTrend, Scans, Slopes
<1>3. ASSUME NEW t \in T, NEW v \in Scans PROVE Better(bs, e, v, t, rounded) \in Scans
  BY SlopeTyped DEF Better, Scans
<1> HIDE DEF T
<1>4. step \in [T \X Scans -> Scans]
  BY <1>3
<1>5. IsFiniteSet(D) /\ Picks(Latest(seq), D) /\ \E g : LeftFoldOf(g, seq, Scans, NoTrend, step)
  <2> HIDE DEF step, seq
  <2> QED BY <1>1, <1>2, <1>4, LeftFoldExists, Zenon
<1>6. PICK g : LeftFoldOf(g, seq, Scans, NoTrend, step)
  BY <1>5, Zenon
<1>7. ASSUME NEW s \in SUBSET D
      PROVE  g[s] = IF s = {} THEN NoTrend ELSE Better(bs, e, g[s \ {Max(s)}], seq[Max(s)], rounded)
  <2> HIDE DEF seq
  <2>1. CASE s # {}
    <3>1. Max(s) \in D
      BY <1>5, <2>1 DEF Picks, Latest
    <3>2. seq[Max(s)] \in T
      BY <1>1, <3>1
    <3>3. g[s \ {Max(s)}] \in Scans
      BY <1>6 DEF LeftFoldOf
    <3>4. g[s] = step[<<seq[Max(s)], g[s \ {Max(s)}]>>]
      BY <1>6, <2>1 DEF LeftFoldOf
    <3> QED BY <2>1, <3>2, <3>3, <3>4
  <2>2. CASE s = {}
    BY <1>6, <2>2 DEF LeftFoldOf
  <2> QED BY <2>1, <2>2
<1>8. Eqn(g)
  <2>1. g = [s \in SUBSET D |-> g[s]]
    BY <1>6 DEF LeftFoldOf
  <2> HIDE DEF D, seq
  <2> QED BY <1>7, <2>1
<1>9. Eqn(c)
  <2> HIDE DEF Eqn
  <2> QED BY <1>8
<1>10. Scanning(c, bs, e, rounded)
  <2>1. ASSUME NEW s \in SUBSET D
        PROVE  c[s] = IF s = {} THEN NoTrend ELSE Better(bs, e, c[s \ {Max(s)}], seq[Max(s)], rounded)
    <3> HIDE DEF c, D, seq
    <3> QED BY <1>9
  <2> HIDE DEF c
  <2> QED BY <2>1 DEF Scanning
<1>11. TrendOf(bs, e, rounded) = [t1 |-> e + c[D].span,
                         label |-> IF c[D].slope.num >= TThreshold * TThreshold * c[D].slope.den
                                   THEN c[D].slope.sign ELSE 0]
  BY Zenon DEF TrendOf, Scanned, FoldLeft, MapThenFoldSet
<1> HIDE DEF c
<1> QED BY <1>5, <1>10, <1>11

-----------------------------------------------------------------------------
LEMMA NotStronger ==
  ASSUME NEW a \in Slopes, NEW b \in Slopes, NEW c \in Slopes, ~ Stronger(a, b), Stronger(c, b)
  PROVE  ~ Stronger(a, c)
<1> DEFINE an == a.num  ad == a.den  bn == b.num  bd == b.den  cn == c.num  cd == c.den
<1>1. /\ an \in Nat /\ bn \in Nat /\ cn \in Nat
      /\ ad \in Nat \ {0} /\ bd \in Nat \ {0} /\ cd \in Nat \ {0}
  BY DEF Slopes
<1>2. ~ (an * bd > bn * ad) /\ cn * bd > bn * cd
  BY DEF Stronger
<1>3. (Stronger(a, c) <=> an * cd > cn * ad)
  BY DEF Stronger
<1> HIDE DEF an, ad, bn, bd, cn, cd
<1>4. /\ an * bd \in Int /\ bn * ad \in Int /\ cn * bd \in Int /\ bn * cd \in Int
      /\ an * cd \in Int /\ cn * ad \in Int
  BY <1>1
<1>5. an * bd <= bn * ad /\ bn * cd <= cn * bd
  BY <1>2, <1>4
<1>6. (an * bd) * cd <= (bn * ad) * cd /\ (bn * cd) * ad <= (cn * bd) * ad
  BY <1>1, <1>4, <1>5, TimesMonotone
<1>7. /\ (an * bd) * cd = (an * cd) * bd /\ (bn * ad) * cd = (bn * cd) * ad
      /\ (cn * bd) * ad = (cn * ad) * bd
  BY <1>1
<1>8. (an * cd) * bd \in Int /\ (bn * cd) * ad \in Int /\ (cn * ad) * bd \in Int
  BY <1>1
<1>9. (an * cd) * bd <= (cn * ad) * bd
  BY <1>6, <1>7, <1>8
<1>10. an * cd <= cn * ad
  BY <1>1, <1>4, <1>9, Cancel
<1> QED BY <1>3, <1>4, <1>10

LEMMA NeverStronger ==
  ASSUME NEW a \in Slopes, NEW b \in Slopes
  PROVE  /\ ~ Stronger(a, a)
         /\ Stronger(Turned(a), Turned(b)) <=> Stronger(a, b)
         /\ Stronger(b, a) => ~ Stronger(a, b)
<1>1. a.num \in Nat /\ a.den \in Nat /\ b.num \in Nat /\ b.den \in Nat
  BY DEF Slopes
<1>2. a.num * b.den \in Int /\ b.num * a.den \in Int /\ a.num * a.den \in Int
  BY <1>1
<1> QED BY <1>2 DEF Stronger, Turned

(* Whatever is stronger has a t-value, and it reaches what the other does. *)
LEMMA StrongerThan ==
  ASSUME NEW a \in Slopes, NEW b \in Slopes
  PROVE  /\ Stronger(a, b) => a.num > 0
         /\ ~ Stronger(a, b) /\ Reached(a) => Reached(b)
<1> DEFINE an == a.num  ad == a.den  bn == b.num  bd == b.den  k == TThreshold * TThreshold
<1>1. an \in Nat /\ bn \in Nat /\ ad \in Nat \ {0} /\ bd \in Nat \ {0} /\ k \in Nat
  BY LabelingAssumption DEF Slopes
<1>2. /\ Stronger(a, b) <=> an * bd > bn * ad
      /\ Reached(a) <=> an > 0 /\ an >= k * ad
      /\ Reached(b) <=> bn > 0 /\ bn >= k * bd
  BY DEF Stronger, Reached
<1> HIDE DEF an, ad, bn, bd, k
<1>3. an * bd \in Nat /\ bn * ad \in Nat /\ k * ad \in Nat /\ k * bd \in Nat
  BY <1>1
<1>4. ASSUME an * bd > bn * ad PROVE an > 0
  <2>1. an # 0
    BY <1>1, <1>3, <1>4
  <2> QED BY <1>1, <2>1
<1>5. ASSUME an * bd <= bn * ad, an > 0, an >= k * ad PROVE bn > 0 /\ bn >= k * bd
  <2>1. (k * ad) * bd <= an * bd
    BY <1>1, <1>3, <1>5, TimesMonotone
  <2>2. (k * ad) * bd = (k * bd) * ad
    BY <1>1
  <2>3. (k * bd) * ad \in Nat
    BY <1>1, <1>3
  <2>4. (k * bd) * ad <= bn * ad
    BY <1>3, <1>5, <2>1, <2>2, <2>3
  <2>5. k * bd <= bn
    BY <1>1, <1>3, <2>4, Cancel
  <2>6. an * bd > 0
    BY <1>1, <1>5
  <2>7. bn # 0
    BY <1>1, <1>3, <1>5, <2>6
  <2> QED BY <1>1, <1>3, <2>5, <2>7
<1>6. ~ (an * bd > bn * ad) => an * bd <= bn * ad
  BY <1>3
<1>7. (a.num > 0) <=> (an > 0)
  BY DEF an
<1> QED BY <1>2, <1>4, <1>5, <1>6, <1>7, Zenon

(* What the scan keeps after the turns in s. *)
ScanKeeps(g, bs, e, s, rounded) ==
  /\ g[s] \in Scans
  /\ \A i \in s : ~ Stronger(Slope(bs, e, Scanned(bs, e)[i], rounded), g[s].slope)
  /\ \/ g[s] = NoTrend
     \/ /\ g[s].span \in Horizons(bs, e) /\ g[s].slope = Slope(bs, e, g[s].span, rounded)
        /\ g[s].slope.num > 0

LEMMA ScanKeepsAll ==
  ASSUME NEW bs, Len(bs) \in Nat, NEW e \in 1 .. Len(bs), PricedFrom(bs, e),
         NEW rounded \in [Horizons(bs, e) -> Nat], NEW g, Scanning(g, bs, e, rounded)
  PROVE  ScanKeeps(g, bs, e, DOMAIN Scanned(bs, e), rounded)
<1> DEFINE seq == Scanned(bs, e)
           D == DOMAIN seq
           pick == Latest(seq)
           Good == {s \in SUBSET D : ScanKeeps(g, bs, e, s, rounded)}
<1>1. IsFiniteSet(D) /\ Picks(pick, D) /\ seq \in Seq(Horizons(bs, e))
  BY TrendIs, ScannedIs
<1>2. {} \in Good
  <2>1. g[{}] = NoTrend
    BY DEF Scanning
  <2>2. NoTrend \in Scans
    BY LabelingAssumption DEF NoTrend, Scans, Slopes
  <2> QED BY <2>1, <2>2 DEF ScanKeeps
<1>3. ASSUME NEW s \in SUBSET D, s # {}, s \ {pick[s]} \in Good PROVE s \in Good
  <2> DEFINE m == Max(s)
             r == s \ {m}
             new == Slope(bs, e, seq[m], rounded)
             old == g[r]
  <2>1. m \in s /\ pick[s] = m
    BY <1>1, <1>3 DEF Picks, Latest
  <2>2. seq[m] \in Horizons(bs, e)
    BY <1>1, <2>1
  <2>3. new \in Slopes /\ seq[m] \in Nat
    BY <2>2, SlopeTyped
  <2>4. ScanKeeps(g, bs, e, r, rounded)
    BY <1>3, <2>1
  <2>5. g[s] = IF Stronger(new, old.slope) THEN [span |-> seq[m], slope |-> new] ELSE old
    BY <1>3 DEF Scanning, Better
  <2>6. old \in Scans /\ old.slope \in Slopes
    BY <2>4 DEF ScanKeeps, Scans
  <2>7. \A i \in r : Slope(bs, e, seq[i], rounded) \in Slopes /\ ~ Stronger(Slope(bs, e, seq[i], rounded), old.slope)
    <3> TAKE i \in r
    <3>1. seq[i] \in Horizons(bs, e)
      BY <1>1
    <3> QED BY <2>4, <3>1, SlopeTyped DEF ScanKeeps
  <2>8. \A i \in s : i \in r \/ i = m
    OBVIOUS
  <2> HIDE DEF m, r, new, old, seq
  <2>9. CASE Stronger(new, old.slope)
    <3>1. g[s] = [span |-> seq[m], slope |-> new]
      BY <2>5, <2>9
    <3>2. g[s] \in Scans /\ g[s].slope = new /\ g[s].span = seq[m]
      BY <2>3, <3>1 DEF Scans
    <3>3. ~ Stronger(new, new)
      BY <2>3, NeverStronger
    <3>4. \A i \in r : ~ Stronger(Slope(bs, e, seq[i], rounded), new)
      BY <2>3, <2>6, <2>7, <2>9, NotStronger
    <3>5. \A i \in s : ~ Stronger(Slope(bs, e, seq[i], rounded), new)
      BY <2>8, <3>3, <3>4 DEF new
    <3>6. new.num > 0
      BY <2>3, <2>6, <2>9, StrongerThan
    <3> QED BY <2>2, <3>2, <3>5, <3>6 DEF ScanKeeps, new, seq
  <2>10. CASE ~ Stronger(new, old.slope)
    <3>1. g[s] = old
      BY <2>5, <2>10
    <3>2. \A i \in s : ~ Stronger(Slope(bs, e, seq[i], rounded), old.slope)
      BY <2>7, <2>8, <2>10 DEF new
    <3>3. \/ old = NoTrend
          \/ /\ old.span \in Horizons(bs, e) /\ old.slope = Slope(bs, e, old.span, rounded)
             /\ old.slope.num > 0
      BY <2>4 DEF ScanKeeps, old
    <3> QED BY <2>6, <3>1, <3>2, <3>3 DEF ScanKeeps, seq
  <2> QED BY <2>9, <2>10
<1>4. Grows(Good, pick, D)
  <2> HIDE DEF Good, pick, D
  <2> QED BY <1>2, <1>3 DEF Grows
<1>5. SUBSET D \subseteq Good
  <2> HIDE DEF Good, pick, D
  <2> QED BY <1>1, <1>4, FoldInduction
<1>6. D \in Good
  <2> HIDE DEF Good
  <2> QED BY <1>5
<1> QED BY <1>6

LEMMA MirroredIs ==
  ASSUME NEW bs \in Seq(Shapes)
  PROVE  /\ Len(bs) \in Nat /\ Len(Mirrored(bs)) = Len(bs)
         /\ \A i \in 1 .. Len(bs) : bs[i].close \in Int /\ Mirrored(bs)[i].close = - bs[i].close
<1>1. Len(bs) \in Nat /\ DOMAIN bs = 1 .. Len(bs)
  OBVIOUS
<1>2. Len(Mirrored(bs)) = Len(bs)
  BY <1>1 DEF Mirrored
<1>3. ASSUME NEW i \in 1 .. Len(bs)
      PROVE  bs[i].close \in Int /\ Mirrored(bs)[i].close = - bs[i].close
  <2>1. bs[i] \in [high : Nat, low : Nat, close : Nat, atr : Nat]
    BY ShapesAssumption
  <2>2. Mirrored(bs)[i] = [bs[i] EXCEPT !.close = - bs[i].close]
    BY <1>1 DEF Mirrored
  <2> QED BY <2>1, <2>2
<1> QED BY <1>1, <1>2, <1>3

LEMMA ScansMirrored ==
  ASSUME NEW bs \in Seq(Shapes), NEW e \in 1 .. Len(bs), NEW rounded \in [Horizons(bs, e) -> Nat],
         NEW g, Scanning(g, bs, e, rounded),
         NEW h, Scanning(h, Mirrored(bs), e, rounded)
  PROVE  LET D == DOMAIN Scanned(bs, e)
         IN h[D].span = g[D].span /\ h[D].slope = Turned(g[D].slope)
<1> DEFINE cs == Mirrored(bs)
           seq == Scanned(bs, e)
           D == DOMAIN seq
           pick == Latest(seq)
           Alike(s) == g[s] \in Scans /\ h[s].span = g[s].span /\ h[s].slope = Turned(g[s].slope)
           Good == {s \in SUBSET D : Alike(s)}
<1>1. /\ Len(bs) \in Nat /\ Len(cs) = Len(bs) /\ PricedFrom(bs, e)
      /\ \A i \in 1 .. Len(bs) : cs[i].close = - bs[i].close
  BY MirroredIs DEF PricedFrom
<1>2. Scanned(cs, e) = seq
  BY <1>1 DEF Scanned, Horizons
<1>3. IsFiniteSet(D) /\ Picks(pick, D) /\ seq \in Seq(Horizons(bs, e))
  BY <1>1, TrendIs, ScannedIs
<1>4. {} \in Good
  <2>1. g[{}] = NoTrend /\ h[{}] = NoTrend
    BY <1>2 DEF Scanning
  <2>2. NoTrend \in Scans /\ NoTrend.slope = Turned(NoTrend.slope)
    BY LabelingAssumption DEF NoTrend, Scans, Slopes, Turned
  <2> QED BY <2>1, <2>2
<1>5. ASSUME NEW s \in SUBSET D, s # {}, s \ {pick[s]} \in Good PROVE s \in Good
  <2> DEFINE m == Max(s)
             r == s \ {m}
             new == Slope(bs, e, seq[m], rounded)
  <2>1. m \in s /\ pick[s] = m
    BY <1>3, <1>5 DEF Picks, Latest
  <2>2. seq[m] \in Horizons(bs, e)
    BY <1>3, <2>1
  <2>3. new \in Slopes /\ seq[m] \in Nat \ {0} /\ Priced(bs, e, seq[m]) /\ e + seq[m] <= Len(bs)
    BY <1>1, <2>2, SlopeTyped, ScannedIs
  <2>4. Slope(cs, e, seq[m], rounded) = Turned(new)
    <3>1. \A i \in e .. e + seq[m] : cs[i].close = - bs[i].close
      BY <1>1, <2>3
    <3>2. e \in Nat
      BY <1>1
    <3> HIDE DEF cs, seq, m
    <3>3. ASSUME NEW span, span = seq[m] PROVE Slope(cs, e, span, rounded) = Turned(Slope(bs, e, span, rounded))
      <4>1. span \in Nat \ {0} /\ Priced(bs, e, span)
        BY <2>3, <3>3
      <4>2. \A i \in e .. e + span : cs[i].close = - bs[i].close
        BY <3>1, <3>3
      <4> QED BY <3>2, <4>1, <4>2, SlopeMirrored
    <3> QED BY <3>3 DEF new
  <2>5. g[s] = IF Stronger(new, g[r].slope) THEN [span |-> seq[m], slope |-> new] ELSE g[r]
    BY <1>5 DEF Scanning, Better
  <2>6. h[s] = IF Stronger(Turned(new), h[r].slope)
               THEN [span |-> seq[m], slope |-> Turned(new)] ELSE h[r]
    <3>1. h[s] = Better(cs, e, h[r], seq[m], rounded)
      BY <1>2, <1>5 DEF Scanning
    <3> HIDE DEF cs, seq, m, r, new
    <3> QED BY <2>4, <3>1 DEF Better
  <2>7. g[r] \in Scans /\ h[r].span = g[r].span /\ h[r].slope = Turned(g[r].slope)
    BY <1>5, <2>1
  <2> HIDE DEF m, r, new, seq
  <2>8. g[r].slope \in Slopes
    BY <2>7 DEF Scans
  <2>9. Stronger(Turned(new), h[r].slope) <=> Stronger(new, g[r].slope)
    BY <2>3, <2>7, <2>8, NeverStronger
  <2>10. Alike(s)
    <3>1. CASE Stronger(new, g[r].slope)
      <4>1. g[s] = [span |-> seq[m], slope |-> new] /\ h[s] = [span |-> seq[m], slope |-> Turned(new)]
        BY <2>5, <2>6, <2>9, <3>1
      <4> QED BY <2>3, <4>1 DEF Scans
    <3>2. CASE ~ Stronger(new, g[r].slope)
      BY <2>5, <2>6, <2>7, <2>9, <3>2
    <3> QED BY <3>1, <3>2
  <2> QED BY <2>10
<1>6. Grows(Good, pick, D)
  <2> HIDE DEF Good, pick, D
  <2> QED BY <1>4, <1>5 DEF Grows
<1>7. SUBSET D \subseteq Good
  <2> HIDE DEF Good, pick, D
  <2> QED BY <1>3, <1>6, FoldInduction
<1>8. D \in Good
  <2> HIDE DEF Good
  <2> QED BY <1>7
<1> QED BY <1>8

LEMMA MinusZero == \A z \in Int : z <= 0 /\ z >= 0 => - z = z
  OBVIOUS

(* What the theorem says of one event. *)
Strongest(bs, e, rounded) ==
  LET trend == TrendOf(bs, e, rounded)
      mirror == TrendOf(Mirrored(bs), e, rounded)
      slope(span) == Slope(bs, e, span, rounded)
      chosen == slope(trend.t1 - e)
  IN /\ \A span \in Horizons(bs, e) : ~ Stronger(slope(span), chosen)
     /\ trend.label = IF \E span \in Horizons(bs, e) : Reached(slope(span))
                      THEN chosen.sign ELSE 0
     /\ mirror = [t1 |-> trend.t1, label |-> - trend.label]

LEMMA EventTrend ==
  ASSUME NEW bs \in Seq(Shapes), NEW e \in TrendEvents(bs), NEW rounded \in [Horizons(bs, e) -> Nat]
  PROVE  Strongest(bs, e, rounded)
<1> DEFINE cs == Mirrored(bs)
           D == DOMAIN Scanned(bs, e)
<1>1. Len(bs) \in Nat /\ e \in 1 .. Len(bs) /\ e + MinHorizon <= Len(bs) /\ MinHorizon \in Nat \ {0}
  BY LabelingAssumption DEF TrendEvents
<1>2. /\ PricedFrom(bs, e) /\ PricedFrom(cs, e) /\ Len(cs) = Len(bs)
      /\ Scanned(cs, e) = Scanned(bs, e) /\ Horizons(cs, e) = Horizons(bs, e)
  <2>1. /\ Len(cs) = Len(bs)
        /\ \A i \in 1 .. Len(bs) : bs[i].close \in Int /\ cs[i].close = - bs[i].close
    BY MirroredIs
  <2> HIDE DEF cs
  <2>2. Scanned(cs, e) = Scanned(bs, e) /\ Horizons(cs, e) = Horizons(bs, e)
    BY <2>1 DEF Scanned, Horizons
  <2>3. \A i \in e .. Len(bs) : i \in 1 .. Len(bs)
    BY <1>1
  <2>4. \A i \in e .. Len(bs) : bs[i].close \in Int /\ cs[i].close \in Int
    BY <2>1, <2>3
  <2> QED BY <2>1, <2>2, <2>4 DEF PricedFrom
<1>3. PICK g : /\ Scanning(g, bs, e, rounded)
               /\ TrendOf(bs, e, rounded) = [t1 |-> e + g[D].span,
                                    label |-> IF g[D].slope.num >= TThreshold * TThreshold * g[D].slope.den
                                              THEN g[D].slope.sign ELSE 0]
  BY <1>1, <1>2, TrendIs
<1>4. PICK h : /\ Scanning(h, cs, e, rounded)
               /\ TrendOf(cs, e, rounded) = [t1 |-> e + h[D].span,
                                    label |-> IF h[D].slope.num >= TThreshold * TThreshold * h[D].slope.den
                                              THEN h[D].slope.sign ELSE 0]
  <2> HIDE DEF cs
  <2>1. rounded \in [Horizons(cs, e) -> Nat]
    BY <1>2
  <2>2. D = DOMAIN Scanned(cs, e)
    BY <1>2
  <2> QED BY <1>1, <1>2, <2>1, <2>2, TrendIs
<1>5. ScanKeeps(g, bs, e, D, rounded)
  BY <1>1, <1>2, <1>3, ScanKeepsAll
<1>6. h[D].span = g[D].span /\ h[D].slope = Turned(g[D].slope)
  BY <1>1, <1>3, <1>4, ScansMirrored
<1> DEFINE best == g[D]
           trend == TrendOf(bs, e, rounded)
           chosen == Slope(bs, e, trend.t1 - e, rounded)
<1>7. best \in Scans /\ best.span \in Nat /\ best.slope \in Slopes
  BY <1>5 DEF ScanKeeps, Scans
<1>8. trend.t1 - e = best.span /\ chosen = Slope(bs, e, best.span, rounded)
  BY <1>1, <1>3, <1>7
<1>9. \A span \in Horizons(bs, e) : ~ Stronger(Slope(bs, e, span, rounded), best.slope)
  <2> TAKE span \in Horizons(bs, e)
  <2>1. PICK i \in D : Scanned(bs, e)[i] = span
    BY <1>1, ScannedIs
  <2> QED BY <1>5, <2>1 DEF ScanKeeps
<1>10. best = NoTrend \/ (best.span \in Horizons(bs, e) /\ best.slope = chosen /\ chosen.num > 0)
  BY <1>5, <1>8 DEF ScanKeeps
<1>11. TrendOf(cs, e, rounded) = [t1 |-> trend.t1, label |-> - trend.label]
  <2> DEFINE enough == best.slope.num >= TThreshold * TThreshold * best.slope.den
  <2>1. trend = [t1 |-> e + best.span, label |-> IF enough THEN best.slope.sign ELSE 0]
    BY <1>3
  <2>2. TrendOf(cs, e, rounded) = [t1 |-> e + best.span, label |-> IF enough THEN - best.slope.sign ELSE 0]
    <3>1. h[D].slope.num = best.slope.num /\ h[D].slope.den = best.slope.den /\ h[D].slope.sign = - best.slope.sign
      BY <1>6 DEF Turned
    <3> HIDE DEF D, cs, best
    <3>2. h[D].span = best.span
      BY <1>6 DEF best
    <3> QED BY <1>4, <3>1, <3>2
  <2> HIDE DEF best, trend, cs, enough
  <2> QED BY <2>1, <2>2, MinusZero
<1>12. trend.label = IF best.slope.num >= TThreshold * TThreshold * best.slope.den
                     THEN best.slope.sign ELSE 0
  BY <1>3
<1> DEFINE Found == \E span \in Horizons(bs, e) : Reached(Slope(bs, e, span, rounded))
<1>13. \A span \in Horizons(bs, e) : Slope(bs, e, span, rounded) \in Slopes
  BY <1>1, <1>2, SlopeTyped
<1>14. CASE best.span \in Horizons(bs, e) /\ best.slope = chosen /\ chosen.num > 0
  <2> HIDE DEF best, chosen, trend, cs
  <2>1. Found <=> Reached(chosen)
    <3>1. chosen \in Slopes
      BY <1>7, <1>14
    <3>2. ASSUME NEW span \in Horizons(bs, e), Reached(Slope(bs, e, span, rounded))
          PROVE  Reached(chosen)
      <4> DEFINE s == Slope(bs, e, span, rounded)
      <4>1. s \in Slopes /\ Reached(s) /\ ~ Stronger(s, chosen)
        BY <1>9, <1>13, <1>14, <3>2
      <4> HIDE DEF s
      <4> QED BY <3>1, <4>1, StrongerThan
    <3>3. chosen = Slope(bs, e, best.span, rounded)
      BY <1>8
    <3> QED BY <1>14, <3>2, <3>3
  <2>2. trend.label = IF Found THEN chosen.sign ELSE 0
    BY <1>12, <1>14, <2>1 DEF Reached
  <2>3. \A span \in Horizons(bs, e) : ~ Stronger(Slope(bs, e, span, rounded), chosen)
    BY <1>9, <1>14
  <2> QED BY <1>11, <2>2, <2>3 DEF Strongest, chosen, trend, cs
<1>15. CASE best = NoTrend
  <2>1. best.span = MinHorizon /\ best.slope = [num |-> 0, den |-> 1, sign |-> 0]
    BY <1>15 DEF NoTrend
  <2>2. trend.label = 0
    BY <1>12, <2>1
  <2>3. ASSUME NEW span \in Horizons(bs, e)
        PROVE  LET s == Slope(bs, e, span, rounded) IN ~ Stronger(s, chosen) /\ ~ Reached(s)
    <3>1. MinHorizon \in Horizons(bs, e)
      BY <1>1, <2>3, LabelingAssumption DEF Horizons, Earlier
    <3>2. chosen \in Slopes
      BY <1>8, <1>13, <2>1, <3>1
    <3> DEFINE s == Slope(bs, e, span, rounded)
    <3>3. s \in Slopes /\ ~ Stronger(s, best.slope)
      BY <1>9, <1>13
    <3> HIDE DEF s, chosen, best
    <3>4. s.num \in Nat /\ s.den \in Nat /\ chosen.num \in Nat /\ chosen.den \in Nat
      BY <3>2, <3>3 DEF Slopes
    <3>5. ~ (s.num * 1 > 0 * s.den)
      BY <2>1, <3>3 DEF Stronger
    <3>6. s.num = 0
      BY <3>4, <3>5
    <3>7. s.num * chosen.den = 0 /\ chosen.num * s.den \in Nat
      BY <3>4, <3>6
    <3>8. ~ Stronger(s, chosen) /\ ~ Reached(s)
      BY <3>6, <3>7 DEF Stronger, Reached
    <3> QED BY <3>8 DEF s
  <2> HIDE DEF best, chosen, trend, cs
  <2> QED BY <1>11, <2>2, <2>3 DEF Strongest, chosen, trend, cs
<1> QED BY <1>10, <1>14, <1>15

(* For every history of bars, every event and however the residuals of     *)
(* straight lines are rounded: the trend scanner keeps the horizon with    *)
(* the largest |t-value|, labels it with that slope's sign exactly if a    *)
(* horizon reaches the threshold, and mirrored closes get the same span    *)
(* and the opposite label (trend_scanning_labels).                         *)
THEOREM TrendsAreStrongest == LabelSpec => []TrendIsStrongest
<1>1. ASSUME LabelInv PROVE TrendIsStrongest
  <2> SUFFICES ASSUME NEW e \in TrendEvents(bars), NEW rounded \in Roundings(bars, e)
               PROVE  Strongest(bars, e, rounded)
    BY Zenon DEF TrendIsStrongest, Strongest
  <2>1. bars \in Seq(Shapes)
    BY <1>1 DEF LabelInv
  <2>2. rounded \in [Horizons(bars, e) -> Nat]
    <3>1. rounded \in [Horizons(bars, e) -> LineTs \cup {0}]
      BY Zenon DEF Roundings
    <3>2. LineTs \cup {0} \subseteq Nat
      BY LabelingAssumption
    <3> QED BY <3>1, <3>2
  <2> QED BY <2>1, <2>2, EventTrend
<1> QED BY <1>1, LabelInvariant, PTL

-----------------------------------------------------------------------------
(* Sizes.                                                                  *)

LEMMA MostIs ==
  ASSUME NEW a \in Int, NEW b \in Int
  PROVE  Most(a, b) \in {a, b} /\ Most(a, b) >= a /\ Most(a, b) >= b
  BY DEF Most

(* confidence_multiplier lies between 0 and max_confidence_mult, for every *)
(* threshold, and is 0 below the threshold.                                *)
THEOREM ConfidenceBounded ==
  ASSUME NEW p \in 0 .. One
  PROVE  Conf(p) \in 0 .. MaxMult * ConfDen /\ (p < Tau => Conf(p) = 0)
<1>1. Ref \in Nat \ {0}
  BY SizingAssumption DEF Ref
<1>2. ConfDen \in Nat /\ MaxMult \in Nat /\ KellyNum \in Nat /\ One \in Nat /\ Tau \in Nat
  BY <1>1, SizingAssumption DEF ConfDen
<1>3. MaxMult * ConfDen \in Nat
  BY <1>2
<1>4. KellyNum * (2 * p - One) \in Int
  BY <1>2
<1> DEFINE bound == MaxMult * ConfDen
           scaled == KellyNum * (2 * p - One)
<1>5. Conf(p) = IF p < Tau THEN 0 ELSE Least(bound, Most(0, scaled))
  BY DEF Conf
<1>6. bound \in Nat /\ scaled \in Int
  BY <1>3, <1>4
<1> HIDE DEF bound, scaled
<1>7. Conf(p) \in 0 .. bound /\ (p < Tau => Conf(p) = 0)
  BY <1>2, <1>5, <1>6 DEF Least, Most
<1> QED BY <1>7 DEF bound

-----------------------------------------------------------------------------
(* The manager's peak bounds every equity it was shown, and the decisions  *)
(* at hand are those of the equity at hand.                                *)
PeakInv ==
  /\ peak \in Int /\ equity \in Int /\ shown \subseteq Int
  /\ \A before \in shown : before <= peak
  /\ \/ out = Nothing
     \/ peak > 0 /\ 100 * (peak - equity) >= BreakerPct * peak
          => \A s \in DOMAIN out : out[s].steps = 0

(* A drawdown from a lower level is a drawdown from the peak.              *)
LEMMA DrawdownFromPeak ==
  ASSUME NEW before \in Int, NEW top \in Int, NEW e \in Int, before <= top,
         100 * (before - e) >= BreakerPct * before
  PROVE  100 * (top - e) >= BreakerPct * top
<1>1. BreakerPct \in 1 .. 100
  BY SizingAssumption
<1>2. (100 - BreakerPct) * (top - before) >= 0
  BY <1>1
<1>3. (100 - BreakerPct) * (top - before)
        = (100 * top - BreakerPct * top) - (100 * before - BreakerPct * before)
  BY <1>1
<1>4. BreakerPct * top \in Int /\ BreakerPct * before \in Int
  BY <1>1
<1> QED BY <1>2, <1>3, <1>4

(* While the equity is the breaker's percentage or more below an equity    *)
(* shown to the manager before, no leg is sized - for every history of     *)
(* batches.  (The history does not survive a restart; see README.)         *)
THEOREM BreakerCorrect == Spec => []BreakerHalts
<1>1. Init => PeakInv
  BY SizingAssumption DEF Init, PeakInv
<1>2. PeakInv /\ [Next]_vars => PeakInv'
  <2> SUFFICES ASSUME PeakInv, [Next]_vars PROVE PeakInv'
    OBVIOUS
  <2>1. ASSUME NEW batch \in Batches, NEW e \in Equities, NEW c \in Rhos,
               Evaluate(batch, e, c)
        PROVE  PeakInv'
    <3>1. e \in Int /\ equity' = e /\ shown' = shown \cup {e}
      BY <2>1, SizingAssumption DEF Evaluate
    <3>2. peak' = Most(peak, e) /\ peak' \in Int /\ e <= peak' /\ peak <= peak'
      BY <2>1, <3>1, MostIs DEF Evaluate, PeakInv, NewPeak
    <3>3. ASSUME peak' > 0, 100 * (peak' - e) >= BreakerPct * peak',
                 NEW s \in DOMAIN out'
          PROVE  out'[s].steps = 0
      <4>1. Halted(e)
        BY <3>2, <3>3 DEF Halted, NewPeak
      <4>2. DOMAIN out' = DOMAIN batch /\ out'[s] = Refused("circuit_breaker")
        BY <2>1, <3>3, <4>1 DEF Evaluate
      <4> QED BY <4>2 DEF Refused
    <3>4. ASSUME NEW before \in shown' PROVE before \in Int /\ before <= peak'
      <4>1. CASE before = e
        BY <3>1, <3>2, <4>1
      <4>2. CASE before \in shown
        BY <3>2, <4>2 DEF PeakInv
      <4> QED BY <3>1, <4>1, <4>2
    <3> QED BY <3>1, <3>2, <3>3, <3>4 DEF PeakInv
  <2>2. CASE Deliver
    BY <2>2, SizingAssumption DEF Deliver, PeakInv
  <2>3. CASE UNCHANGED vars
    BY <2>3 DEF PeakInv, vars
  <2> QED BY <2>1, <2>2, <2>3 DEF Next
<1>3. PeakInv => BreakerHalts
  <2> SUFFICES ASSUME PeakInv, NEW before \in shown, before > 0,
                      100 * (before - equity) >= BreakerPct * before, NEW s \in DOMAIN out
               PROVE  out[s].steps = 0
    BY DEF BreakerHalts
  <2>1. out # Nothing
    BY DEF Nothing
  <2>2. peak > 0 /\ 100 * (peak - equity) >= BreakerPct * peak
    <3>1. before \in Int /\ peak \in Int /\ equity \in Int /\ before <= peak
      BY DEF PeakInv
    <3>2. 100 * (peak - equity) >= BreakerPct * peak
      BY <3>1, DrawdownFromPeak
    <3> QED BY <3>1, <3>2
  <2> QED BY <2>1, <2>2 DEF PeakInv
<1> QED BY <1>1, <1>2, <1>3, PTL DEF Spec

-----------------------------------------------------------------------------
(* Sized legs.                                                             *)

LEMMA ConfDenIs == ConfDen \in Nat \ {0} /\ Ref \in Nat \ {0} /\ Cap \in Nat
<1>1. Ref \in Nat \ {0}
  BY SizingAssumption DEF Ref
<1>2. ConfDen \in Nat \ {0}
  BY <1>1, SizingAssumption DEF ConfDen
<1> QED BY <1>1, <1>2, SizingAssumption DEF Cap

LEMMA LegRiskIs ==
  ASSUME NEW r \in Requests
  PROVE  /\ LegRisk(r) \in Nat
         /\ LegRisk(r) <= RiskPerTrade * MaxMult * ConfDen
<1>1. r.p \in 0 .. One
  BY SizingAssumption DEF Requests
<1>2. Conf(r.p) \in 0 .. MaxMult * ConfDen
  BY <1>1, ConfidenceBounded
<1>3. RiskPerTrade \in Nat /\ MaxMult \in Nat /\ ConfDen \in Nat
  BY SizingAssumption, ConfDenIs
<1>4. MaxMult * ConfDen \in Nat
  BY <1>3
<1> DEFINE a == Conf(r.p)
           b == MaxMult * ConfDen
<1>5. a \in Nat /\ b \in Nat /\ a <= b
  BY <1>2, <1>4
<1> HIDE DEF a, b
<1>6. a * RiskPerTrade <= b * RiskPerTrade /\ a * RiskPerTrade \in Nat
  BY <1>3, <1>5, TimesMonotone
<1>7. LegRisk(r) = a * RiskPerTrade
  BY <1>3, <1>5 DEF LegRisk, a
<1>8. b * RiskPerTrade = RiskPerTrade * MaxMult * ConfDen
  BY <1>3 DEF b
<1> QED BY <1>6, <1>7, <1>8

(* A leg's lot steps: never more risk than the leg has, and under a scaled *)
(* batch never more than its share of the cap.                             *)
Fits(k, step, risk, var) == k * k * step * step * var <= 10 * risk * risk * Cap * Cap

LEMMA StepsIs ==
  ASSUME NEW risk \in Nat, NEW grid \in Grids, NEW var \in Int
  PROVE  /\ Steps(risk, grid, var) \in Nat
         /\ Steps(risk, grid, var) * grid.step <= risk
         /\ var > 10 * Cap * Cap => Fits(Steps(risk, grid, var), grid.step, risk, var)
         /\ var > 10 * Cap * Cap /\ grid.step # 0 =>
              \A k \in Nat : k <= risk \div grid.step /\ Fits(k, grid.step, risk, var)
                => k <= Steps(risk, grid, var)
<1> DEFINE d == grid.step
           n == risk \div d
           K == {k \in 0 .. n : Fits(k, d, risk, var)}
<1>1. d \in Nat /\ Cap \in Nat
  BY SizingAssumption, ConfDenIs
<1>2. CASE d = 0
  <2>1. Steps(risk, grid, var) = 0
    BY <1>2 DEF Steps
  <2>2. Fits(0, 0, risk, var)
    <3>1. 10 * risk * risk * Cap * Cap \in Nat
      BY <1>1
    <3>2. 0 * 0 * 0 * 0 * var = 0
      OBVIOUS
    <3> QED BY <3>1, <3>2 DEF Fits
  <2> QED BY <1>2, <2>1, <2>2
<1>3. CASE d # 0
  <2>1. n \in Nat /\ n * d <= risk
    BY <1>1, <1>3, DivIs
  <2>2. CASE var <= 10 * Cap * Cap
    <3>1. Steps(risk, grid, var) = n
      BY <1>3, <2>2 DEF Steps
    <3>2. ~ (var > 10 * Cap * Cap)
      BY <1>1, <2>2
    <3> QED BY <2>1, <3>1, <3>2
  <2>3. CASE ~ (var <= 10 * Cap * Cap)
    <3>1. Steps(risk, grid, var) = Max(K)
      BY <1>3, <2>3 DEF Steps, Fits
    <3>2. 0 \in K
      <4>1. 0 * 0 * d * d * var = 0 /\ 10 * risk * risk * Cap * Cap \in Nat
        BY <1>1
      <4> QED BY <2>1, <4>1 DEF Fits
    <3>3. Max(K) \in K /\ \A k \in K : Max(K) >= k
      <4>1. K \in SUBSET (0 .. n) /\ K # {}
        BY <3>2
      <4> HIDE DEF K, n
      <4> QED BY <2>1, <4>1, MaxIs
    <3> DEFINE m == Max(K)
    <3>4. m \in Nat /\ m <= n /\ Fits(m, d, risk, var)
      BY <2>1, <3>3
    <3>5. m * d <= risk
      <4> HIDE DEF m, n
      <4>1. m * d <= n * d
        BY <1>1, <2>1, <3>4, TimesMonotone
      <4>2. m * d \in Int /\ n * d \in Int
        BY <1>1, <2>1, <3>4
      <4> QED BY <2>1, <4>1, <4>2
    <3>6. ASSUME NEW k \in Nat, k <= n, Fits(k, d, risk, var) PROVE k <= m
      <4>1. k \in K
        BY <2>1, <3>6
      <4>2. m >= k
        BY <3>3, <4>1
      <4> HIDE DEF m
      <4> QED BY <3>4, <4>2
    <3> HIDE DEF m, K
    <3> QED BY <3>1, <3>4, <3>5, <3>6 DEF m
  <2> QED BY <2>2, <2>3
<1> QED BY <1>2, <1>3

(* More risk never gets fewer steps. *)
LEMMA StepsMonotone ==
  ASSUME NEW a \in Nat, NEW b \in Nat, a <= b, NEW grid \in Grids, NEW var \in Int
  PROVE  Steps(a, grid, var) <= Steps(b, grid, var)
<1> DEFINE d == grid.step
           k == Steps(a, grid, var)
<1>1. d \in Nat /\ Cap \in Nat
  BY SizingAssumption, ConfDenIs
<1>2. k \in Nat /\ k * d <= a
  BY StepsIs
<1>3. CASE d = 0
  BY <1>3 DEF Steps
<1>4. CASE d # 0
  <2>1. /\ k <= b \div d
        /\ a \div d <= b \div d
    <3>1. \A i \in Nat : i * d <= b => i <= b \div d
      BY <1>1, <1>4, DivIs
    <3>2. k * d \in Nat /\ k * d <= b
      <4> HIDE DEF k
      <4>1. k * d \in Nat
        BY <1>1, <1>2
      <4> QED BY <1>2, <4>1
    <3>3. a \div d \in Nat /\ (a \div d) * d <= b
      <4> DEFINE q == a \div d
      <4>1. q \in Nat /\ q * d <= a
        BY <1>1, <1>4, DivIs
      <4> HIDE DEF q
      <4>2. q * d \in Int
        BY <1>1, <4>1
      <4>3. q * d <= b
        BY <4>1, <4>2
      <4> QED BY <4>1, <4>3 DEF q
    <3> QED BY <1>2, <3>1, <3>2, <3>3
  <2>2. CASE var <= 10 * Cap * Cap
    BY <1>4, <2>1, <2>2 DEF Steps
  <2>3. CASE ~ (var <= 10 * Cap * Cap)
    <3>0. 10 * Cap * Cap \in Nat
      BY <1>1
    <3>1. var > 10 * Cap * Cap
      BY <2>3, <3>0
    <3>2. Fits(k, d, a, var)
      BY <3>1, StepsIs
    <3>3. Fits(k, d, b, var)
      <4>1. a * a <= b * b /\ a * a \in Nat /\ b * b \in Nat
        BY SquareOrder
      <4>2. (a * a) * (10 * Cap * Cap) <= (b * b) * (10 * Cap * Cap)
        BY <3>0, <4>1, TimesMonotone
      <4>3. /\ 10 * a * a * Cap * Cap = (a * a) * (10 * Cap * Cap)
            /\ 10 * b * b * Cap * Cap = (b * b) * (10 * Cap * Cap)
        BY <1>1
      <4>4. k * k * d * d * var \in Int /\ 10 * a * a * Cap * Cap \in Int /\ 10 * b * b * Cap * Cap \in Int
        BY <1>1, <1>2
      <4> DEFINE l == k * k * d * d * var
                 ra == 10 * a * a * Cap * Cap
                 rb == 10 * b * b * Cap * Cap
      <4>5. l <= ra /\ ra <= rb
        BY <3>2, <4>2, <4>3 DEF Fits
      <4>6. l \in Int /\ ra \in Int /\ rb \in Int
        BY <4>4
      <4> HIDE DEF l, ra, rb
      <4>7. l <= rb
        BY <4>5, <4>6
      <4> QED BY <4>7 DEF Fits, l, rb
    <3> QED BY <1>2, <1>4, <2>1, <3>1, <3>3, StepsIs
  <2> QED BY <2>2, <2>3
<1> QED BY <1>3, <1>4

LEMMA RoundIs ==
  ASSUME NEW k \in Nat, NEW grid
  PROVE  RoundToLot(k, grid) \in {0, k}
BY DEF RoundToLot

(* What is realised of a leg with the risk x: less than x, and when the    *)
(* batch is scaled less than the scaled x.                                 *)
Within(p, x, var) ==
  p \in Nat /\ p <= x /\ (var > 10 * Cap * Cap => p * p * var <= 10 * (x * x) * (Cap * Cap))

LEMMA SizedIs ==
  ASSUME NEW r \in Requests, NEW var \in Int
  PROVE  Within(Sized(r, var).risk, LegRisk(r), var)
<1> DEFINE x == LegRisk(r)
           d == r.grid.step
           n == Steps(x, r.grid, var)
           k == RoundToLot(n, r.grid)
<1>1. x \in Nat /\ r.grid \in Grids /\ d \in Nat /\ Cap \in Nat
  BY LegRiskIs, ConfDenIs, SizingAssumption DEF Requests
<1>2. n \in Nat /\ n * d <= x /\ (var > 10 * Cap * Cap => Fits(n, d, x, var))
  BY <1>1, StepsIs
<1>3. k \in {0, n}
  BY <1>2, RoundIs
<1>4. Sized(r, var).risk = k * d
  BY <1>1, <1>2, <1>3 DEF Sized, Refused
<1>5. CASE k = 0
  <2>1. Sized(r, var).risk = 0
    BY <1>1, <1>4, <1>5
  <2>2. 10 * (x * x) * (Cap * Cap) \in Nat /\ 0 * 0 * var = 0
    <3> HIDE DEF x
    <3> QED BY <1>1
  <2> HIDE DEF x
  <2> QED BY <1>1, <2>1, <2>2 DEF Within, x
<1>6. CASE k = n
  <2> DEFINE p == n * d
  <2>1. p \in Nat
    <3> HIDE DEF n, d
    <3> QED BY <1>1, <1>2
  <2>2. ASSUME var > 10 * Cap * Cap PROVE p * p * var <= 10 * (x * x) * (Cap * Cap)
    <3>1. n * n * d * d * var <= 10 * x * x * Cap * Cap
      BY <1>2, <2>2 DEF Fits
    <3> HIDE DEF x, n, d
    <3>2. n * n * d * d * var = p * p * var /\ 10 * x * x * Cap * Cap = 10 * (x * x) * (Cap * Cap)
      BY <1>1, <1>2
    <3> QED BY <3>1, <3>2
  <2>3. Sized(r, var).risk = p
    BY <1>4, <1>6
  <2> HIDE DEF p, x
  <2> QED BY <1>2, <2>1, <2>2, <2>3 DEF Within, x, p
<1> QED BY <1>3, <1>5, <1>6

-----------------------------------------------------------------------------
(* The decisions at hand are those of the batch at hand.                   *)
Decision(batch, c, s) ==
  IF s \in Active(batch) THEN Sized(batch[s], Variance(Signed(batch), c))
  ELSE Refused(Gate(batch[s]))

BatchInv ==
  \/ reqs = Nothing /\ out = Nothing /\ rho = 0
  \/ /\ reqs \in Batches /\ rho \in Rhos /\ DOMAIN out = DOMAIN reqs
     /\ \/ \A s \in DOMAIN reqs : out[s] = Refused("circuit_breaker")
        \/ \A s \in DOMAIN reqs : out[s] = Decision(reqs, rho, s)

LEMMA BatchInvariant == Spec => []BatchInv
<1>1. Init => BatchInv
  BY DEF Init, BatchInv
<1>2. BatchInv /\ [Next]_vars => BatchInv'
  <2> SUFFICES ASSUME BatchInv, [Next]_vars PROVE BatchInv'
    OBVIOUS
  <2>1. ASSUME NEW batch \in Batches, NEW e \in Equities, NEW c \in Rhos, Evaluate(batch, e, c)
        PROVE  BatchInv'
    <3>1. reqs' = batch /\ rho' = c
      BY <2>1 DEF Evaluate
    <3>2. out' = [s \in DOMAIN batch |->
                    IF Halted(e) THEN Refused("circuit_breaker") ELSE Decision(batch, c, s)]
      BY <2>1 DEF Evaluate, Decision
    <3> QED BY <3>1, <3>2 DEF BatchInv
  <2>2. CASE Deliver
    BY <2>2 DEF Deliver, BatchInv
  <2>3. CASE UNCHANGED vars
    BY <2>3 DEF vars, BatchInv
  <2> QED BY <2>1, <2>2, <2>3 DEF Next
<1> QED BY <1>1, <1>2, PTL DEF Spec

LEMMA BatchIs ==
  ASSUME NEW batch \in Batches
  PROVE  /\ DOMAIN batch \in SUBSET Symbols /\ IsFiniteSet(DOMAIN batch)
         /\ Active(batch) \in SUBSET (DOMAIN batch) /\ IsFiniteSet(Active(batch))
         /\ \A s \in DOMAIN batch :
              batch[s] \in Requests /\ batch[s].side \in {-1, 0, 1} /\ LegRisk(batch[s]) \in Nat
<1>1. PICK S \in SUBSET Symbols : batch \in [S -> Requests]
  BY DEF Batches
<1>2. DOMAIN batch = S /\ IsFiniteSet(S)
  BY <1>1, SizingAssumption, FS_Subset
<1>3. Active(batch) \in SUBSET S
  BY <1>2 DEF Active
<1>4. \A s \in S : batch[s] \in Requests /\ batch[s].side \in {-1, 0, 1} /\ LegRisk(batch[s]) \in Nat
  <2> TAKE s \in S
  <2>1. batch[s] \in Requests
    BY <1>1
  <2> QED BY <2>1, LegRiskIs DEF Requests
<1> QED BY <1>2, <1>3, <1>4, FS_Subset

(* The terms of r'Cr. *)
Terms(risk, c) ==
  [pair \in (DOMAIN risk) \X (DOMAIN risk) |->
     (IF pair[1] = pair[2] THEN 10 ELSE c) * risk[pair[1]] * risk[pair[2]]]

LEMMA TermsSum ==
  ASSUME NEW D, IsFiniteSet(D), NEW risk, DOMAIN risk = D, \A s \in D : risk[s] \in Int, NEW c \in Int
  PROVE  /\ IsFiniteSet(D \X D) /\ \A pair \in D \X D : Terms(risk, c)[pair] \in Int
         /\ Variance(risk, c) = SumFunctionOnSet(Terms(risk, c), D \X D)
         /\ Variance(risk, c) \in Int
<1>1. IsFiniteSet(D \X D)
  BY FS_Product
<1>2. ASSUME NEW pair \in D \X D PROVE Terms(risk, c)[pair] \in Int
  <2>1. risk[pair[1]] \in Int /\ risk[pair[2]] \in Int
    OBVIOUS
  <2> DEFINE a == risk[pair[1]]
             b == risk[pair[2]]
             w == IF pair[1] = pair[2] THEN 10 ELSE c
  <2>2. a \in Int /\ b \in Int /\ w \in Int
    BY <2>1
  <2>3. Terms(risk, c)[pair] = w * a * b
    BY DEF Terms
  <2> HIDE DEF a, b, w
  <2> QED BY <2>2, <2>3
<1>3. Variance(risk, c) = SumFunctionOnSet(Terms(risk, c), D \X D)
  BY DEF Variance, Terms, SumFunction
<1>4. SumFunctionOnSet(Terms(risk, c), D \X D) \in Int
  BY <1>1, <1>2, SumInt
<1> QED BY <1>1, <1>2, <1>3, <1>4

LEMMA VarianceIs ==
  ASSUME NEW batch \in Batches, NEW c \in Rhos
  PROVE  Variance(Signed(batch), c) \in Int
<1>1. DOMAIN Signed(batch) = Active(batch)
  BY DEF Signed
<1>2. \A s \in Active(batch) : Signed(batch)[s] \in Int
  <2> TAKE s \in Active(batch)
  <2> DEFINE a == batch[s].side
             b == LegRisk(batch[s])
  <2>1. a \in {-1, 0, 1} /\ b \in Nat
    BY BatchIs
  <2>2. Signed(batch)[s] = a * b
    BY DEF Signed
  <2> HIDE DEF a, b
  <2> QED BY <2>1, <2>2
<1>3. IsFiniteSet(Active(batch)) /\ c \in Int
  BY BatchIs, SizingAssumption
<1> QED BY <1>1, <1>2, <1>3, TermsSum

(* More confidence never buys a smaller position.                          *)
LEMMA ConfMonotone ==
  ASSUME NEW p \in 0 .. One, NEW q \in 0 .. One, p <= q
  PROVE  Conf(p) <= Conf(q)
<1>1. Tau \in Nat /\ One \in Nat /\ KellyNum \in Nat /\ MaxMult \in Nat /\ ConfDen \in Nat
  BY SizingAssumption, ConfDenIs
<1> DEFINE bound == MaxMult * ConfDen
           fp == KellyNum * (2 * p - One)
           fq == KellyNum * (2 * q - One)
<1>2. bound \in Nat
  BY <1>1
<1>3. fp \in Int /\ fq \in Int /\ fp <= fq
  <2>1. (2 * p - One) * KellyNum <= (2 * q - One) * KellyNum
    BY <1>1, TimesMonotone
  <2>2. fp = (2 * p - One) * KellyNum /\ fq = (2 * q - One) * KellyNum /\ fp \in Int /\ fq \in Int
    BY <1>1
  <2> QED BY <2>1, <2>2
<1>4. Conf(p) = (IF p < Tau THEN 0 ELSE Least(bound, Most(0, fp)))
      /\ Conf(q) = (IF q < Tau THEN 0 ELSE Least(bound, Most(0, fq)))
  BY DEF Conf
<1> HIDE DEF bound, fp, fq
<1> QED BY <1>1, <1>2, <1>3, <1>4 DEF Least, Most

(* RiskManager.evaluate never gives the more confident of two legs with    *)
(* the same lot grid the smaller position, capped or not.                  *)
THEOREM MoreConfidenceMoreRisk == Spec => []ConfidenceOrders
<1>1. ASSUME BatchInv PROVE ConfidenceOrders
  <2> SUFFICES ASSUME NEW s \in DOMAIN reqs, NEW t \in DOMAIN reqs,
                      Gate(reqs[s]) = "ok", reqs[t].side # 0, ~ reqs[t].shock,
                      reqs[s].grid = reqs[t].grid, reqs[s].p <= reqs[t].p
               PROVE  out[s].risk <= out[t].risk
    BY DEF ConfidenceOrders
  <2>1. reqs \in Batches /\ rho \in Rhos /\ DOMAIN out = DOMAIN reqs
    BY <1>1 DEF BatchInv, Nothing
  <2>2. CASE \A u \in DOMAIN reqs : out[u] = Refused("circuit_breaker")
    BY <2>2 DEF Refused
  <2>3. CASE \A u \in DOMAIN reqs : out[u] = Decision(reqs, rho, u)
    <3> DEFINE r == reqs[s]
               q == reqs[t]
               v == Variance(Signed(reqs), rho)
               d == r.grid.step
               a == Steps(LegRisk(r), r.grid, v)
               b == Steps(LegRisk(q), r.grid, v)
    <3>1. r \in Requests /\ q \in Requests /\ LegRisk(r) \in Nat /\ LegRisk(q) \in Nat /\ v \in Int
      BY <2>1, BatchIs, VarianceIs
    <3>2. r.p \in 0 .. One /\ q.p \in 0 .. One /\ r.grid \in Grids /\ d \in Nat /\ r.grid.min \in Nat
      BY <3>1, SizingAssumption DEF Requests
    <3>3. Conf(r.p) <= Conf(q.p) /\ Conf(r.p) \in Nat /\ Conf(q.p) \in Nat /\ Conf(r.p) # 0
      <4>1. Conf(r.p) <= Conf(q.p)
        BY <3>2, ConfMonotone
      <4>2. MaxMult * ConfDen \in Nat
        BY SizingAssumption, ConfDenIs
      <4>3. Conf(r.p) \in 0 .. MaxMult * ConfDen /\ Conf(q.p) \in 0 .. MaxMult * ConfDen
        BY <3>2, ConfidenceBounded
      <4>4. Conf(r.p) # 0
        BY DEF Gate
      <4> QED BY <4>1, <4>2, <4>3, <4>4
    <3>4. Gate(q) = "ok"
      BY <3>3 DEF Gate
    <3>5. out[s] = Sized(r, v) /\ out[t] = Sized(q, v)
      BY <2>3, <3>4 DEF Decision, Active
    <3>6. LegRisk(r) <= LegRisk(q)
      <4> DEFINE m == Conf(r.p)
                 n == Conf(q.p)
      <4>1. m \in Nat /\ n \in Nat /\ m <= n /\ RiskPerTrade \in Nat
        BY <3>3, SizingAssumption
      <4>2. LegRisk(r) = RiskPerTrade * m /\ LegRisk(q) = RiskPerTrade * n
        BY DEF LegRisk
      <4> HIDE DEF m, n
      <4>3. m * RiskPerTrade <= n * RiskPerTrade
        BY <4>1, TimesMonotone
      <4>4. m * RiskPerTrade = RiskPerTrade * m /\ n * RiskPerTrade = RiskPerTrade * n
        BY <4>1
      <4> QED BY <4>2, <4>3, <4>4
    <3>7. a <= b /\ a \in Nat /\ b \in Nat
      BY <3>1, <3>2, <3>6, StepsMonotone, StepsIs
    <3> DEFINE ra == RoundToLot(a, r.grid)
               rb == RoundToLot(b, r.grid)
    <3>8. ra <= rb /\ ra \in Nat /\ rb \in Nat
      <4> HIDE DEF a, b
      <4> QED BY <3>2, <3>7 DEF RoundToLot
    <3>9. out[s].risk = ra * d /\ out[t].risk = rb * d
      <4>1. q.grid = r.grid
        OBVIOUS
      <4> HIDE DEF a, b
      <4>2. Sized(r, v).risk = ra * d
        BY <3>2, <3>8 DEF Sized, Refused, a
      <4>3. Sized(q, v).risk = rb * d
        BY <3>2, <3>8, <4>1 DEF Sized, Refused, b
      <4> QED BY <3>5, <4>2, <4>3
    <3> HIDE DEF ra, rb, d
    <3> QED BY <3>2, <3>8, <3>9, TimesMonotone
  <2> QED BY <1>1, <2>2, <2>3 DEF BatchInv, Nothing
<1> QED BY <1>1, BatchInvariant, PTL

-----------------------------------------------------------------------------
(* The cap on the aggregate risk.                                          *)

(* The terms of r'Cr for legs with sides sd and risks x. *)
Quad(sd, x, c, D) ==
  [pair \in D \X D |->
     (IF pair[1] = pair[2] THEN 10 ELSE c)
       * (sd[pair[1]] * x[pair[1]]) * (sd[pair[2]] * x[pair[2]])]

Legs(D, sd, x) == \A s \in D : sd[s] \in {-1, 0, 1} /\ x[s] \in Nat

Coef(sd, c, s, t) == (IF s = t THEN 10 ELSE c) * sd[s] * sd[t]
Both(x, s, t) == x[s] * x[t]

LEMMA QuadIs ==
  ASSUME NEW D, NEW sd, NEW x, Legs(D, sd, x), NEW c \in Int, NEW s \in D, NEW t \in D
  PROVE  /\ Quad(sd, x, c, D)[<<s, t>>] = Coef(sd, c, s, t) * Both(x, s, t)
         /\ Quad(sd, x, c, D)[<<s, t>>] \in Int
         /\ Coef(sd, c, s, t) \in Int /\ Both(x, s, t) \in Nat
<1> DEFINE w == IF s = t THEN 10 ELSE c
           a == sd[s]
           b == sd[t]
           y == x[s]
           z == x[t]
<1>1. w \in Int /\ a \in Int /\ b \in Int /\ y \in Nat /\ z \in Nat
  BY DEF Legs
<1>2. /\ Quad(sd, x, c, D)[<<s, t>>] = w * (a * y) * (b * z)
      /\ Coef(sd, c, s, t) = w * a * b /\ Both(x, s, t) = y * z
  BY DEF Quad, Coef, Both
<1> HIDE DEF w, a, b, y, z
<1>3. w * (a * y) * (b * z) = (w * a * b) * (y * z) /\ (w * a * b) * (y * z) \in Int
      /\ w * a * b \in Int /\ y * z \in Nat
  BY <1>1
<1> QED BY <1>2, <1>3

LEMMA QuadInt ==
  ASSUME NEW D, IsFiniteSet(D), NEW sd, NEW x, Legs(D, sd, x), NEW c \in Int
  PROVE  /\ IsFiniteSet(D \X D)
         /\ \A pair \in D \X D : Quad(sd, x, c, D)[pair] \in Int
         /\ SumFunctionOnSet(Quad(sd, x, c, D), D \X D) \in Int
<1>1. IsFiniteSet(D \X D)
  BY FS_Product
<1>2. ASSUME NEW pair \in D \X D PROVE Quad(sd, x, c, D)[pair] \in Int
  <2>1. PICK s \in D, t \in D : pair = <<s, t>>
    OBVIOUS
  <2> QED BY <2>1, QuadIs
<1> QED BY <1>1, <1>2, SumInt

(* No leg hedges another. *)
Hedgeless(D, sd, c) == \A s, t \in D : s # t => c * sd[s] * sd[t] >= 0

LEMMA HedgelessCap ==
  ASSUME NEW D, IsFiniteSet(D), NEW sd, NEW x, Legs(D, sd, x), NEW c \in Int,
         Hedgeless(D, sd, c), NEW v \in Int, v = SumFunctionOnSet(Quad(sd, x, c, D), D \X D),
         NEW p, \A s \in D : Within(p[s], x[s], v)
  PROVE  SumFunctionOnSet(Quad(sd, p, c, D), D \X D) <= 10 * Cap * Cap
<1> DEFINE R == SumFunctionOnSet(Quad(sd, p, c, D), D \X D)
           m == 10 * Cap * Cap
<1>1. Cap \in Nat /\ m \in Nat /\ m = 10 * (Cap * Cap)
  <2>1. Cap \in Nat
    BY ConfDenIs
  <2> QED BY <2>1
<1>2. Legs(D, sd, p)
  BY DEF Legs, Within
<1>3. IsFiniteSet(D \X D) /\ R \in Int
  BY <1>2, QuadInt
<1>4. ASSUME NEW s \in D, NEW t \in D
      PROVE  Coef(sd, c, s, t) \in Nat
  <2>1. Coef(sd, c, s, t) \in Int
    BY QuadIs
  <2>2. CASE s = t
    <3> DEFINE a == sd[s]
    <3>1. a \in {-1, 0, 1}
      BY DEF Legs
    <3> HIDE DEF a
    <3>2. 10 * a * a >= 0 /\ 10 * a * a \in Int
      BY <3>1
    <3> QED BY <2>2, <3>2 DEF a, Coef
  <2>3. CASE s # t
    <3>1. c * sd[s] * sd[t] >= 0
      BY <2>3 DEF Hedgeless
    <3> QED BY <2>1, <2>3, <3>1 DEF Coef
  <2> QED BY <2>2, <2>3
<1>5. CASE v <= m
  <2>1. ASSUME NEW pair \in D \X D
        PROVE  /\ Quad(sd, p, c, D)[pair] \in Int /\ Quad(sd, x, c, D)[pair] \in Int
               /\ Quad(sd, p, c, D)[pair] <= Quad(sd, x, c, D)[pair]
    <3>1. PICK s \in D, t \in D : pair = <<s, t>>
      OBVIOUS
    <3> DEFINE w == Coef(sd, c, s, t)
               a == Both(p, s, t)
               b == Both(x, s, t)
    <3>2. Quad(sd, p, c, D)[pair] = w * a /\ Quad(sd, x, c, D)[pair] = w * b
          /\ Quad(sd, p, c, D)[pair] \in Int /\ Quad(sd, x, c, D)[pair] \in Int
          /\ w \in Nat /\ a \in Nat /\ b \in Nat
      <4>1. Quad(sd, p, c, D)[<<s, t>>] = w * a /\ Quad(sd, p, c, D)[<<s, t>>] \in Int /\ a \in Nat
        BY <1>2, QuadIs
      <4>2. Quad(sd, x, c, D)[<<s, t>>] = w * b /\ Quad(sd, x, c, D)[<<s, t>>] \in Int /\ b \in Nat
        BY QuadIs
      <4>3. w \in Nat
        BY <1>4
      <4> HIDE DEF w, a, b
      <4> QED BY <3>1, <4>1, <4>2, <4>3
    <3>3. a <= b
      <4>1. p[s] \in Nat /\ p[t] \in Nat /\ p[s] <= x[s] /\ p[t] <= x[t] /\ x[s] \in Nat /\ x[t] \in Nat
        BY DEF Within, Legs
      <4> QED BY <4>1, ProductMonotone DEF Both
    <3> HIDE DEF w, a, b
    <3>4. a * w <= b * w /\ a * w = w * a /\ b * w = w * b
      BY <3>2, <3>3, TimesMonotone
    <3> QED BY <3>2, <3>4
  <2>2. R <= v
    BY <1>3, <2>1, SumMonotone
  <2> HIDE DEF R, m
  <2>3. R <= m
    BY <1>1, <1>3, <1>5, <2>2
  <2> QED BY <2>3 DEF R, m
<1>6. CASE v > m
  <2>0. v \in Nat /\ v # 0
    <3> HIDE DEF m
    <3> QED BY <1>1, <1>6
  <2> DEFINE S1 == [pair \in D \X D |-> v * Quad(sd, p, c, D)[pair]]
             S2 == [pair \in D \X D |-> m * Quad(sd, x, c, D)[pair]]
  <2>1. ASSUME NEW pair \in D \X D
        PROVE  S1[pair] \in Int /\ S2[pair] \in Int /\ S1[pair] <= S2[pair]
    <3>1. PICK s \in D, t \in D : pair = <<s, t>>
      OBVIOUS
    <3> DEFINE w == Coef(sd, c, s, t)
               a == Both(p, s, t)
               b == Both(x, s, t)
    <3>2. Quad(sd, p, c, D)[pair] = w * a /\ Quad(sd, x, c, D)[pair] = w * b
          /\ w \in Nat /\ a \in Nat /\ b \in Nat
      <4>1. Quad(sd, p, c, D)[<<s, t>>] = w * a /\ Quad(sd, p, c, D)[<<s, t>>] \in Int /\ a \in Nat
        BY <1>2, QuadIs
      <4>2. Quad(sd, x, c, D)[<<s, t>>] = w * b /\ Quad(sd, x, c, D)[<<s, t>>] \in Int /\ b \in Nat
        BY QuadIs
      <4>3. w \in Nat
        BY <1>4
      <4> HIDE DEF w, a, b
      <4> QED BY <3>1, <4>1, <4>2, <4>3
    <3>3. a * v <= m * b
      <4> DEFINE p1 == p[s]
                 p2 == p[t]
                 x1 == x[s]
                 x2 == x[t]
      <4>1. p1 \in Nat /\ p2 \in Nat /\ x1 \in Nat /\ x2 \in Nat
        BY DEF Within, Legs
      <4>2. p1 * p1 * v <= 10 * (x1 * x1) * (Cap * Cap) /\ p2 * p2 * v <= 10 * (x2 * x2) * (Cap * Cap)
        BY <1>6 DEF Within
      <4> HIDE DEF p1, p2, x1, x2
      <4>3. p1 * p1 * v <= m * (x1 * x1) /\ p2 * p2 * v <= m * (x2 * x2)
        <5>1. 10 * (x1 * x1) * (Cap * Cap) = m * (x1 * x1) /\ 10 * (x2 * x2) * (Cap * Cap) = m * (x2 * x2)
          BY <1>1, <4>1
        <5> QED BY <4>2, <5>1
      <4> HIDE DEF m
      <4>4. p1 * p2 * v <= m * (x1 * x2)
        BY <1>1, <2>0, <4>1, <4>3, RootProduct
      <4> QED BY <4>4 DEF p1, p2, x1, x2, Both
    <3>4. S1[pair] = v * Quad(sd, p, c, D)[pair] /\ S2[pair] = m * Quad(sd, x, c, D)[pair]
      OBVIOUS
    <3>5. S1[pair] = v * (w * a) /\ S2[pair] = m * (w * b)
      <4> HIDE DEF w, a, b, S1, S2, m
      <4> QED BY <3>2, <3>4
    <3> HIDE DEF w, a, b, m, S1, S2
    <3>6. (a * v) * w <= (m * b) * w
      <4>1. a * v \in Int /\ m * b \in Int
        BY <1>1, <3>2
      <4> QED BY <3>2, <3>3, <4>1, TimesMonotone
    <3>7. (a * v) * w = v * (w * a) /\ (m * b) * w = m * (w * b)
          /\ v * (w * a) \in Int /\ m * (w * b) \in Int
      BY <1>1, <3>2
    <3> QED BY <3>5, <3>6, <3>7
  <2>2. SumFunctionOnSet(S1, D \X D) <= SumFunctionOnSet(S2, D \X D)
    <3> HIDE DEF S1, S2
    <3> QED BY <1>3, <2>1, SumMonotone
  <2>3. SumFunctionOnSet(S1, D \X D) = v * R
    <3>1. \A pair \in D \X D : Quad(sd, p, c, D)[pair] \in Int /\ S1[pair] = v * Quad(sd, p, c, D)[pair]
      BY <1>2, QuadInt
    <3> HIDE DEF S1
    <3> QED BY <1>3, <3>1, SumTimes
  <2>4. SumFunctionOnSet(S2, D \X D) = m * v
    <3>1. \A pair \in D \X D : Quad(sd, x, c, D)[pair] \in Int /\ S2[pair] = m * Quad(sd, x, c, D)[pair]
      BY QuadInt
    <3>2. m \in Int
      BY <1>1
    <3> DEFINE q == Quad(sd, x, c, D)
               Q == D \X D
    <3>4. IsFiniteSet(Q) /\ \A pair \in Q : q[pair] \in Int /\ S2[pair] = m * q[pair]
      BY <1>3, <3>1
    <3> HIDE DEF S2, m, q, Q
    <3>5. SumFunctionOnSet(S2, Q) = m * SumFunctionOnSet(q, Q)
      BY <3>2, <3>4, SumTimes
    <3>3. SumFunctionOnSet(S2, D \X D) = m * SumFunctionOnSet(Quad(sd, x, c, D), D \X D)
      BY <3>5 DEF q, Q
    <3> QED BY <3>3
  <2> HIDE DEF S1, S2, R, m
  <2>5. R * v <= m * v
    <3>1. v * R = R * v
      BY <1>3
    <3> QED BY <2>2, <2>3, <2>4, <3>1
  <2>6. R <= m
    BY <1>1, <1>3, <2>0, <2>5, Cancel
  <2> QED BY <2>6 DEF R, m
<1> QED BY <1>1, <1>5, <1>6

(* The aggregate of two legs. *)
PairSum(s, t, sd, x, c) ==
  10 * (x[s] * x[s]) + 10 * (x[t] * x[t]) + (2 * c * sd[s] * sd[t]) * (x[s] * x[t])

LEMMA QuadPair ==
  ASSUME NEW s, NEW t, s # t, NEW sd, NEW x, Legs({s, t}, sd, x), NEW c \in Int,
         \A u \in {s, t} : sd[u] = 0 => x[u] = 0
  PROVE  SumFunctionOnSet(Quad(sd, x, c, {s, t}), {s, t} \X {s, t}) = PairSum(s, t, sd, x, c)
<1> DEFINE D == {s, t}
           q == Quad(sd, x, c, D)
           ss == <<s, s>>
           st == <<s, t>>
           ts == <<t, s>>
           tt == <<t, t>>
<1>1. q[ss] \in Int /\ q[st] \in Int /\ q[ts] \in Int /\ q[tt] \in Int
  BY QuadIs
<1>2. D \X D = ((({} \cup {ss}) \cup {st}) \cup {ts}) \cup {tt}
  OBVIOUS
<1>3. ss # st /\ ss # ts /\ ss # tt /\ st # ts /\ st # tt /\ ts # tt
  OBVIOUS
<1>4. SumFunctionOnSet(q, D \X D) = q[tt] + (q[ts] + (q[st] + (q[ss] + 0)))
  <2> HIDE DEF q, ss, st, ts, tt, D
  <2> DEFINE S0 == {}
             S1 == S0 \cup {ss}
             S2 == S1 \cup {st}
             S3 == S2 \cup {ts}
             S4 == S3 \cup {tt}
  <2>0. /\ IsFiniteSet(S0) /\ ss \notin S0 /\ \A u \in S0 \cup {ss} : q[u] \in Int
        /\ IsFiniteSet(S1) /\ st \notin S1 /\ \A u \in S1 \cup {st} : q[u] \in Int
        /\ IsFiniteSet(S2) /\ ts \notin S2 /\ \A u \in S2 \cup {ts} : q[u] \in Int
        /\ IsFiniteSet(S3) /\ tt \notin S3 /\ \A u \in S3 \cup {tt} : q[u] \in Int
    <3>1. IsFiniteSet(S0)
      BY FS_EmptySet
    <3>2. IsFiniteSet(S1)
      BY <3>1, FS_AddElement
    <3>3. IsFiniteSet(S2)
      BY <3>2, FS_AddElement
    <3>4. IsFiniteSet(S3)
      BY <3>3, FS_AddElement
    <3> QED BY <1>1, <1>3, <3>1, <3>2, <3>3, <3>4
  <2>1. SumFunctionOnSet(q, S0) = 0
    BY SumEmpty
  <2> HIDE DEF S0
  <2>2. SumFunctionOnSet(q, S1) = q[ss] + SumFunctionOnSet(q, S0)
    BY <2>0, SumInsert
  <2> HIDE DEF S1
  <2>3. SumFunctionOnSet(q, S2) = q[st] + SumFunctionOnSet(q, S1)
    BY <2>0, SumInsert
  <2> HIDE DEF S2
  <2>4. SumFunctionOnSet(q, S3) = q[ts] + SumFunctionOnSet(q, S2)
    BY <2>0, SumInsert
  <2> HIDE DEF S3
  <2>5. SumFunctionOnSet(q, S4) = q[tt] + SumFunctionOnSet(q, S3)
    BY <2>0, SumInsert
  <2>6. D \X D = S4
    BY <1>2 DEF S0, S1, S2, S3, S4
  <2> HIDE DEF S4
  <2> QED BY <2>1, <2>2, <2>3, <2>4, <2>5, <2>6
<1>5. /\ q[ss] = Coef(sd, c, s, s) * Both(x, s, s) /\ q[st] = Coef(sd, c, s, t) * Both(x, s, t)
      /\ q[ts] = Coef(sd, c, t, s) * Both(x, t, s) /\ q[tt] = Coef(sd, c, t, t) * Both(x, t, t)
  BY QuadIs
<1> DEFINE a == sd[s]
           b == sd[t]
           y == x[s]
           z == x[t]
<1>6. a \in {-1, 0, 1} /\ b \in {-1, 0, 1} /\ y \in Nat /\ z \in Nat
      /\ (a = 0 => y = 0) /\ (b = 0 => z = 0)
  BY DEF Legs
<1>7. /\ q[ss] = (10 * a * a) * (y * y) /\ q[tt] = (10 * b * b) * (z * z)
      /\ q[st] = (c * a * b) * (y * z) /\ q[ts] = (c * b * a) * (z * y)
  <2> HIDE DEF q
  <2> QED BY <1>5 DEF Coef, Both
<1> DEFINE r == SumFunctionOnSet(q, D \X D)
<1>8. r = 10 * (y * y) + 10 * (z * z) + (2 * c * a * b) * (y * z)
  <2>1. r = (10 * b * b) * (z * z) + ((c * b * a) * (z * y) + ((c * a * b) * (y * z) + ((10 * a * a) * (y * y) + 0)))
    <3> HIDE DEF q, a, b, y, z
    <3> QED BY <1>4, <1>7
  <2> HIDE DEF r, a, b, y, z
  <2>2. (10 * a * a) * (y * y) = 10 * (y * y) /\ (10 * b * b) * (z * z) = 10 * (z * z)
    <3>1. (a = 0 /\ y = 0) \/ a * a = 1
      BY <1>6
    <3>2. (b = 0 /\ z = 0) \/ b * b = 1
      BY <1>6
    <3>3. 10 * a * a = 10 * (a * a) /\ 10 * b * b = 10 * (b * b) /\ a \in Int /\ b \in Int
      BY <1>6
    <3> QED BY <1>6, <3>1, <3>2, <3>3
  <2>3. (c * b * a) * (z * y) + (c * a * b) * (y * z) = (2 * c * a * b) * (y * z)
        /\ (c * b * a) * (z * y) \in Int /\ (c * a * b) * (y * z) \in Int
        /\ 10 * (y * y) \in Int /\ 10 * (z * z) \in Int
    <3>1. a \in Int /\ b \in Int
      BY <1>6
    <3> QED BY <1>6, <3>1
  <2> QED BY <2>1, <2>2, <2>3
<1> QED BY <1>8 DEF r, a, b, y, z, q, D, PairSum

(* Two legs, each within the cap: rounding one of them down, or both,      *)
(* leaves them within it, hedging each other or not.                       *)
LEMMA PairCap ==
  ASSUME NEW s, NEW t, s # t, NEW sd, NEW x, Legs({s, t}, sd, x), NEW c \in Int,
         \A u \in {s, t} : sd[u] = 0 => x[u] = 0, \A u \in {s, t} : x[u] <= Cap,
         NEW v \in Int, v = SumFunctionOnSet(Quad(sd, x, c, {s, t}), {s, t} \X {s, t}),
         NEW p, \A u \in {s, t} : Within(p[u], x[u], v)
  PROVE  SumFunctionOnSet(Quad(sd, p, c, {s, t}), {s, t} \X {s, t}) <= 10 * Cap * Cap
<1> DEFINE a == sd[s]
           b == sd[t]
           y == x[s]
           z == x[t]
           k == p[s]
           l == p[t]
           d == 2 * c * a * b
<1>1. a \in Int /\ b \in Int /\ d \in Int /\ y \in Nat /\ z \in Nat /\ k \in Nat /\ l \in Nat
      /\ k <= y /\ l <= z /\ k <= Cap /\ l <= Cap /\ Cap \in Nat
  <2>1. a \in {-1, 0, 1} /\ b \in {-1, 0, 1} /\ y \in Nat /\ z \in Nat
    BY DEF Legs
  <2>2. k \in Nat /\ l \in Nat /\ k <= y /\ l <= z /\ y <= Cap /\ z <= Cap /\ Cap \in Nat
    BY ConfDenIs DEF Within
  <2>3. d \in Int
    <3> HIDE DEF a, b
    <3> QED BY <2>1
  <2> HIDE DEF a, b, y, z, k, l, d
  <2> QED BY <2>1, <2>2, <2>3
<1>2. v = 10 * (y * y) + 10 * (z * z) + d * (y * z)
  <2>1. SumFunctionOnSet(Quad(sd, x, c, {s, t}), {s, t} \X {s, t}) = PairSum(s, t, sd, x, c)
    BY QuadPair
  <2>2. PairSum(s, t, sd, x, c) = 10 * (y * y) + 10 * (z * z) + d * (y * z)
    BY DEF PairSum
  <2> HIDE DEF y, z, d
  <2> QED BY <2>1, <2>2
<1>3. Legs({s, t}, sd, p) /\ \A u \in {s, t} : sd[u] = 0 => p[u] = 0
  BY DEF Legs, Within
<1>4. SumFunctionOnSet(Quad(sd, p, c, {s, t}), {s, t} \X {s, t}) = 10 * (k * k) + 10 * (l * l) + d * (k * l)
  <2>1. SumFunctionOnSet(Quad(sd, p, c, {s, t}), {s, t} \X {s, t}) = PairSum(s, t, sd, p, c)
    BY <1>3, QuadPair
  <2>2. PairSum(s, t, sd, p, c) = 10 * (k * k) + 10 * (l * l) + d * (k * l)
    BY DEF PairSum
  <2> QED BY <2>1, <2>2
<1>5. /\ v > 10 * Cap * Cap =>
           k * k * v <= 10 * (y * y) * (Cap * Cap) /\ l * l * v <= 10 * (z * z) * (Cap * Cap)
  BY DEF Within
<1> HIDE DEF a, b, y, z, k, l, d
<1>6. ASSUME NEW i \in Nat, NEW j \in Nat, i <= j,
             v > 10 * Cap * Cap => i * i * v <= 10 * (j * j) * (Cap * Cap)
      PROVE  i * i * v <= 10 * (j * j) * (Cap * Cap)
  <2>1. CASE v > 10 * Cap * Cap
    BY <1>6, <2>1
  <2>2. CASE ~ (v > 10 * Cap * Cap)
    <3>1. 10 * Cap * Cap \in Nat /\ i * i \in Nat /\ j * j \in Nat /\ v <= 10 * Cap * Cap /\ i * i <= j * j
      BY <1>1, <1>6, <2>2, SquareOrder
    <3> DEFINE m == 10 * Cap * Cap
               f == i * i
               g == j * j
    <3>2. m \in Nat /\ f \in Nat /\ g \in Nat /\ v <= m /\ f <= g
      BY <3>1
    <3>3. i * i * v = v * f /\ 10 * (j * j) * (Cap * Cap) = m * g
      BY <1>1
    <3> HIDE DEF m, f, g
    <3>4. v * f <= m * f /\ f * m <= g * m
      BY <3>2, TimesMonotone
    <3>5. v * f \in Int /\ m * f \in Int /\ f * m = m * f /\ g * m = m * g /\ m * g \in Int
      BY <3>2
    <3>6. v * f <= m * g
      BY <3>4, <3>5
    <3> QED BY <3>3, <3>6
  <2> QED BY <2>1, <2>2
<1>7. k * k * v <= 10 * (y * y) * (Cap * Cap) /\ l * l * v <= 10 * (z * z) * (Cap * Cap)
  BY <1>1, <1>5, <1>6
<1>8. 10 * Cap * Cap = 10 * (Cap * Cap)
  BY <1>1
<1>9. CASE l * y <= k * z
  <2>1. k * k * (10 * (y * y) + 10 * (z * z) + d * (y * z)) <= 10 * (y * y) * (Cap * Cap)
    BY <1>2, <1>7
  <2>2. 10 * (k * k) + 10 * (l * l) + d * (k * l) <= 10 * (Cap * Cap)
    BY <1>1, <1>9, <2>1, PairHalf
  <2> QED BY <1>4, <1>8, <2>2
<1>10. CASE ~ (l * y <= k * z)
  <2>0. k * z <= l * y
    <3>1. k * z \in Int /\ l * y \in Int
      BY <1>1
    <3> QED BY <1>10, <3>1
  <2>1. l * l * (10 * (z * z) + 10 * (y * y) + d * (z * y)) <= 10 * (z * z) * (Cap * Cap)
    <3>1. 10 * (z * z) + 10 * (y * y) + d * (z * y) = 10 * (y * y) + 10 * (z * z) + d * (y * z)
      BY <1>1
    <3> QED BY <1>2, <1>7, <3>1
  <2>2. 10 * (l * l) + 10 * (k * k) + d * (l * k) <= 10 * (Cap * Cap)
    BY <1>1, <2>0, <2>1, PairHalf
  <2>3. 10 * (l * l) + 10 * (k * k) + d * (l * k) = 10 * (k * k) + 10 * (l * l) + d * (k * l)
    BY <1>1
  <2> QED BY <1>4, <1>8, <2>2, <2>3
<1> QED BY <1>9, <1>10

(* Two of at most two things are all of them. *)
LEMMA OnlyTwo ==
  ASSUME NEW D, IsFiniteSet(D), Cardinality(D) <= 2, NEW s \in D, NEW t \in D, s # t
  PROVE  D = {s, t}
<1> SUFFICES ASSUME NEW u \in D, u \notin {s, t} PROVE FALSE
  OBVIOUS
<1>1. Cardinality(D \ {u}) = Cardinality(D) - 1 /\ IsFiniteSet(D \ {u})
  BY FS_RemoveElement
<1>2. Cardinality((D \ {u}) \ {s}) = Cardinality(D \ {u}) - 1 /\ IsFiniteSet((D \ {u}) \ {s})
  BY <1>1, FS_RemoveElement
<1>3. Cardinality(((D \ {u}) \ {s}) \ {t}) = Cardinality((D \ {u}) \ {s}) - 1
      /\ IsFiniteSet(((D \ {u}) \ {s}) \ {t})
  BY <1>2, FS_RemoveElement
<1>4. Cardinality(((D \ {u}) \ {s}) \ {t}) \in Nat
  BY <1>3, FS_CardinalityType
<1>5. Cardinality(D) \in Nat
  BY FS_CardinalityType
<1> QED BY <1>1, <1>2, <1>3, <1>4, <1>5

(* No two legs of the batch hedge each other. *)
Unhedged == \A s, t \in DOMAIN reqs : s # t => rho * reqs[s].side * reqs[t].side >= 0

(* At most two legs, neither of which can exceed the cap alone. *)
TwoLegs == Cardinality(DOMAIN reqs) <= 2 /\ RiskPerTrade * MaxMult <= CorrelationCap

(* The unrounded risks, with 0 for a leg that a gate refuses. *)
Wanted(batch) ==
  [s \in DOMAIN batch |-> IF s \in Active(batch) THEN LegRisk(batch[s]) ELSE 0]
Sides(batch) == [s \in DOMAIN batch |-> batch[s].side]

LEMMA WantedIs ==
  ASSUME NEW batch \in Batches
  PROVE  /\ Legs(DOMAIN batch, Sides(batch), Wanted(batch))
         /\ \A s \in DOMAIN batch : Sides(batch)[s] = 0 => Wanted(batch)[s] = 0
<1>1. ASSUME NEW s \in DOMAIN batch
      PROVE  /\ Sides(batch)[s] \in {-1, 0, 1} /\ Wanted(batch)[s] \in Nat
             /\ Sides(batch)[s] = 0 => Wanted(batch)[s] = 0
  <2>1. batch[s].side \in {-1, 0, 1} /\ LegRisk(batch[s]) \in Nat
    BY BatchIs
  <2>2. batch[s].side = 0 => s \notin Active(batch)
    BY DEF Active, Gate
  <2> QED BY <2>1, <2>2 DEF Sides, Wanted
<1> QED BY <1>1 DEF Legs

LEMMA WantedVariance ==
  ASSUME NEW batch \in Batches, NEW c \in Rhos
  PROVE  Variance(Signed(batch), c)
           = SumFunctionOnSet(Quad(Sides(batch), Wanted(batch), c, DOMAIN batch),
                              (DOMAIN batch) \X (DOMAIN batch))
<1> DEFINE D == DOMAIN batch
           A == Active(batch)
           f == Quad(Sides(batch), Wanted(batch), c, D)
           h == Terms(Signed(batch), c)
<1>1. c \in Int /\ IsFiniteSet(D) /\ A \in SUBSET D /\ IsFiniteSet(A)
  BY BatchIs, SizingAssumption
<1>2. IsFiniteSet(D \X D) /\ \A pair \in D \X D : f[pair] \in Int
  BY <1>1, WantedIs, QuadInt
<1>3. \A pair \in (D \X D) \ (A \X A) : f[pair] = 0
  <2> SUFFICES ASSUME NEW s \in D, NEW t \in D, ~ (s \in A /\ t \in A) PROVE f[<<s, t>>] = 0
    OBVIOUS
  <2>1. f[<<s, t>>] = Coef(Sides(batch), c, s, t) * Both(Wanted(batch), s, t)
        /\ Coef(Sides(batch), c, s, t) \in Int
    BY <1>1, WantedIs, QuadIs
  <2>2. Wanted(batch)[s] \in Nat /\ Wanted(batch)[t] \in Nat
        /\ (Wanted(batch)[s] = 0 \/ Wanted(batch)[t] = 0)
    <3>1. Wanted(batch)[s] \in Nat /\ Wanted(batch)[t] \in Nat
      BY WantedIs DEF Legs
    <3> QED BY <3>1 DEF Wanted
  <2>3. Both(Wanted(batch), s, t) = 0
    BY <2>2 DEF Both
  <2> HIDE DEF f
  <2> QED BY <2>1, <2>3
<1>4. \A pair \in A \X A : f[pair] \in Int /\ f[pair] = h[pair]
  <2> SUFFICES ASSUME NEW s \in A, NEW t \in A PROVE f[<<s, t>>] = h[<<s, t>>]
    BY <1>1, <1>2
  <2>1. DOMAIN Signed(batch) = A
    BY DEF Signed
  <2>2. h[<<s, t>>] = (IF s = t THEN 10 ELSE c) * Signed(batch)[s] * Signed(batch)[t]
    BY <2>1 DEF Terms
  <2>3. f[<<s, t>>] = (IF s = t THEN 10 ELSE c)
                        * (Sides(batch)[s] * Wanted(batch)[s]) * (Sides(batch)[t] * Wanted(batch)[t])
    BY <1>1 DEF Quad
  <2>4. /\ Signed(batch)[s] = Sides(batch)[s] * Wanted(batch)[s]
        /\ Signed(batch)[t] = Sides(batch)[t] * Wanted(batch)[t]
    BY <1>1 DEF Signed, Sides, Wanted
  <2> QED BY <2>2, <2>3, <2>4
<1>5. SumFunctionOnSet(f, D \X D) = SumFunctionOnSet(f, A \X A)
  <2>1. (A \X A) \in SUBSET (D \X D)
    BY <1>1
  <2> HIDE DEF f, D, A
  <2> DEFINE S == D \X D
             T == A \X A
  <2>2. IsFiniteSet(S) /\ T \in SUBSET S /\ (\A x \in T : f[x] \in Int) /\ \A x \in S \ T : f[x] = 0
    BY <1>2, <1>3, <2>1
  <2> HIDE DEF S, T
  <2>3. SumFunctionOnSet(f, S) = SumFunctionOnSet(f, T)
    BY <2>2, SumSupport
  <2> QED BY <2>3 DEF S, T
<1>6. SumFunctionOnSet(f, A \X A) = SumFunctionOnSet(h, A \X A)
  <2>1. IsFiniteSet(A \X A)
    BY <1>1, FS_Product
  <2> HIDE DEF f, h, A
  <2> QED BY <1>4, <2>1, SumEqual
<1>7. Variance(Signed(batch), c) = SumFunctionOnSet(h, A \X A)
  BY DEF Variance, Terms, SumFunction, Signed
<1> QED BY <1>5, <1>6, <1>7

(* One of the two conditions is enough for the cap. *)
LEMMA LegsCap ==
  ASSUME NEW D, IsFiniteSet(D), NEW sd, NEW x, Legs(D, sd, x), NEW c \in Int,
         \A s \in D : sd[s] = 0 => x[s] = 0,
         Hedgeless(D, sd, c) \/ (Cardinality(D) <= 2 /\ \A s \in D : x[s] <= Cap),
         NEW v \in Int, v = SumFunctionOnSet(Quad(sd, x, c, D), D \X D),
         NEW p, \A s \in D : Within(p[s], x[s], v)
  PROVE  SumFunctionOnSet(Quad(sd, p, c, D), D \X D) <= 10 * Cap * Cap
<1>1. CASE Hedgeless(D, sd, c)
  BY <1>1, HedgelessCap
<1>2. CASE ~ Hedgeless(D, sd, c)
  <2>1. PICK s \in D, t \in D : s # t
    BY <1>2 DEF Hedgeless
  <2>2. D = {s, t}
    BY <1>2, <2>1, OnlyTwo
  <2>3. \A u \in D : x[u] <= Cap
    BY <1>2
  <2>4. SumFunctionOnSet(Quad(sd, p, c, {s, t}), {s, t} \X {s, t}) <= 10 * Cap * Cap
    BY <2>1, <2>2, <2>3, PairCap
  <2> QED BY <2>2, <2>4
<1> QED BY <1>1, <1>2

(* The covariance cap holds of the rounded risks when no leg hedges        *)
(* another, or when there are two legs of which neither exceeds it alone:  *)
(* rounding down a hedging leg is what could break it (see README).        *)
THEOREM CapCorrect == Spec => [](Unhedged \/ TwoLegs => CapHolds)
<1>1. ASSUME BatchInv, Unhedged \/ TwoLegs PROVE CapHolds
  <2> DEFINE D == DOMAIN reqs
             sd == Sides(reqs)
             p == [s \in D |-> out[s].risk]
  <2>1. reqs \in Batches /\ rho \in Int /\ DOMAIN out = D
        /\ \/ \A s \in D : out[s] = Refused("circuit_breaker")
           \/ rho \in Rhos /\ \A s \in D : out[s] = Decision(reqs, rho, s)
    <3>1. CASE reqs = Nothing /\ out = Nothing /\ rho = 0
      <4>1. reqs \in [{} -> Requests]
        BY <3>1 DEF Nothing
      <4>2. reqs \in Batches
        BY <4>1 DEF Batches
      <4>3. DOMAIN reqs = {} /\ DOMAIN out = {}
        BY <3>1 DEF Nothing
      <4> QED BY <3>1, <4>2, <4>3
    <3>2. CASE reqs \in Batches /\ rho \in Rhos /\ DOMAIN out = DOMAIN reqs
               /\ \/ \A s \in DOMAIN reqs : out[s] = Refused("circuit_breaker")
                  \/ \A s \in DOMAIN reqs : out[s] = Decision(reqs, rho, s)
      BY <3>2, SizingAssumption
    <3> QED BY <1>1, <3>1, <3>2 DEF BatchInv
  <2>2. IsFiniteSet(D)
    BY <2>1, BatchIs
  <2>3. RealisedVariance = SumFunctionOnSet(Quad(sd, p, rho, D), D \X D)
    <3> DEFINE g == [pair \in D \X D |->
                       (IF pair[1] = pair[2] THEN 10 ELSE rho) * Exposure(pair[1]) * Exposure(pair[2])]
    <3>1. g = Quad(sd, p, rho, D)
      BY DEF Quad, Exposure, Sides
    <3>2. RealisedVariance = SumFunctionOnSet(g, D \X D)
      BY <2>1 DEF RealisedVariance, SumFunction
    <3> QED BY <3>1, <3>2
  <2>4. Hedgeless(D, sd, rho) \/ (Cardinality(D) <= 2 /\ RiskPerTrade * MaxMult <= CorrelationCap)
    BY <1>1 DEF Unhedged, TwoLegs, Hedgeless, Sides
  <2>5. CASE \A s \in D : out[s] = Refused("circuit_breaker")
    <3> DEFINE v == SumFunctionOnSet(Quad(sd, p, rho, D), D \X D)
    <3>1. \A s \in D : p[s] = 0
      BY <2>5 DEF Refused
    <3>2. Legs(D, sd, p) /\ Cap \in Nat
      <4>1. \A s \in D : sd[s] \in {-1, 0, 1}
        BY <2>1, BatchIs DEF Sides
      <4> QED BY <3>1, <4>1, ConfDenIs DEF Legs
    <3>3. v \in Int
      BY <2>1, <2>2, <3>2, QuadInt
    <3> HIDE DEF p, v, sd
    <3>4. \A s \in D : Within(p[s], p[s], v)
      <4>1. 10 * (0 * 0) * (Cap * Cap) = 0 /\ 0 * 0 * v = 0
        BY <3>2, <3>3
      <4> QED BY <3>1, <4>1 DEF Within
    <3>5. \A s \in D : p[s] <= Cap
      BY <3>1, <3>2
    <3>6. v = SumFunctionOnSet(Quad(sd, p, rho, D), D \X D)
      BY DEF v
    <3>7. SumFunctionOnSet(Quad(sd, p, rho, D), D \X D) <= 10 * Cap * Cap
      BY <2>1, <2>2, <2>4, <3>1, <3>2, <3>3, <3>4, <3>5, <3>6, LegsCap
    <3> QED BY <2>3, <3>7 DEF CapHolds
  <2>6. CASE rho \in Rhos /\ \A s \in D : out[s] = Decision(reqs, rho, s)
    <3> DEFINE v == Variance(Signed(reqs), rho)
               x == Wanted(reqs)
    <3>1. v \in Int /\ v = SumFunctionOnSet(Quad(sd, x, rho, D), D \X D)
      BY <2>1, <2>6, VarianceIs, WantedVariance
    <3>2. Legs(D, sd, x) /\ \A s \in D : sd[s] = 0 => x[s] = 0
      BY <2>1, WantedIs
    <3>3. ASSUME NEW s \in D PROVE Within(p[s], x[s], v)
      <4>1. CASE s \in Active(reqs)
        <5>1. out[s] = Sized(reqs[s], v) /\ x[s] = LegRisk(reqs[s]) /\ reqs[s] \in Requests
          BY <2>1, <2>6, <4>1, BatchIs DEF Decision, Wanted
        <5>2. Within(Sized(reqs[s], v).risk, LegRisk(reqs[s]), v)
          BY <3>1, <5>1, SizedIs
        <5> QED BY <5>1, <5>2
      <4>2. CASE s \notin Active(reqs)
        <5>1. p[s] = 0 /\ x[s] = 0
          <6>1. out[s] = Refused(Gate(reqs[s])) /\ x[s] = 0
            BY <2>6, <4>2 DEF Decision, Wanted
          <6> HIDE DEF x, v
          <6> QED BY <6>1 DEF Refused
        <5>2. Within(0, 0, v)
          <6>1. Cap \in Nat
            BY ConfDenIs
          <6> HIDE DEF v
          <6>2. 10 * (0 * 0) * (Cap * Cap) = 0 /\ 0 * 0 * v = 0
            BY <3>1, <6>1
          <6> QED BY <6>2 DEF Within
        <5> HIDE DEF p, x, v
        <5> QED BY <5>1, <5>2
      <4> QED BY <4>1, <4>2
    <3>4. RiskPerTrade * MaxMult <= CorrelationCap => \A s \in D : x[s] <= Cap
      <4> SUFFICES ASSUME RiskPerTrade * MaxMult <= CorrelationCap, NEW s \in D PROVE x[s] <= Cap
        OBVIOUS
      <4>1. x[s] = 0 \/ x[s] = LegRisk(reqs[s])
        BY DEF Wanted
      <4>2. LegRisk(reqs[s]) <= RiskPerTrade * MaxMult * ConfDen /\ LegRisk(reqs[s]) \in Nat
        BY <2>1, BatchIs, LegRiskIs
      <4>3. RiskPerTrade * MaxMult * ConfDen <= Cap /\ RiskPerTrade * MaxMult * ConfDen \in Int
            /\ Cap \in Nat
        <5>1. RiskPerTrade * MaxMult \in Nat /\ CorrelationCap \in Nat /\ ConfDen \in Nat
          BY SizingAssumption, ConfDenIs
        <5>2. (RiskPerTrade * MaxMult) * ConfDen <= CorrelationCap * ConfDen
          BY <5>1, TimesMonotone
        <5>3. (RiskPerTrade * MaxMult) * ConfDen \in Int /\ Cap \in Nat
          BY <5>1, ConfDenIs
        <5> QED BY <5>2, <5>3 DEF Cap
      <4> HIDE DEF x
      <4> QED BY <4>1, <4>2, <4>3
    <3> HIDE DEF v, x, p, sd
    <3>5. Hedgeless(D, sd, rho) \/ (Cardinality(D) <= 2 /\ \A s \in D : x[s] <= Cap)
      BY <2>4, <3>4
    <3>6. SumFunctionOnSet(Quad(sd, p, rho, D), D \X D) <= 10 * Cap * Cap
      BY <2>1, <2>2, <3>1, <3>2, <3>3, <3>5, LegsCap
    <3> QED BY <2>3, <3>6 DEF CapHolds
  <2> QED BY <2>1, <2>5, <2>6
<1> QED BY <1>1, BatchInvariant, PTL

(* With two instruments and a leg that fits under the cap, the cap holds.  *)
THEOREM CapOfPair ==
  ASSUME Cardinality(Symbols) <= 2, RiskPerTrade * MaxMult <= CorrelationCap
  PROVE  Spec => []CapHolds
<1>1. BatchInv => TwoLegs
  <2> SUFFICES ASSUME BatchInv PROVE Cardinality(DOMAIN reqs) <= 2
    BY DEF TwoLegs
  <2>1. DOMAIN reqs \in SUBSET Symbols
    <3>1. CASE reqs = Nothing
      BY <3>1 DEF Nothing
    <3>2. CASE reqs \in Batches
      BY <3>2, BatchIs
    <3> QED BY <3>1, <3>2 DEF BatchInv
  <2>2. /\ Cardinality(DOMAIN reqs) <= Cardinality(Symbols) /\ IsFiniteSet(DOMAIN reqs)
        /\ IsFiniteSet(Symbols)
    BY <2>1, FS_Subset, SizingAssumption
  <2>3. Cardinality(DOMAIN reqs) \in Nat /\ Cardinality(Symbols) \in Nat
    BY <2>2, FS_CardinalityType
  <2> QED BY <2>2, <2>3
<1> QED BY <1>1, BatchInvariant, CapCorrect, PTL
=============================================================================
