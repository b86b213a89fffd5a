------------------------------ MODULE Labeling ------------------------------
(***************************************************************************)
(* Layer 4: the triple-barrier labeler (l4_labeling/triple_barrier.py),    *)
(* its sample weights (uniqueness.py), the trend scanner                   *)
(* (trend_scanning.py) and the job that relabels a symbol while its bars   *)
(* arrive (scripts/make_labels.py, labeler.py).                            *)
(*                                                                         *)
(* Time counts bars, from 1.  The newest bar is still forming: it is       *)
(* revised until the next one opens.  Prices are integers; an ATR that is  *)
(* NaN (warm-up) or not positive is 0.  The Wilder average itself is an    *)
(* attribute of the bar, as it is fixed once the bar is.  In the trend     *)
(* scanner a close stands for its logarithm, and arithmetic is exact, but  *)
(* for what rounding leaves of a straight line.                            *)
(***************************************************************************)
EXTENDS Integers, SequencesExt

CONSTANTS
  Shapes,      \* bars: [high, low, close, atr]
  NBars,       \* bound: bars that ever arrive
  SideMaps,    \* side arguments: <<>> is None, else a side for each bar
  TpMult, SlMult, Vertical,   \* tp_atr_mult, sl_atr_mult, vertical_bars
  MinRetPct,   \* min_return, in percent
  TieBreak,    \* tie_break
  LastPct,     \* time_decay_last_weight, in percent
  Unit,        \* a common multiple of 1 .. Vertical + 1
  MinHorizon, MaxHorizon, TThreshold,  \* of the trend scanner
  LineTs       \* squared t-values floats can give a straight line, 0 if no residual is left

ASSUME ShapesAssumption ==
  /\ Shapes \subseteq [high : Nat, low : Nat, close : Nat, atr : Nat]
  /\ \A b \in Shapes : 0 < b.low /\ b.low <= b.close /\ b.close <= b.high

ASSUME LabelingAssumption ==
  /\ NBars \in Nat /\ Vertical \in Nat \ {0} /\ TpMult \in Nat /\ SlMult \in Nat
  /\ SideMaps \subseteq {<<>>} \cup [1 .. NBars -> {-1, 0, 1}]
  /\ MinRetPct \in Nat /\ TieBreak \in {"sl", "tp"} /\ LastPct \in 0 .. 100
  /\ MinHorizon \in Nat \ {0} /\ MaxHorizon \in Nat /\ TThreshold \in Nat
  /\ LineTs \subseteq Nat
  /\ Unit \in Nat \ {0} /\ \A c \in 1 .. Vertical + 1 : Unit % c = 0

VARIABLES
  bars,      \* the stored bars; the last one is forming
  side,      \* the side argument of every run
  labels,    \* the label store: event -> label record
  horizon    \* history: how many bars the last run saw

labelVars == <<bars, side, labels, horizon>>

Meta == side # <<>>
SideOf(e) == IF Meta THEN side[e] ELSE 1

LabelInit == bars = <<>> /\ side \in SideMaps /\ labels = <<>> /\ horizon = 0

-----------------------------------------------------------------------------
(* triple_barrier_labels, for one event e.                                 *)

(* The events of bs that get a record. *)
Events(bs) == {e \in 1 .. Len(bs) - 1 : bs[e].atr > 0 /\ SideOf(e) # 0}

TpPrice(bs, e) == bs[e].close + SideOf(e) * TpMult * bs[e].atr
SlPrice(bs, e) == bs[e].close - SideOf(e) * SlMult * bs[e].atr

HitTp(bs, e, j) ==
  IF SideOf(e) = 1 THEN bs[j].high >= TpPrice(bs, e) ELSE bs[j].low <= TpPrice(bs, e)
HitSl(bs, e, j) ==
  IF SideOf(e) = 1 THEN bs[j].low <= SlPrice(bs, e) ELSE bs[j].high >= SlPrice(bs, e)

Earlier(a, b) == IF a <= b THEN a ELSE b

(* i_end: the vertical barrier, or the last bar there is. *)
EndBar(bs, e) == Earlier(e + Vertical, Len(bs))

(* Mutant: the walk goes on to the last bar. *)
TouchesToTheEnd(bs, e) == {j \in e + 1 .. Len(bs) : HitTp(bs, e, j) \/ HitSl(bs, e, j)}

Touches(bs, e) == {j \in e + 1 .. EndBar(bs, e) : HitTp(bs, e, j) \/ HitSl(bs, e, j)}

(* Mutant: a bar that touches both barriers takes profit. *)
ProfitFirst(bs, e, j) == IF HitTp(bs, e, j) THEN "tp" ELSE "sl"

Outcome(bs, e, j) ==
  IF HitTp(bs, e, j) /\ (HitSl(bs, e, j) => TieBreak = "tp") THEN "tp" ELSE "sl"

(* Mutant: the return of a short bet keeps the sign of the price. *)
UnsignedGain(bs, e, exit) == exit - bs[e].close

(* entry * raw_ret * s. *)
Gain(bs, e, exit) == SideOf(e) * (exit - bs[e].close)

Direction(barrier) == CASE barrier = "tp" -> 1 [] barrier = "sl" -> -1 [] OTHER -> 0

LabelOf(bs, e) ==
  LET touched == Touches(bs, e)
      t1 == IF touched = {} THEN EndBar(bs, e) ELSE Min(touched)
      barrier == IF touched = {} THEN "vertical" ELSE Outcome(bs, e, t1)
      exit == CASE barrier = "tp" -> TpPrice(bs, e) [] barrier = "sl" -> SlPrice(bs, e)
                [] OTHER -> bs[t1].close
      won == \/ barrier = "tp"
             \/ barrier = "vertical" /\ 100 * Gain(bs, e, exit) > MinRetPct * bs[e].close
  IN [t1 |-> t1, barrier |-> barrier, exit |-> exit,
      label |-> IF ~ Meta THEN Direction(barrier) ELSE IF won THEN 1 ELSE 0,
      weight |-> 0]   \* until it is weighted

-----------------------------------------------------------------------------
(* sample_weights; t1 is the function from the labelled events to the ends *)
(* of their spans.  Fractions are kept as multiples of 1 / Unit.           *)

(* Mutant: a label counts as live up to its vertical barrier.              *)
LiveToHorizon(t1, b) == {e \in DOMAIN t1 : e <= b /\ b <= e + Vertical}

Live(t1, b) == {e \in DOMAIN t1 : e <= b /\ b <= t1[e]}

(* num_concurrent_events. *)
Concurrency(t1, b) == Cardinality(Live(t1, b))

(* Unit * the sum of 1 / concurrency over the span of e. *)
Share(t1, e) == SumFunction([b \in e .. t1[e] |-> Unit \div Concurrency(t1, b)])

(* average_uniqueness, times Unit * Unit. *)
Uniqueness(t1, e) == Share(t1, e) * (Unit \div (t1[e] - e + 1))

(* From the uniqueness u of each label: the sums time_decay takes.         *)
Cumulated(u, e) == SumFunctionOnSet(u, {f \in DOMAIN u : f <= e})
Total(u) == SumFunction(u)

(* time_decay, times 100 * Total. *)
Decay(u, e) == LastPct * Total(u) + (100 - LastPct) * Cumulated(u, e)

(* The weight before it is scaled to mean 1, in units of one run.          *)
Weight(u, e) == u[e] * Decay(u, e)

(* Labeler.make_labels. *)
MakeLabels(bs) ==
  LET made == [e \in Events(bs) |-> LabelOf(bs, e)]
      t1 == [e \in DOMAIN made |-> made[e].t1]
      u == [e \in DOMAIN made |-> Uniqueness(t1, e)]
  IN [e \in DOMAIN made |-> [made[e] EXCEPT !.weight = Weight(u, e)]]

-----------------------------------------------------------------------------
(* trend_scanning_labels; nothing stores its result.                       *)

Sign(i) == IF i > 0 THEN 1 ELSE IF i < 0 THEN -1 ELSE 0

(* The slope's sign and the square of its t-value as a fraction, from n    *)
(* times the sums of squared deviations: 0 for fewer than three points and *)
(* for a flat line.  Another straight line has no residuals but what       *)
(* rounding leaves of them: if it leaves none the code answers 0, else the *)
(* slope is divided by next to nothing (line).                             *)
TValue(n, xx, xy, yy, line) ==
  CASE n < 3 -> [num |-> 0, den |-> 1, sign |-> 0]
    [] n >= 3 /\ xx * yy = xy * xy ->
         [num |-> IF xy = 0 THEN 0 ELSE line, den |-> 1, sign |-> Sign(xy)]
    [] OTHER -> [num |-> (n - 2) * xy * xy, den |-> xx * yy - xy * xy, sign |-> Sign(xy)]

(* _slope_tvalue over the bars from e to e + span; n times the sum of the  *)
(* products of two deviations is the sum over all pairs of points.         *)
Slope(bs, e, span, rounded) ==
  LET pairs == {p \in (e .. e + span) \X (e .. e + span) : p[1] < p[2]}
      rise(p) == bs[p[2]].close - bs[p[1]].close
      run(p) == p[2] - p[1]
  IN TValue(span + 1, SumFunction([p \in pairs |-> run(p) * run(p)]),
                      SumFunction([p \in pairs |-> run(p) * rise(p)]),
                      SumFunction([p \in pairs |-> rise(p) * rise(p)]), rounded[span])

(* Mutant: a falling trend has a t-value below zero.                       *)
SteeperOnly(s, r) == s.sign > 0 /\ s.num * r.den > r.num * s.den

Stronger(s, r) == s.num * r.den > r.num * s.den

(* The horizons there are bars for. *)
Horizons(bs, e) == MinHorizon .. Earlier(MaxHorizon, Len(bs) - e)
TrendEvents(bs) == {e \in 1 .. Len(bs) : e + MinHorizon <= Len(bs)}

(* Do the closes rise, or fall, by the same step on every bar?             *)
Straight(bs, e, span) ==
  /\ bs[e + 1].close # bs[e].close
  /\ \A i \in e + 1 .. e + span - 1 : bs[i + 1].close - bs[i].close = bs[e + 1].close - bs[e].close

(* How rounding may turn out, on the horizons where it matters.            *)
Roundings(bs, e) ==
  {r \in [Horizons(bs, e) -> LineTs \cup {0}] :
     \A span \in Horizons(bs, e) : Straight(bs, e, span) \/ r[span] = 0}

NoTrend == [span |-> MinHorizon, slope |-> [num |-> 0, den |-> 1, sign |-> 0]]

(* One turn of the scan: a horizon replaces the best one so far. *)
Better(bs, e, best, span, rounded) ==
  LET s == Slope(bs, e, span, rounded)
  IN IF Stronger(s, best.slope) THEN [span |-> span, slope |-> s] ELSE best

(* The event's trend label. *)
TrendOf(bs, e, rounded) ==
  LET best == FoldLeft(LAMBDA b, span : Better(bs, e, b, span, rounded), NoTrend,
                       [i \in 1 .. Cardinality(Horizons(bs, e)) |-> MinHorizon + i - 1])
  IN [t1 |-> e + best.span,
      label |-> IF best.slope.num >= TThreshold * TThreshold * best.slope.den
                THEN best.slope.sign ELSE 0]

-----------------------------------------------------------------------------
(* Bars arrive, and the labelling job runs over all of them.               *)

Arrive(shape) ==
  /\ Len(bars) < NBars
  /\ bars' = Append(bars, shape)
  /\ UNCHANGED <<side, labels, horizon>>

(* The forming bar: its range only grows. *)
Revise(shape) ==
  /\ bars # <<>>
  /\ LET old == bars[Len(bars)] IN
     shape # old /\ shape.high >= old.high /\ shape.low <= old.low
  /\ bars' = [bars EXCEPT ![Len(bars)] = shape]
  /\ UNCHANGED <<side, labels, horizon>>

(* make_labels.main: no bars, no run; the store keeps the newest record.   *)
Relabel ==
  /\ bars # <<>>
  /\ \E made \in {MakeLabels(bars)} :
     labels' = [e \in DOMAIN made \cup DOMAIN labels |->
                  IF e \in DOMAIN made THEN made[e] ELSE labels[e]]
  /\ horizon' = Len(bars)
  /\ UNCHANGED <<bars, side>>

LabelNext == (\E shape \in Shapes : Arrive(shape) \/ Revise(shape)) \/ Relabel

LabelSpec == LabelInit /\ [][LabelNext]_labelVars

-----------------------------------------------------------------------------
(* Properties.                                                             *)

(* The last run saw the bar label e ends on complete. *)
Settled(e) == labels[e].t1 < horizon

Content(record) == [record EXCEPT !.weight = 0]

(* A label whose last bar was complete when it was made never changes:     *)
(* later bars, later runs and revisions of the newest bar leave the        *)
(* training set alone, but for the weights (triple_barrier.py:15-18).      *)
SettledNeverChanges ==
  [][\A e \in DOMAIN labels : Settled(e) => Content(labels'[e]) = Content(labels[e])]_labelVars

(* "We break the tie pessimistically" (triple_barrier.py:16-18): a take-   *)
(* profit label is a certain win, in no bar up to its end could the stop   *)
(* have been hit first.                                                    *)
WinsAreCertain ==
  \A e \in DOMAIN labels :
    Settled(e) /\ labels[e].barrier = "tp" =>
      \A j \in e + 1 .. labels[e].t1 : ~ HitSl(bars, e, j)

(* "Label = 1 if the primary's bet wins" (triple_barrier.py:24): a bet the *)
(* meta-model is taught to take has gained, long or short, by barrier or   *)
(* by timeout - and one that lost is never among them.                     *)
TakenBetsGain ==
  Meta => \A e \in DOMAIN labels :
    labels[e].label = 1 => side[e] * (labels[e].exit - bars[e].close) > 0

Ends == [e \in DOMAIN labels |-> labels[e].t1]

(* "Overlapping H4 labels share information" (uniqueness.py:3-6): over all *)
(* labels, every bar some label covers is counted exactly once.            *)
InformationCountedOnce ==
  SumFunction([e \in DOMAIN labels |-> Share(Ends, e)])
    = Unit * Cardinality(UNION {e .. labels[e].t1 : e \in DOMAIN labels})

Mirrored(bs) == [i \in DOMAIN bs |-> [bs[i] EXCEPT !.close = -@]]

Reached(slope) == slope.num > 0 /\ slope.num >= TThreshold * TThreshold * slope.den

(* "Keep the horizon whose slope has the largest |t-value|.  The label is  *)
(* the sign of that slope (0 if |t| below threshold)" (trend_scanning.py:  *)
(* 4-6): no other horizon has a stronger trend, the label is that trend's  *)
(* direction exactly if a horizon reaches the threshold, and a market that *)
(* falls the way another rises gets the same spans and the opposite label. *)
(* It holds however the residuals of straight lines are rounded.           *)
TrendIsStrongest ==
  \A e \in TrendEvents(bars) : \A rounded \in Roundings(bars, e) :
    LET trend == TrendOf(bars, e, rounded)
        mirror == TrendOf(Mirrored(bars), e, rounded)
        slope(span) == Slope(bars, e, span, rounded)
        chosen == slope(trend.t1 - e)
    IN /\ \A span \in Horizons(bars, e) : ~ Stronger(slope(span), chosen)
       /\ trend.label = IF \E span \in Horizons(bars, e) : Reached(slope(span))
                        THEN chosen.sign ELSE 0
       /\ mirror = [t1 |-> trend.t1, label |-> - trend.label]

(* A market that has risen on every bar at the same pace is labelled as a  *)
(* rise, as tests/test_l4_labeling.py:126-130 expects of one such market.  *)
CleanRiseIsUp ==
  \A e \in TrendEvents(bars) : \A rounded \in Roundings(bars, e) :
    bars[e].close < bars[e + 1].close /\ Straight(bars, e, Len(bars) - e)
      => TrendOf(bars, e, rounded).label = 1
=============================================================================
