------------------------------ MODULE Features ------------------------------
(***************************************************************************)
(* Layer 1: which stored bars a feature is computed from (l1_features/).   *)
(*                                                                         *)
(* A column gives each row of the bars' index NaN or the set of bars its   *)
(* value was computed from: the empty set for a value that depends on none *)
(* (a session dummy).  Numbers are left out, and with them the NaN of a    *)
(* division by a zero range or deviation.                                  *)
(***************************************************************************)
EXTENDS Integers, SequencesExt

CONSTANTS
  NaN,
  HoursPerBar,
  Width    \* record of the windows, in rows; lag is lead_lag_max_shift

Windowed == {"atr", "atr_pct", "yz", "vol", "ker", "hurst", "corr", "spread", "lag", "sess", "sess_min"}

ASSUME FeaturesAssumption == HoursPerBar \in Nat \ {0} /\ Width \in [Windowed -> Nat \ {0}]

(* f itself; the comparison makes TLC compute its values once and not at   *)
(* every use.                                                              *)
Tabulated(f) == CHOOSE g \in {f} : g = f

-----------------------------------------------------------------------------
(* pandas.                                                                 *)

Present(x, rows) == {i \in rows \cap DOMAIN x : x[i] # NaN}
Gather(x, rows) == UNION {x[i] : i \in rows}

Shift(x, k) == Tabulated([i \in DOMAIN x |-> IF i - k \in DOMAIN x THEN x[i - k] ELSE NaN])

(* Arithmetic on two columns. *)
Join(x, y) == Tabulated([i \in DOMAIN x |-> IF NaN \in {x[i], y[i]} THEN NaN ELSE x[i] \cup y[i]])

Diff(x, k) == Join(x, Shift(x, k))

(* rolling(window): every statistic, min_periods = window. *)
Rolling(x, window) ==
  Tabulated([i \in DOMAIN x |->
    LET seen == Present(x, i - window + 1 .. i)
    IN IF Cardinality(seen) >= window THEN Gather(x, seen) ELSE NaN])

(* ewm(adjust=False, min_periods=window).mean() *)
Ewm(x, window) ==
  Tabulated([i \in DOMAIN x |->
    LET seen == Present(x, 1 .. i)
    IN IF Cardinality(seen) >= window THEN Gather(x, seen) ELSE NaN])

-----------------------------------------------------------------------------
(* A leg's bars are a function from timestamps to the state of the bar.    *)

Index(bars) ==
  Tabulated([i \in 1 .. Cardinality(DOMAIN bars) |->
    CHOOSE t \in DOMAIN bars : Cardinality({u \in DOMAIN bars : u <= t}) = i])

Input(leg, bars, t) == {<<leg, t, bars[t]>>}

Column(leg, bars) ==
  LET index == Index(bars)
  IN Tabulated([i \in DOMAIN index |-> Input(leg, bars, index[i])])

(* Mutant: a missing bar of the partner is filled with the next one.       *)
ReindexBackfilled(leg, bars, index) ==
  Tabulated([i \in DOMAIN index |->
    LET later == {t \in DOMAIN bars : t >= index[i]}
    IN IF later = {} THEN NaN ELSE Input(leg, bars, Min(later))])

(* "Exact-timestamp align ... missing partner bars stay NaN". *)
Reindex(leg, bars, index) ==
  Tabulated([i \in DOMAIN index |->
    IF index[i] \in DOMAIN bars THEN Input(leg, bars, index[i]) ELSE NaN])

(* true_range: the maximum over the terms that are not NaN. *)
TrueRange(x) == [i \in DOMAIN x |-> IF i = 1 THEN x[1] ELSE x[i] \cup x[i - 1]]

-----------------------------------------------------------------------------
(* The blocks.                                                             *)

VolatilityBlock(x) ==
  LET atr == Ewm(TrueRange(x), Width.atr) returns == Diff(x, 1) IN
  [vol_atr |-> atr,
   vol_atr_pct_price |-> Join(atr, x),
   vol_atr_pct |-> Rolling(atr, Width.atr_pct),
   vol_yang_zhang |-> Join(Rolling(returns, Width.yz), Rolling(x, Width.yz)),
   vol_realized_vol |-> Rolling(returns, Width.vol)]

TrendMemoryBlock(x) ==
  [tm_ker |-> Join(Diff(x, Width.ker), Rolling(Diff(x, 1), Width.ker)),
   tm_hurst |-> Rolling(x, Width.hurst)]

Hour(t) == (t * HoursPerBar) % 24

(* DEFAULT_WINDOWS *)
SessionWindow == [asian |-> 0 .. 7, london |-> 7 .. 15, ny |-> 12 .. 20]

PrimarySession(t) ==
  IF Hour(t) \in SessionWindow.ny THEN "ny"
  ELSE IF Hour(t) \in SessionWindow.london THEN "london"
  ELSE IF Hour(t) \in SessionWindow.asian THEN "asian" ELSE "off"

(* The dummies, and the return against the mean of the rows before it in   *)
(* the same session.                                                       *)
SessionBlock(x, index) ==
  LET ret == Diff(x, 1)
      group(i) == {j \in 1 .. i - 1 : PrimarySession(index[j]) = PrimarySession(index[i])}
      prior(i) == {j \in group(i) : Cardinality({k \in group(i) : k > j}) < Width.sess}
      baseline == Tabulated([i \in DOMAIN x |->
        LET seen == Present(ret, prior(i))
        IN IF Cardinality(seen) >= Width.sess_min THEN Gather(ret, seen) ELSE NaN])
  IN [sess_is |-> [i \in DOMAIN x |-> {}], sess_rel_vol |-> Join(ret, baseline)]

(* Mutant: one lag too many.                                               *)
LagsInclusive == [i \in 1 .. Width.lag + 1 |-> i]

(* range(1, lead_lag_max_shift + 1) *)
Lags == [i \in 1 .. Width.lag |-> i]

(* best.where(best.abs() >= c.abs(), c): a lag that is NaN blanks the best *)
(* of the shorter ones.                                                    *)
Stronger(best, c) ==
  Tabulated([i \in DOMAIN c |-> IF NaN \in {best[i], c[i]} THEN c[i] ELSE best[i] \cup c[i]])

(* The correlation with the partner's return of k bars before. *)
Lagged(ret, other, k) == Rolling(Join(ret, Shift(other, k)), Width.corr)

LeadLagBest(ret, other) ==
  FoldLeft(LAMBDA best, k : Stronger(best, Lagged(ret, other, k)), Lagged(ret, other, 1), Tail(Lags))

CrossPairBlock(x, partner) ==
  LET ret == Diff(x, 1) other == Diff(partner, 1) spread == Join(x, partner) IN
  [xpair_corr |-> Rolling(Join(ret, other), Width.corr),
   xpair_spread_z |-> Join(spread, Rolling(spread, Width.spread)),
   xpair_lead_lag_corr |-> Lagged(ret, other, 1),
   xpair_lead_lag_best |-> LeadLagBest(ret, other)]

(* pd.concat of columns. *)
Concat(x, y) == [c \in DOMAIN x \cup DOMAIN y |-> IF c \in DOMAIN x THEN x[c] ELSE y[c]]

(* FeaturePipeline.compute(dropna_warmup=True): timestamp -> row.  Without *)
(* stored partner bars there is no cross-pair block: its columns are NaN.  *)
FeatureMatrix(bars, symbol, partner) ==
  LET index == Index(bars[symbol])
      x == Column(symbol, bars[symbol])
      columns == Concat(Concat(VolatilityBlock(x), TrendMemoryBlock(x)),
                        Concat(SessionBlock(x, index),
                               CrossPairBlock(x, Reindex(partner, bars[partner], index))))
      row(i) == [c \in DOMAIN columns |-> columns[c][i]]
      kept == {i \in DOMAIN index : \E c \in DOMAIN columns : columns[c][i] # NaN}
  IN Tabulated([t \in {index[i] : i \in kept} |->
       row(CHOOSE i \in DOMAIN index : index[i] = t)])
=============================================================================
