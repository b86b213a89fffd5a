-------------------------- MODULE LifecycleProofs --------------------------
(***************************************************************************)
(* The lifecycle implements ModelRegistry, for every journal, monitor,     *)
(* verdict and number of retrainings; the dashboard misses no decay that   *)
(* the retrainer sees, and a passed verdict beats every baseline.          *)
(***************************************************************************)
EXTENDS Lifecycle, DataProofs

(* The versions that may serve: those the gate cleared, or all that were   *)
(* trained when no gate is required.                                       *)
Allowed == IF require_gate_pass THEN cleared ELSE 1 .. version

LTypeOK ==
  /\ require_gate_pass \in BOOLEAN
  /\ pc \in {"idle", "train", "validate", "publish", "dump"}
  /\ version \in 0 .. MaxVersions /\ newest \in Int
  /\ cleared \subseteq 1 .. version
  /\ pc # "idle" => version >= 1

(* What serves next comes from the file, what is written to the file from  *)
(* the version being saved: each must be allowed, and none may be older    *)
(* than what has been in use.                                              *)
LInv ==
  /\ LTypeOK
  /\ newest <= version
  /\ pc = "validate" => require_gate_pass
  /\ pc \in {"publish", "dump"} => version \in Allowed
  /\ Loaded => file \in Allowed /\ file >= newest

(* Nothing is trained, saved or serving when the program starts.           *)
LEMMA LInit == Init => LInv
  BY LifecycleAssumption
  DEF Init, LInv, LTypeOK, Allowed, Loaded, Torn, Nobody

(* Every step leaves on its way only what is allowed and not outdated.     *)
LEMMA StepKeepsLInv == LInv /\ [Next]_vars => LInv'
<1> SUFFICES ASSUME LInv, [Next]_vars PROVE LInv'
  OBVIOUS
<1> USE LifecycleAssumption DEF LInv, LTypeOK, Loaded, Torn, Nobody, process, registry, settings
<1>1. CASE \E t \in Trades : Trade(t)
  BY <1>1 DEF Trade, Allowed
<1>2. CASE StartRetrain
  BY <1>2 DEF StartRetrain, Allowed
<1>3. CASE Train
  BY <1>3 DEF Train, Allowed
<1>4. CASE Validate
  <2>1. require_gate_pass /\ version' = version /\ newest' = newest /\ file' = file
        /\ require_gate_pass' = require_gate_pass /\ pc' \in {"publish", "idle"}
    BY <1>4 DEF Validate
  <2>2. cleared \subseteq cleared' /\ cleared' \subseteq 1 .. version
    <3>1. version \in 1 .. version
      BY <1>4 DEF Validate
    <3>2. cleared' = cleared \/ cleared' = cleared \cup {version}
      BY <1>4 DEF Validate
    <3> HIDE DEF LInv, LTypeOK
    <3>3. cleared \subseteq 1 .. version
      BY DEF LInv, LTypeOK
    <3> QED BY <3>1, <3>2, <3>3
  <2>3. pc' = "publish" => version \in cleared'
    <3>1. CASE report' \in GoVerdicts /\ cleared' = cleared \cup {version}
      BY <3>1
    <3>2. CASE report' = NoReport
      BY <1>4, <3>2 DEF Validate, ModelReturned, NoReport
    <3> QED BY <1>4, <3>1, <3>2 DEF Validate
  <2>4. version >= 1
    BY <1>4 DEF Validate
  <2> QED BY <2>1, <2>2, <2>3, <2>4 DEF Allowed
<1>5. CASE Raise
  BY <1>5 DEF Raise, Allowed
<1>6. CASE OpenBundle
  BY <1>6 DEF OpenBundle, Allowed
<1>7. CASE DumpBundle \/ DumpFails
  <2>1. CASE DumpBundle
    BY <2>1 DEF DumpBundle, Allowed
  <2>2. CASE DumpFails
    BY <2>2 DEF DumpFails, Allowed
  <2> QED BY <1>7, <2>1, <2>2
<1>8. ASSUME Loaded, newest' = file, pc' \in {"idle", pc},
             UNCHANGED <<settings, version, file, cleared>>
      PROVE  LInv'
  <2>1. file \in Allowed /\ file \in 1 .. version
    BY <1>8 DEF Allowed
  <2> QED BY <1>8, <2>1 DEF Allowed
<1>9. CASE Adopt
  BY <1>8, <1>9 DEF Adopt
<1>10. CASE Restart
  <2>1. CASE Loaded
    BY <1>8, <1>10, <2>1 DEF Restart
  <2>2. CASE ~Loaded
    BY <1>10, <2>2 DEF Restart, Allowed
  <2> QED BY <2>1, <2>2
<1>11. CASE UNCHANGED vars
  BY <1>11 DEF vars, Allowed
<1> QED BY <1>1, <1>2, <1>3, <1>4, <1>5, <1>6, <1>7, <1>9, <1>10, <1>11 DEF Next

(* In every reachable state whatever is on its way to serving is allowed   *)
(* and not older than what has served.                                     *)
THEOREM OnTheWayIsAllowed == Spec => []LInv
  BY LInit, StepKeepsLInv, PTL DEF Spec

-----------------------------------------------------------------------------
(* A step of the program is a step of the registry, or none.               *)
LEMMA StepSimulates ==
  ASSUME LInv, [Next]_vars
  PROVE  [Registry!RegistryNext]_<<Allowed, serving, newest>>
<1> DEFINE
  observed == <<Allowed, serving, newest>>
  Same == UNCHANGED observed
<1> SUFFICES Registry!RegistryNext \/ Same
  OBVIOUS
<1> USE LifecycleAssumption DEF LInv, LTypeOK, Loaded, Torn, Nobody, process, registry, settings
<1> USE DEF Registry!Clear, Registry!Serve, Registry!Stop
<1>1. CASE \E t \in Trades : Trade(t)
  BY <1>1 DEF Trade, Allowed
<1>2. CASE StartRetrain
  <2>1. version + 1 \in 1 .. MaxVersions
    BY <1>2 DEF StartRetrain
  <2>2. Same \/ Registry!Clear(version + 1)
    BY <1>2 DEF StartRetrain, Allowed
  <2> QED BY <2>1, <2>2 DEF Registry!RegistryNext
<1>3. CASE Train
  BY <1>3 DEF Train, Allowed
<1>4. CASE Validate
  <2>1. version \in 1 .. MaxVersions
    BY <1>4 DEF Validate
  <2>2. Same \/ Registry!Clear(version)
    BY <1>4 DEF Validate, Allowed
  <2> QED BY <2>1, <2>2 DEF Registry!RegistryNext
<1>5. CASE Raise \/ OpenBundle \/ DumpBundle \/ DumpFails
  BY <1>5 DEF Raise, OpenBundle, DumpBundle, DumpFails, Allowed
<1>6. ASSUME Loaded, serving' = file, newest' = file,
             UNCHANGED <<settings, version, cleared>>
      PROVE  Registry!RegistryNext
  <2>1. file \in Allowed /\ file >= newest
    BY <1>6
  <2>2. Registry!Serve(file)
    BY <1>6, <2>1 DEF Allowed
  <2>3. file \in 1 .. MaxVersions
    BY <2>1 DEF Allowed
  <2> QED BY <2>2, <2>3 DEF Registry!RegistryNext
<1>7. CASE Adopt
  BY <1>6, <1>7 DEF Adopt
<1>8. CASE Restart
  BY <1>6, <1>8 DEF Restart, Registry!RegistryNext, Allowed
<1>9. CASE UNCHANGED vars
  BY <1>9 DEF vars, Allowed
<1> QED BY <1>1, <1>2, <1>3, <1>4, <1>5, <1>7, <1>8, <1>9 DEF Next

(* Whatever is retrained, rejected, raised, saved, torn, loaded or lost in *)
(* a crash: nothing serves that was not allowed to, and a replaced model   *)
(* does not come back.                                                     *)
THEOREM LifecycleIsGated == Spec => NothingUngated
<1>1. Init => Registry!RegistryInit
  BY LifecycleAssumption DEF Init, Registry!RegistryInit, Nobody
<1>2. LInv /\ [Next]_vars => [Registry!RegistryNext]_<<Allowed, serving, newest>>
  BY StepSimulates
<1> QED
  BY <1>1, <1>2, OnTheWayIsAllowed, PTL
  DEF Spec, NothingUngated, Registry!RegistrySpec, Allowed

-----------------------------------------------------------------------------
(* The closed trades are a sequence of trades. *)
LEMMA ClosedIs ==
  ASSUME NEW T, NEW seq \in Seq(T)
  PROVE  ClosedTrades(seq) \in Seq(T)
<1> DEFINE D == DOMAIN seq
           V == Seq(T)
           step == [tv \in T \X V |-> IF IsFinite(tv[1].pnl) THEN Append(tv[2], tv[1]) ELSE tv[2]]
           pick == [s \in SUBSET D |-> Max(s)]
           Eqn(g) == g = [s \in SUBSET D |->
                            IF s = {} THEN <<>>
                            ELSE IF IsFinite(seq[Max(s)].pnl)
                                 THEN Append(g[s \ {Max(s)}], seq[Max(s)]) ELSE g[s \ {Max(s)}]]
<1>1. step \in [T \X V -> V]
  OBVIOUS
<1>2. <<>> \in V
  OBVIOUS
<1>3. IsFiniteSet(D) /\ Picks(pick, D) /\ \E g : LeftFoldOf(g, seq, V, <<>>, step)
  <2>1. IsFiniteSet(D) /\ Picks(Latest(seq), D) /\ \E g : LeftFoldOf(g, seq, V, <<>>, step)
    <3> HIDE DEF V, step
    <3> QED BY <1>1, <1>2, LeftFoldExists, Zenon
  <2> QED BY <2>1 DEF Latest
<1>4. PICK g : LeftFoldOf(g, seq, V, <<>>, step)
  BY <1>3, Zenon
<1>5. ASSUME NEW s \in SUBSET D
      PROVE  g[s] = IF s = {} THEN <<>>
                    ELSE IF IsFinite(seq[Max(s)].pnl)
                         THEN Append(g[s \ {Max(s)}], seq[Max(s)]) ELSE g[s \ {Max(s)}]
  <2>1. CASE s # {}
    <3>1. Max(s) \in D
      BY <1>3, <2>1 DEF Picks
    <3>2. seq[Max(s)] \in T
      BY <3>1
    <3>3. g[s \ {Max(s)}] \in V
      BY <1>4 DEF LeftFoldOf
    <3>4. g[s] = step[<<seq[Max(s)], g[s \ {Max(s)}]>>]
      BY <1>4, <2>1 DEF LeftFoldOf
    <3> QED BY <2>1, <3>2, <3>3, <3>4
  <2>2. CASE s = {}
    BY <1>4, <2>2 DEF LeftFoldOf
  <2> QED BY <2>1, <2>2
<1>6. Eqn(g)
  <2>1. g = [s \in SUBSET D |-> g[s]]
    BY <1>4 DEF LeftFoldOf
  <2> QED BY <1>5, <2>1
<1>7. Eqn(CHOOSE c : Eqn(c))
  <2> HIDE DEF Eqn
  <2> QED BY <1>6
<1> DEFINE c == CHOOSE c : Eqn(c)
<1>8. ClosedTrades(seq) = c[D]
  BY Zenon DEF ClosedTrades, FoldLeft, MapThenFoldSet
<1>9. \A s \in SUBSET D : c[s] \in V
  <2> DEFINE Good == {s \in SUBSET D : c[s] \in V}
  <2>1. Eqn(c)
    BY <1>7
  <2>2. ASSUME NEW s \in SUBSET D
        PROVE  c[s] = IF s = {} THEN <<>>
                      ELSE IF IsFinite(seq[Max(s)].pnl)
                           THEN Append(c[s \ {Max(s)}], seq[Max(s)]) ELSE c[s \ {Max(s)}]
    <3> HIDE DEF c
    <3> QED BY <2>1
  <2> HIDE DEF c, Eqn
  <2>3. Grows(Good, pick, D)
    <3>1. {} \in Good
      BY <1>2, <2>2
    <3>2. ASSUME NEW s \in SUBSET D, s # {}, s \ {pick[s]} \in Good PROVE s \in Good
      <4>1. Max(s) \in s /\ pick[s] = Max(s)
        BY <1>3, <3>2 DEF Picks
      <4>2. seq[Max(s)] \in T /\ c[s \ {Max(s)}] \in V
        BY <3>2, <4>1
      <4>3. c[s] \in V
        <5>1. c[s] = IF IsFinite(seq[Max(s)].pnl)
                     THEN Append(c[s \ {Max(s)}], seq[Max(s)]) ELSE c[s \ {Max(s)}]
          BY <2>2, <3>2
        <5>2. \A t \in T, q \in V : Append(q, t) \in V
          OBVIOUS
        <5> HIDE DEF V
        <5> QED BY <4>2, <5>1, <5>2
      <4> QED BY <4>3
    <3> QED BY <3>1, <3>2 DEF Grows
  <2>4. SUBSET D \subseteq Good
    <3> HIDE DEF Good, pick, D
    <3> QED BY <1>3, <2>3, FoldInduction
  <2> QED BY <2>4
<1> QED BY <1>8, <1>9

-----------------------------------------------------------------------------
(* What DecayMonitor sees in the closed trades the dashboard sees too.     *)

(* Once there is a full window, nothing shortens it. *)
LEMMA FullWindow ==
  ASSUME NEW window \in Windows, NEW n \in Nat, n >= window
  PROVE  EffectiveWindow(window, n) = window
<1>1. Min({window, n}) = window
  <2>1. {window, n} \in SUBSET Nat /\ {window, n} # {}
    BY DEF Windows
  <2> QED BY <2>1, MinIs DEF Windows
<1>2. Max({2, window}) = window
  <2>1. {2, window} \in SUBSET (0 .. window) /\ {2, window} # {}
    BY DEF Windows
  <2>2. /\ Max({2, window}) \in {2, window}
        /\ \A y \in {2, window} : Max({2, window}) >= y
    BY <2>1, MaxIs DEF Windows
  <2> QED BY <2>2 DEF Windows
<1> QED BY <1>1, <1>2 DEF EffectiveWindow

(* The last Sharpe ratio that is defined is the last one, if that one is.  *)
LEMMA LastDefined ==
  ASSUME NEW n \in Nat, n >= 1, NEW sharpe, IsFinite(sharpe[n])
  PROVE  LET finite == {i \in 1 .. n : IsFinite(sharpe[i])}
         IN finite # {} /\ Max(finite) = n
<1> DEFINE finite == {i \in 1 .. n : IsFinite(sharpe[i])}
<1>1. n \in finite /\ finite \in SUBSET (0 .. n)
  OBVIOUS
<1>2. Max(finite) \in finite /\ \A y \in finite : Max(finite) >= y
  BY <1>1, MaxIs
<1>3. Max(finite) >= n /\ Max(finite) \in 1 .. n
  BY <1>1, <1>2
<1> QED BY <1>1, <1>3

LEMMA DashboardCatches ==
  ASSUME NEW T, NEW trades \in Seq(T), NEW config \in DecayConfigs, NEW dashboard,
         dashboard.decay = config, dashboard.sharpe_window = config.sharpe_window,
         dashboard.periods_per_year = DecayPeriods,
         RetrainDue(ClosedTrades(trades), config)
  PROVE  SnapshotDue(trades, dashboard)
<1> DEFINE closed == ClosedTrades(trades)
           n == Len(closed)
           window == config.sharpe_window
           pnl == Column(closed, "pnl")
           prob == Column(closed, "prob")
           sharpe == [i \in 1 .. n |->
                        RollingSharpe(pnl, EffectiveWindow(window, n), DecayPeriods, i)]
           scored == {i \in 1 .. n : IsFinite(closed[i].prob)}
           metrics == JournalMetrics(trades, dashboard.sharpe_window, dashboard.periods_per_year)
<1>1. n \in Nat /\ DOMAIN closed = 1 .. n /\ window \in Windows
  BY ClosedIs DEF DecayConfigs
<1>2. /\ metrics.rolling_sharpe =
           LET finite == {i \in 1 .. n : IsFinite(sharpe[i])}
           IN IF finite = {} THEN NaN ELSE sharpe[Max(finite)]
      /\ metrics.n_scored = Cardinality(scored)
      /\ metrics.calibration_gap =
           CalibrationGap([i \in scored |-> closed[i].prob], Won(closed))
  BY DEF JournalMetrics
<1>3. CASE SharpeBreached(RollingSharpe(pnl, window, DecayPeriods, n), config)
  <2>1. IsFinite(RollingSharpe(pnl, window, DecayPeriods, n))
    BY <1>3 DEF SharpeBreached
  <2>2. n >= window
    <3> HIDE DEF n, pnl, window
    <3> QED BY <1>1, <2>1 DEF RollingSharpe, IsFinite, Windows
  <2>3. n \in 1 .. n /\ EffectiveWindow(window, n) = window
    <3> HIDE DEF n, window
    <3> QED BY <1>1, <2>2, FullWindow DEF Windows
  <2>4. sharpe[n] = RollingSharpe(pnl, window, DecayPeriods, n)
    <3> HIDE DEF n, pnl, window
    <3> QED BY <2>3
  <2>5. metrics.rolling_sharpe = sharpe[n]
    <3>1. IsFinite(sharpe[n]) /\ n >= 1
      BY <2>1, <2>3, <2>4
    <3> HIDE DEF n, sharpe, metrics
    <3> QED BY <1>1, <1>2, <3>1, LastDefined
  <2>6. SharpeBreached(metrics.rolling_sharpe, config)
    <3> HIDE DEF n, sharpe, pnl, metrics, window
    <3> QED BY <1>3, <2>4, <2>5
  <2> QED BY <2>6 DEF SnapshotDue
<1>4. CASE CalibrationBreached(CalibrationGap(prob, Won(closed)), n, config)
  <2>1. CalibrationGap(prob, Won(closed)) # NaN
    BY <1>4 DEF CalibrationBreached, Above, IsFinite
  <2>2. DOMAIN prob = 1 .. n /\ \A i \in 1 .. n : prob[i] = closed[i].prob
    BY <1>1 DEF Column
  <2>3. \A i \in 1 .. n : prob[i] # NaN
    BY <2>1, <2>2, Zenon DEF CalibrationGap
  <2>4. scored = 1 .. n
    <3> HIDE DEF n, closed, prob
    <3> QED BY <2>2, <2>3 DEF IsFinite
  <2>5. [i \in scored |-> closed[i].prob] = prob
    BY <1>1, <2>4 DEF Column
  <2>6. Cardinality(scored) = n
    <3> HIDE DEF n, scored
    <3> QED BY <1>1, <2>4, FS_Interval
  <2>7. CalibrationBreached(metrics.calibration_gap, metrics.n_scored, config)
    <3> HIDE DEF n, scored, prob, closed, metrics
    <3> QED BY <1>2, <1>4, <2>5, <2>6
  <2> QED BY <2>7 DEF SnapshotDue
<1> QED BY <1>3, <1>4 DEF RetrainDue

(* The journal holds trades, and the settings are what they were. *)
JournalOK == journal \in Seq(Trades) /\ decay \in Decays

LEMMA JournalTyped == Spec => []JournalOK
<1>1. Init => JournalOK
  BY DEF Init, JournalOK
<1>2. JournalOK /\ [Next]_vars => JournalOK'
  <2> SUFFICES ASSUME JournalOK, [Next]_vars PROVE JournalOK'
    OBVIOUS
  <2> USE DEF JournalOK, settings
  <2>1. ASSUME NEW t \in Trades, Trade(t) PROVE JournalOK'
    BY <2>1 DEF Trade
  <2>2. CASE UNCHANGED <<journal, decay>>
    BY <2>2
  <2> QED
    BY <2>1, <2>2
    DEF Next, StartRetrain, Train, Validate, Raise, OpenBundle, DumpBundle, DumpFails, Adopt, Restart, vars
<1> QED BY <1>1, <1>2, PTL DEF Spec

(* Whatever the journal, the windows, the floor and the bins, when the two *)
(* parts are set alike: when DecayMonitor would start a retraining, the    *)
(* dashboard says that one is due.                                         *)
THEOREM DashboardTells == Spec => []DecayIsOnDashboard
<1>1. JournalOK => DecayIsOnDashboard
  <2> SUFFICES ASSUME JournalOK, SetAlike, RetrainDue(Closed, decay)
               PROVE  SnapshotDue(journal, monitor)
    BY DEF DecayIsOnDashboard
  <2>1. journal \in Seq(Trades) /\ decay \in DecayConfigs
    BY LifecycleAssumption DEF JournalOK
  <2> QED BY <2>1, DashboardCatches DEF Closed, SetAlike
<1> QED BY <1>1, JournalTyped, PTL

-----------------------------------------------------------------------------
(* A verdict that passes.                                                  *)

Floats == Scores \cup {NaN}

(* The greatest of the numbers among first and the values at s, if first   *)
(* is a number; NaN if it is not, for then nothing replaces it.            *)
MaxOf(x, first, values, s) ==
  /\ x \in Floats /\ (IsFinite(x) <=> IsFinite(first))
  /\ IsFinite(x) => /\ first <= x
                    /\ \A i \in s : IsFinite(values[i]) => values[i] <= x

LEMMA FloatsAre == \A x \in Floats : IsFinite(x) => x \in Int
  BY LifecycleAssumption DEF Floats, IsFinite

LEMMA MaxOfMore ==
  ASSUME NEW first \in Floats, NEW values, NEW s, NEW i, values[i] \in Floats,
         \A k \in s : values[k] \in Floats,
         NEW x, MaxOf(x, first, values, s)
  PROVE  MaxOf(IF Above(values[i], x) THEN values[i] ELSE x, first, values, s \cup {i})
<1> DEFINE v == values[i]
           y == IF Above(v, x) THEN v ELSE x
<1>1. x \in Floats /\ v \in Floats /\ y \in Floats
  BY DEF MaxOf
<1>2. CASE ~IsFinite(first)
  <2>1. ~IsFinite(x)
    BY <1>2 DEF MaxOf
  <2> QED BY <1>1, <1>2, <2>1 DEF MaxOf, Above
<1>3. CASE IsFinite(first)
  <2>1. IsFinite(x) /\ first <= x /\ x \in Int /\ first \in Int
    BY <1>1, <1>3, FloatsAre DEF MaxOf
  <2>2. IsFinite(y) /\ y \in Int /\ x <= y /\ (IsFinite(v) => v <= y)
    <3>1. CASE IsFinite(v)
      <4>1. v \in Int
        BY <1>1, <3>1, FloatsAre
      <4> HIDE DEF v
      <4> QED BY <2>1, <3>1, <4>1 DEF Above
    <3>2. CASE ~IsFinite(v)
      BY <2>1, <3>2 DEF Above
    <3> QED BY <3>1, <3>2
  <2>3. first <= y
    <3> HIDE DEF y
    <3> QED BY <2>1, <2>2
  <2>4. ASSUME NEW k \in s, IsFinite(values[k]) PROVE values[k] <= y
    <3>1. values[k] \in Int /\ values[k] <= x
      BY <2>1, <2>4, FloatsAre DEF MaxOf
    <3> HIDE DEF y
    <3> QED BY <2>1, <2>2, <3>1
  <2> HIDE DEF y
  <2>5. MaxOf(y, first, values, s \cup {i})
    BY <1>1, <1>3, <2>2, <2>3, <2>4 DEF MaxOf, v
  <2> QED BY <2>5 DEF y
<1> QED BY <1>2, <1>3

LEMMA PythonMaxIs ==
  ASSUME NEW values \in Seq(Floats), values # <<>>
  PROVE  MaxOf(PythonMax(values), Head(values), Tail(values), DOMAIN Tail(values))
<1> DEFINE seq == Tail(values)
           first == Head(values)
           D == DOMAIN seq
           step == [tv \in Floats \X Floats |-> IF Above(tv[1], tv[2]) THEN tv[1] ELSE tv[2]]
           pick == [s \in SUBSET D |-> Max(s)]
           Eqn(g) == g = [s \in SUBSET D |->
                            IF s = {} THEN first
                            ELSE IF Above(seq[Max(s)], g[s \ {Max(s)}])
                                 THEN seq[Max(s)] ELSE g[s \ {Max(s)}]]
<1>1. step \in [Floats \X Floats -> Floats] /\ first \in Floats /\ seq \in Seq(Floats)
  OBVIOUS
<1>2. /\ IsFiniteSet(D) /\ Picks(pick, D)
      /\ \E g : LeftFoldOf(g, seq, Floats, first, step)
  <2>1. /\ IsFiniteSet(D) /\ Picks(Latest(seq), D)
        /\ \E g : LeftFoldOf(g, seq, Floats, first, step)
    <3> HIDE DEF step, seq, first
    <3> QED BY <1>1, LeftFoldExists, Zenon
  <2> QED BY <2>1 DEF Latest
<1>3. PICK g : LeftFoldOf(g, seq, Floats, first, step)
  BY <1>2, Zenon
<1>4. ASSUME NEW s \in SUBSET D
      PROVE  g[s] = IF s = {} THEN first
                    ELSE IF Above(seq[Max(s)], g[s \ {Max(s)}])
                         THEN seq[Max(s)] ELSE g[s \ {Max(s)}]
  <2>1. CASE s # {}
    <3>1. Max(s) \in D
      BY <1>2, <2>1 DEF Picks
    <3>2. seq[Max(s)] \in Floats
      <4> HIDE DEF seq
      <4> QED BY <1>1, <3>1
    <3>3. g[s \ {Max(s)}] \in Floats
      BY <1>3 DEF LeftFoldOf
    <3>4. g[s] = step[<<seq[Max(s)], g[s \ {Max(s)}]>>]
      BY <1>3, <2>1 DEF LeftFoldOf
    <3> HIDE DEF seq, D
    <3> QED BY <2>1, <3>2, <3>3, <3>4
  <2>2. CASE s = {}
    BY <1>3, <2>2 DEF LeftFoldOf
  <2> QED BY <2>1, <2>2
<1>5. Eqn(g)
  <2>1. g = [s \in SUBSET D |-> g[s]]
    BY <1>3 DEF LeftFoldOf
  <2> QED BY <1>4, <2>1
<1>6. Eqn(CHOOSE c : Eqn(c))
  <2> HIDE DEF Eqn
  <2> QED BY <1>5
<1> DEFINE c == CHOOSE c : Eqn(c)
<1>7. PythonMax(values) = c[D]
  BY Zenon DEF PythonMax, FoldLeft, MapThenFoldSet
<1>8. ASSUME NEW s \in SUBSET D
      PROVE  c[s] = IF s = {} THEN first
                    ELSE IF Above(seq[Max(s)], c[s \ {Max(s)}])
                         THEN seq[Max(s)] ELSE c[s \ {Max(s)}]
  <2>1. Eqn(c)
    BY <1>6
  <2> HIDE DEF c
  <2> QED BY <2>1
<1> HIDE DEF c, Eqn, first, seq, D
<1> DEFINE Good == {s \in SUBSET D : MaxOf(c[s], first, seq, s)}
<1>9. Grows(Good, pick, D)
  <2>1. {} \in Good
    <3>1. c[{}] = first /\ (IsFinite(first) => first <= first)
      <4>1. IsFinite(first) => first \in Int
        BY <1>1, FloatsAre
      <4>2. {} \in SUBSET D
        OBVIOUS
      <4>3. c[{}] = first
        BY <1>8, <4>2, Zenon
      <4>4. \A n \in Int : n <= n
        OBVIOUS
      <4> QED BY <4>1, <4>3, <4>4
    <3> QED BY <1>1, <3>1 DEF MaxOf
  <2>2. ASSUME NEW s \in SUBSET D, s # {}, s \ {pick[s]} \in Good PROVE s \in Good
    <3> DEFINE m == Max(s)
               rest == s \ {m}
    <3>1. m \in s /\ pick[s] = m
      BY <1>2, <2>2 DEF Picks
    <3>2. seq[m] \in Floats /\ MaxOf(c[rest], first, seq, rest)
      BY <1>1, <2>2, <3>1 DEF D
    <3>3. c[s] = IF Above(seq[m], c[rest]) THEN seq[m] ELSE c[rest]
      BY <1>8, <2>2
    <3>4. s = rest \cup {m}
      BY <3>1
    <3>5. MaxOf(c[s], first, seq, rest \cup {m})
      <4>1. \A k \in rest : seq[k] \in Floats
        BY <1>1, <2>2 DEF D
      <4> HIDE DEF m, rest
      <4> QED BY <1>1, <3>2, <3>3, <4>1, MaxOfMore
    <3> QED BY <3>4, <3>5
  <2> QED BY <2>1, <2>2 DEF Grows
<1>10. SUBSET D \subseteq Good
  <2> HIDE DEF Good, pick
  <2> QED BY <1>2, <1>9, FoldInduction
<1>11. MaxOf(c[D], first, seq, D)
  BY <1>10
<1> QED BY <1>7, <1>11 DEF first, seq, D

(* What the gate demands of its numbers. *)
LEMMA PassedIs ==
  ASSUME NEW s \in Reports, Passed(s)
  PROVE  LET finite == {b \in Range(s.baselines) : IsFinite(b)}
             paths == FinitePaths(s.paths)
         IN /\ finite # {} /\ paths # {} /\ IsFinite(s.hold) /\ IsFinite(s.walk)
            /\ \A b \in finite \cup {0} :
                 s.hold > b /\ PathTotal(s.paths) > b * Cardinality(paths)
            /\ s.walk > 0
<1> DEFINE values == s.baselines
           best == PythonMax(values)
           finite == {b \in Range(values) : IsFinite(b)}
           paths == FinitePaths(s.paths)
           size == Cardinality(paths)
           total == PathTotal(s.paths)
<1>1. /\ s.paths \in [1 .. Paths -> Floats] /\ s.walk \in {-1, 1, NaN} /\ s.hold \in Floats
      /\ values \in [1 .. 2 -> Floats] \cup [1 .. 3 -> Floats]
  BY DEF Reports, Baselines, Floats
<1>2. /\ values \in Seq(Floats) /\ values # <<>>
      /\ DOMAIN values = 1 .. Len(values) /\ Len(values) \in Nat /\ Len(values) >= 1
  <2> HIDE DEF values
  <2>1. \A k \in Nat : \A q \in [1 .. k -> Floats] : q \in Seq(Floats) /\ Len(q) = k
    OBVIOUS
  <2>2. values \in Seq(Floats) /\ Len(values) \in {2, 3}
    BY <1>1, <2>1
  <2> QED BY <2>2
<1>3. MaxOf(best, Head(values), Tail(values), DOMAIN Tail(values))
  <2> HIDE DEF values
  <2> QED BY <1>2, PythonMaxIs
<1>4. /\ paths # {} /\ IsFinite(best) /\ total > 0 * size /\ total > best * size
      /\ IsFinite(s.walk) /\ s.walk > 0
      /\ IsFinite(s.hold) /\ s.hold > 0 /\ s.hold > best
  BY DEF Passed, MeanAbove, Above, Beats
<1>5. best \in Int /\ s.hold \in Int
  BY <1>1, <1>3, <1>4, LifecycleAssumption DEF MaxOf, Floats, IsFinite
<1>6. \A b \in finite : b \in Int /\ b <= best
  <2> SUFFICES ASSUME NEW i \in DOMAIN values, IsFinite(values[i])
               PROVE  values[i] \in Int /\ values[i] <= best
    BY DEF Range
  <2>1. values[i] \in Int
    <3> HIDE DEF values
    <3>1. values[i] \in Floats
      BY <1>2
    <3> QED BY <3>1, FloatsAre
  <2>2. CASE i = 1
    <3>1. values[i] = Head(values)
      BY <1>2, <2>2
    <3> HIDE DEF values, best
    <3> QED BY <1>3, <1>4, <2>1, <3>1 DEF MaxOf
  <2>3. CASE i # 1
    <3> HIDE DEF values, best
    <3>1. i - 1 \in DOMAIN Tail(values) /\ Tail(values)[i - 1] = values[i]
      BY <1>2, <2>3
    <3> QED BY <1>3, <1>4, <2>1, <3>1 DEF MaxOf
  <2> QED BY <2>1, <2>2, <2>3
<1>7. finite # {}
  <2>1. values[1] = Head(values) /\ 1 \in DOMAIN values
    <3> HIDE DEF values
    <3> QED BY <1>2
  <2>2. IsFinite(values[1])
    <3> HIDE DEF values, best
    <3> QED BY <1>3, <1>4, <2>1 DEF MaxOf
  <2>3. values[1] \in Range(values)
    BY <2>1 DEF Range
  <2> QED BY <2>2, <2>3
<1>8. IsFiniteSet(paths) /\ size \in Nat /\ total \in Int
  <2>1. IsFiniteSet(1 .. Paths) /\ paths \subseteq 1 .. Paths
    <3>1. DOMAIN s.paths = 1 .. Paths
      BY <1>1
    <3> HIDE DEF paths
    <3> QED BY <3>1, FS_Interval, LifecycleAssumption DEF paths, FinitePaths
  <2>2. IsFiniteSet(paths)
    BY <2>1, FS_Subset
  <2>3. \A i \in paths : s.paths[i] \in Int
    <3> SUFFICES ASSUME NEW i \in paths PROVE s.paths[i] \in Int
      OBVIOUS
    <3>1. i \in 1 .. Paths /\ IsFinite(s.paths[i])
      BY <1>1 DEF FinitePaths
    <3>2. s.paths[i] \in Floats
      BY <1>1, <3>1
    <3> QED BY <3>1, <3>2, FloatsAre
  <2> QED BY <2>2, <2>3, FS_CardinalityType, SumInt DEF PathTotal
<1>9. ASSUME NEW b \in finite PROVE s.hold > b /\ total > b * size
  <2> HIDE DEF finite, best, size, total
  <2>1. b * size <= best * size
    BY <1>5, <1>6, <1>8, TimesMonotone
  <2>2. b \in Int /\ b * size \in Int /\ best * size \in Int
    BY <1>5, <1>6, <1>8
  <2>3. total > b * size
    <3> DEFINE x == b * size
               y == best * size
    <3>1. x \in Int /\ y \in Int /\ x <= y /\ total > y
      BY <1>4, <2>1, <2>2
    <3> HIDE DEF x, y
    <3>2. total > x
      BY <1>8, <3>1
    <3> QED BY <3>2 DEF x
  <2>4. s.hold > b
    BY <1>4, <1>5, <1>6
  <2> QED BY <2>3, <2>4
<1> HIDE DEF finite, paths, size, total, best, values
<1>10. /\ finite # {} /\ paths # {} /\ IsFinite(s.hold) /\ IsFinite(s.walk)
       /\ \A b \in finite \cup {0} : s.hold > b /\ total > b * size
       /\ s.walk > 0
  BY <1>4, <1>7, <1>9
<1> QED BY <1>10 DEF finite, paths, size, total, values

(* The verdict in hand is none or one that was passed. *)
ReportOK == report = NoReport \/ report \in GoVerdicts

LEMMA ReportTyped == Spec => []ReportOK
<1>1. Init => ReportOK
  BY DEF Init, ReportOK
<1>2. ReportOK /\ [Next]_vars => ReportOK'
  BY DEF ReportOK, Next, vars, process, settings, Trade, StartRetrain, Train, Validate, Raise, OpenBundle,
         DumpBundle, DumpFails, Adopt, Restart
<1> QED BY <1>1, <1>2, PTL DEF Spec

(* For every number of paths and all their ratios, however NaN is spread   *)
(* over them and over the baselines: a passed verdict beats each baseline  *)
(* that has a number.                                                      *)
THEOREM PassedBeatsAll == Spec => []PassBeatsEveryBaseline
<1>1. ReportOK => PassBeatsEveryBaseline
  <2> SUFFICES ASSUME report \in GoVerdicts PROVE PassBeatsEveryBaseline
    BY DEF ReportOK, NoReport, PassBeatsEveryBaseline
  <2>1. report.stats \in Reports /\ Passed(report.stats)
    BY DEF GoVerdicts
  <2> QED BY <2>1, PassedIs DEF PassBeatsEveryBaseline
<1> QED BY <1>1, ReportTyped, PTL
=============================================================================
