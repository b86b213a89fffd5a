----------------------------- MODULE Lifecycle -----------------------------
(***************************************************************************)
(* The life of a model: trades close, a decayed model is retrained,        *)
(* validated and promoted (lifecycle/retrain.py, with the verdict of       *)
(* validation/harness.py), saved and loaded (lifecycle/training.py), and   *)
(* the process may die in between.                                         *)
(*                                                                         *)
(* Nothing under src/ drives these calls: when maybe_retrain, save and     *)
(* load are called is the environment's choice.  The caller hands over the *)
(* columns of the closed trades, saves a model it is given and never the   *)
(* None of a rejected one.                                                 *)
(***************************************************************************)
EXTENDS Monitoring

CONSTANTS
  Decays, Monitors,    \* the DecayConfigs and MonitorConfigs there may be
  Trades, MaxTrades,   \* outcomes of a trade; bound on the journal
  Scores,              \* values a Sharpe ratio takes when it is defined
  Paths,               \* number of CPCV paths
  MaxVersions          \* bound on the retrainings

ASSUME LifecycleAssumption ==
  /\ Decays \subseteq DecayConfigs /\ Monitors \subseteq MonitorConfigs
  /\ MaxTrades \in Nat /\ Scores \subseteq Int /\ Paths \in Nat /\ MaxVersions \in Nat

Torn == -1
Nobody == 0     \* versions count from 1
NoReport == [passed |-> FALSE]

VARIABLES
  require_gate_pass,  \* RetrainPolicy.require_gate_pass
  decay, monitor,     \* RetrainPolicy.decay; the dashboard's MonitorConfig
  journal,            \* closed and open trades, in order
  pc,                 \* maybe_retrain: "idle", "train", "validate"; save: "publish", "dump"
  version,            \* number of the model trained last
  report,             \* the verdict on it
  file,               \* the bundle on disk: a version, Torn or Nobody
  serving,            \* the loaded model
  cleared, newest     \* history: versions the gate cleared; newest one served

settings == <<require_gate_pass, decay, monitor>>
process == <<pc, version, report>>
registry == <<file, serving, cleared, newest>>
vars == <<settings, journal, process, registry>>

Init ==
  /\ require_gate_pass \in BOOLEAN /\ decay \in Decays /\ monitor \in Monitors
  /\ journal = <<>>
  /\ pc = "idle" /\ version = 0 /\ report = NoReport
  /\ file = Nobody /\ serving = Nobody /\ cleared = {} /\ newest = 0

Closed == ClosedTrades(journal)

-----------------------------------------------------------------------------
(* The journal.                                                            *)

(* A trade appears in the journal, open or already closed, or closes.      *)
Trade(t) ==
  /\ \/ Len(journal) < MaxTrades /\ journal' = Append(journal, t)
     \/ \E i \in DOMAIN journal :
          /\ journal[i].pnl = NaN /\ journal[i].prob = t.prob /\ IsFinite(t.pnl)
          /\ journal' = [journal EXCEPT ![i] = t]
  /\ UNCHANGED <<settings, process, registry>>

-----------------------------------------------------------------------------
(* The verdict of run_validation.                                          *)

(* Python's max over the values of a dict, in its order. *)
PythonMax(values) ==
  FoldLeft(LAMBDA best, x : IF Above(x, best) THEN x ELSE best, Head(values), Tail(values))

(* The paths whose ratio is finite, and their sum. *)
FinitePaths(paths) == {i \in DOMAIN paths : IsFinite(paths[i])}
PathTotal(paths) == SumFunctionOnSet(paths, FinitePaths(paths))

(* Mutant: "fails to beat" as "is at most", which NaN is not.              *)
MeanNotBelow(paths, x) ==
  FinitePaths(paths) = {} \/ x = NaN \/ PathTotal(paths) > x * Cardinality(FinitePaths(paths))

(* cpcv_mean > x: the mean of the finite paths. *)
MeanAbove(paths, x) ==
  /\ FinitePaths(paths) # {} /\ IsFinite(x)
  /\ PathTotal(paths) > x * Cardinality(FinitePaths(paths))

Beats(sharpe, best) == Above(sharpe, 0) /\ Above(sharpe, best)

(* Step 7; deflated tells whether dsr >= deflated_sharpe_min. *)
Passed(r) ==
  LET best == PythonMax(r.baselines) IN
  /\ MeanAbove(r.paths, 0) /\ MeanAbove(r.paths, best)
  /\ Above(r.walk, 0)
  /\ Beats(r.hold, best)
  /\ r.deflated

(* baseline_sharpes: majority, random and, when prices are given, hold. *)
Baselines == [1 .. 2 -> Scores \cup {NaN}] \cup [1 .. 3 -> Scores \cup {NaN}]

(* Of the walk-forward ratio the sign counts; a deflated Sharpe ratio is   *)
(* NaN, and not above its minimum, when the holdout's is.                  *)
Reports ==
  {r \in [paths : [1 .. Paths -> Scores \cup {NaN}], walk : {-1, 1, NaN},
          hold : Scores \cup {NaN}, baselines : Baselines, deflated : BOOLEAN] :
     r.deflated => IsFinite(r.hold)}

GoVerdicts == {[passed |-> TRUE, stats |-> r] : r \in {s \in Reports : Passed(s)}}

-----------------------------------------------------------------------------
(* maybe_retrain.                                                          *)

StartRetrain ==
  /\ pc = "idle" /\ version < MaxVersions
  /\ RetrainDue(Closed, decay)
  /\ pc' = "train" /\ version' = version + 1 /\ report' = NoReport
  /\ UNCHANGED <<settings, journal, registry>>

(* TrainingPipeline.train has returned. *)
Train ==
  /\ pc = "train"
  /\ pc' = IF require_gate_pass THEN "validate" ELSE "publish"
  /\ UNCHANGED <<settings, journal, version, report, registry>>

(* Mutant: the trained model is in the result whatever the gate said.      *)
ModelInAnyCase(passed) == TRUE

(* model if promoted else None *)
ModelReturned(passed) == passed

(* run_validation has returned; the model is in the result if it passed.   *)
Validate ==
  /\ pc = "validate"
  /\ \/ report' \in GoVerdicts /\ cleared' = cleared \cup {version}
     \/ report' = NoReport /\ UNCHANGED cleared
  /\ pc' = IF ModelReturned(report'.passed) THEN "publish" ELSE "idle"
  /\ UNCHANGED <<settings, journal, version, file, serving, newest>>

(* train and run_validation may raise, for instance on too few events.     *)
Raise ==
  /\ pc \in {"train", "validate"}
  /\ pc' = "idle"
  /\ UNCHANGED <<settings, journal, version, report, registry>>

(* TrainingPipeline.save: open truncates the file, dump fills it.          *)
OpenBundle ==
  /\ pc = "publish"
  /\ file' = Torn /\ pc' = "dump" /\ report' = NoReport
  /\ UNCHANGED <<settings, journal, version, serving, cleared, newest>>

DumpBundle ==
  /\ pc = "dump"
  /\ file' = version /\ pc' = "idle"
  /\ UNCHANGED <<settings, journal, version, report, serving, cleared, newest>>

(* pickle.dump raises, as on the deep members (training.py:7-9): what it   *)
(* has written stays, and the process goes on.                             *)
DumpFails ==
  /\ pc = "dump"
  /\ pc' = "idle"
  /\ UNCHANGED <<settings, journal, version, report, registry>>

(* A torn or missing bundle raises in pickle.load. *)
Loaded == file \notin {Torn, Nobody}

(* TrainingPipeline.load in the serving process: an exception leaves the   *)
(* model that is in use. *)
Adopt ==
  /\ Loaded
  /\ serving' = file /\ newest' = file
  /\ UNCHANGED <<settings, journal, process, file, cleared>>

(* Everything in memory is lost; the new process serves what it can load.  *)
Restart ==
  /\ pc' = "idle" /\ report' = NoReport
  /\ IF Loaded THEN serving' = file /\ newest' = file
     ELSE serving' = Nobody /\ UNCHANGED newest
  /\ UNCHANGED <<settings, journal, version, file, cleared>>

Next ==
  \/ \E t \in Trades : Trade(t)
  \/ StartRetrain \/ Train \/ Validate \/ Raise
  \/ OpenBundle \/ DumpBundle \/ DumpFails \/ Adopt \/ Restart

Spec == Init /\ [][Next]_vars

-----------------------------------------------------------------------------
(* Properties.                                                             *)

(* With the gate required, only models that cleared it ever serve, and a   *)
(* replaced model never serves again, through crashes between and within   *)
(* the save and the load (retrain.py:3-6).  Without it, every trained      *)
(* model counts as cleared.                                                *)
Registry == INSTANCE ModelRegistry WITH
  Versions <- 1 .. MaxVersions,
  cleared <- IF require_gate_pass THEN cleared ELSE 1 .. version

NothingUngated == Registry!RegistrySpec

(* "A strategy is only interesting if it beats all three no-skill          *)
(* comparators" (baselines.py:3-5): a passed verdict rests on numbers, and *)
(* every baseline that has one is beaten, although NaN compares with       *)
(* nothing and max keeps or skips it depending on where it stands.         *)
PassBeatsEveryBaseline ==
  report.passed =>
    LET s == report.stats
        finite == {b \in Range(s.baselines) : IsFinite(b)}
        paths == FinitePaths(s.paths)
    IN /\ finite # {} /\ paths # {} /\ IsFinite(s.hold) /\ IsFinite(s.walk)
       /\ \A b \in finite \cup {0} : s.hold > b /\ PathTotal(s.paths) > b * Cardinality(paths)
       /\ s.walk > 0

(* The two parts are set alike, as they are unless someone changes one:    *)
(* each has a DecayConfig of its own, the dashboard a second window, and   *)
(* DecayMonitor takes no number of periods.                                *)
SetAlike ==
  /\ monitor.decay = decay /\ monitor.sharpe_window = decay.sharpe_window
  /\ monitor.periods_per_year = DecayPeriods

(* Set alike, whenever DecayMonitor would retrain on the closed trades,    *)
(* the dashboard that is computed from the same journal says that a        *)
(* retrain is due, although it shortens windows, skips undefined ratios    *)
(* and drops trades without a probability.  The other way round it need    *)
(* not be so.                                                              *)
DecayIsOnDashboard ==
  SetAlike /\ RetrainDue(Closed, decay) => SnapshotDue(journal, monitor)
=============================================================================
