----------------------------- MODULE Ingestion -----------------------------
(***************************************************************************)
(* Ingestion runs and feature builds over one database.  A run             *)
(* (scripts/ingest.py, l0_data/ingestion.py) connects to the MetaTrader    *)
(* terminal (l0_data/mt5_client.py) and takes each pair in turn: its bars  *)
(* are fetched and upserted, then its ticks are fetched in chunks and      *)
(* inserted.  The first error ends the run.  A build                       *)
(* (scripts/build_features.py) reads the bars of both legs, one after the  *)
(* other, and upserts the feature matrix.                                  *)
(*                                                                         *)
(* Bars are stamped with their open time, and the terminal also returns    *)
(* the one that is still forming.                                          *)
(***************************************************************************)
EXTENDS Features

CONSTANTS
  Pairs,             \* sequence of two symbols: --pairs
  Legs,              \* <<leg_a, leg_b>>; features are built for leg_a
  Available,         \* per symbol: timestamps at which the market has a bar
  Quoted,            \* per symbol: times at which there are ticks
  FirstNow, LastNow, \* bounds of the clock
  Windows,           \* [start, end] of the runs
  TickChunk,         \* tick_chunk_days
  MaxRuns, MaxBuilds, MaxDrops   \* bounds: runs, builds, lost sessions

Symbols == {Pairs[i] : i \in DOMAIN Pairs}

ASSUME IngestionAssumption ==
  /\ Pairs \in Seq(Symbols) /\ Pairs # <<>>
  /\ {Legs[1], Legs[2]} \subseteq Symbols /\ TickChunk \in Nat \ {0}
  /\ FirstNow \in Nat /\ LastNow \in Nat
  /\ \A s \in Symbols : Available[s] \cup Quoted[s] \subseteq 1 .. LastNow

VARIABLES
  now,        \* timestamp of the bar that is forming
  session,    \* does the terminal answer this process?
  connected,  \* MT5Client._connected
  run,        \* ingest_universe: where it is
  summary,    \* what it has put in its summary
  bars,       \* market.bars: per symbol, timestamp -> state of the bar
  build,      \* build_features: idle, or the leg_a bars it has loaded
  features,   \* market.features of leg_a: timestamp -> row
  basis,      \* history: per stored row, the bars at or before it when built
  spent       \* counters for the bounds

client == <<session, connected>>
store == <<bars, features, basis>>
vars == <<now, client, run, summary, store, build, spent>>

Idle == [pc |-> "idle"]
None == [t \in {} |-> NaN]

Init ==
  /\ now = FirstNow /\ session = FALSE /\ connected = FALSE
  /\ run = Idle /\ summary = None
  /\ bars = [s \in Symbols |-> None] /\ build = Idle
  /\ features = None /\ basis = None
  /\ spent = [runs |-> 0, builds |-> 0, drops |-> 0]

(* What copy_rates_range returns, after rates_to_frame. *)
Rates(s, start, end) ==
  [t \in {u \in Available[s] : start <= u /\ u <= end /\ u <= now} |->
     IF t = now THEN "forming" ELSE "closed"]

(* copy_ticks_range, both ends inclusive. *)
TicksIn(s, start, end) == {t \in Quoted[s] : start <= t /\ t <= end /\ t <= now}

-----------------------------------------------------------------------------
(* The world.                                                              *)

Advance ==
  /\ now < LastNow /\ now' = now + 1
  /\ UNCHANGED <<client, run, summary, store, build, spent>>

(* The terminal closes or loses its connection; the client does not know.  *)
DropSession ==
  /\ session /\ spent.drops < MaxDrops
  /\ session' = FALSE /\ spent' = [spent EXCEPT !.drops = @ + 1]
  /\ UNCHANGED <<now, connected, run, summary, store, build>>

-----------------------------------------------------------------------------
(* ingest_universe.                                                        *)

(* __enter__: connect raises when initialize fails, and nothing started. *)
StartRun(window, with_ticks) ==
  /\ run = Idle /\ spent.runs < MaxRuns
  /\ spent' = [spent EXCEPT !.runs = @ + 1]
  /\ summary' = None
  /\ \/ /\ session' = TRUE /\ connected' = TRUE
        /\ run' = [pc |-> "fetch", k |-> 1, start |-> window[1], end |-> window[2],
                   ticks |-> with_ticks, since |-> now]
     \/ session' = FALSE /\ UNCHANGED <<connected, run>>
  /\ UNCHANGED <<now, store, build>>

(* An exception leaves the with block: __exit__ shuts the session down. *)
Raise ==
  /\ run' = Idle /\ session' = FALSE /\ connected' = FALSE
  /\ summary' = None
  /\ UNCHANGED <<now, store, build, spent>>

(* After pair k: the next one, or __exit__ and the summary is returned. *)
Proceed ==
  /\ IF run.k < Len(Pairs)
     THEN run' = [pc |-> "fetch", k |-> run.k + 1, start |-> run.start, end |-> run.end,
                  ticks |-> run.ticks, since |-> run.since]
     ELSE run' = Idle
  /\ connected' = (run.k < Len(Pairs)) /\ session' = (session /\ run.k < Len(Pairs))

(* Mutant: None is taken for an empty frame.                               *)
NoneAsEmpty(rates) == IF rates = NaN THEN None ELSE rates

(* copy_rates raises on None. *)
Checked(rates) == rates

FetchBars ==
  /\ run.pc = "fetch"
  /\ LET df == Checked(IF session THEN Rates(Pairs[run.k], run.start, run.end) ELSE NaN) IN
     IF df = NaN THEN Raise
     ELSE /\ run' = [pc |-> "store", k |-> run.k, start |-> run.start, end |-> run.end,
                     ticks |-> run.ticks, since |-> run.since, df |-> df]
          /\ UNCHANGED <<now, client, summary, store, build, spent>>

(* ON CONFLICT DO UPDATE: the rows of df, and those it does not replace.   *)
Upserted(df, old) ==
  [t \in DOMAIN df \cup DOMAIN old |-> IF t \in DOMAIN df THEN df[t] ELSE old[t]]

(* upsert_bars, unless the frame is empty. *)
StoreBars ==
  /\ run.pc = "store"
  /\ bars' = [bars EXCEPT ![Pairs[run.k]] = Upserted(run.df, @)]
  /\ summary' = (Pairs[run.k] :> Cardinality(DOMAIN run.df)) @@ summary
  /\ IF run.ticks
     THEN /\ run' = [pc |-> "ticks", k |-> run.k, start |-> run.start, end |-> run.end,
                     ticks |-> TRUE, since |-> run.since, cursor |-> run.start, frames |-> {}]
          /\ UNCHANGED client
     ELSE Proceed
  /\ UNCHANGED <<now, features, basis, build, spent>>

(* Mutant: chunks that overlap, so that no boundary tick is lost.          *)
OverlappingCursor(chunk_end) == chunk_end - 1

NextCursor(chunk_end) == chunk_end

(* One pass of the loop in ingest_ticks. *)
FetchTicks ==
  /\ run.pc = "ticks" /\ run.cursor < run.end
  /\ IF ~session THEN Raise
     ELSE LET chunk_end == Min({run.cursor + TickChunk, run.end}) IN
          /\ run' = [run EXCEPT !.cursor = NextCursor(chunk_end),
                                !.frames = @ \cup TicksIn(Pairs[run.k], run.cursor, chunk_end)]
          /\ UNCHANGED <<now, client, summary, store, build, spent>>

(* to_sql names the generated column spread, which the database refuses:   *)
(* no ticks are ever inserted.                                             *)
StoreTicks ==
  /\ run.pc = "ticks" /\ run.cursor >= run.end
  /\ IF run.frames # {} THEN Raise
     ELSE Proceed /\ UNCHANGED <<now, summary, store, build, spent>>

(* ingest_bars called on its own: copy_rates connects only if the client   *)
(* is not connected, and nothing closes the session.                       *)
Backfill(s, window) ==
  /\ run.pc = "idle" /\ spent.runs < MaxRuns
  /\ spent' = [spent EXCEPT !.runs = @ + 1]
  /\ \/ connected /\ UNCHANGED client
     \/ ~connected /\ session' = TRUE /\ connected' = TRUE
  /\ bars' = IF session' THEN [bars EXCEPT ![s] = Upserted(Rates(s, window[1], window[2]), @)] ELSE bars
  /\ UNCHANGED <<now, run, summary, features, basis, build>>

-----------------------------------------------------------------------------
(* build_features for leg_a.                                               *)

(* load_bars(symbol); no bars, no build. *)
LoadBars ==
  /\ build = Idle /\ spent.builds < MaxBuilds /\ bars[Legs[1]] # None
  /\ spent' = [spent EXCEPT !.builds = @ + 1]
  /\ build' = [pc |-> "loaded", bars |-> bars[Legs[1]]]
  /\ UNCHANGED <<now, client, run, summary, store>>

Matrix(legs) == FeatureMatrix(legs, Legs[1], Legs[2])

UpTo(legs, t) ==
  [s \in DOMAIN legs |-> Tabulated([u \in {v \in DOMAIN legs[s] : v <= t} |-> legs[s][u]])]

(* load_bars(partner_symbol), build_feature_matrix, upsert_features. *)
StoreFeatures ==
  /\ build # Idle
  /\ LET legs == [s \in {Legs[1], Legs[2]} |-> IF s = Legs[1] THEN build.bars ELSE bars[s]]
         matrix == Matrix(legs)
     IN /\ features' = Upserted(matrix, features)
        /\ basis' = Upserted([t \in DOMAIN matrix |-> UpTo(legs, t)], basis)
  /\ build' = Idle
  /\ UNCHANGED <<now, client, run, summary, bars, spent>>

Step == FetchBars \/ StoreBars \/ FetchTicks \/ StoreTicks

Next ==
  \/ Advance \/ DropSession
  \/ \E w \in Windows : \/ \E with_ticks \in BOOLEAN : StartRun(w, with_ticks)
                        \/ \E s \in Symbols : Backfill(s, w)
  \/ Step
  \/ LoadBars \/ StoreFeatures

(* A run that was started goes on. *)
Spec == Init /\ [][Next]_vars /\ WF_vars(Step)

-----------------------------------------------------------------------------
(* Properties.                                                             *)

(* "Every feature at bar t is computed only from bars with index <= t"     *)
(* (base.py:3-4): as long as no bar at or before it was stored since, a    *)
(* stored row is what a build would compute now, whatever later bars came, *)
(* were revised or filled a hole, and wherever the ingestion stood when    *)
(* the build read the two legs.                                            *)
RowsSettle ==
  LET legs == [s \in {Legs[1], Legs[2]} |-> bars[s]]
      settled == {t \in DOMAIN features : basis[t] = UpTo(legs, t)}
      matrix == Matrix(legs)
  IN settled # {} => \A t \in settled : t \in DOMAIN matrix /\ features[t] = matrix[t]

(* Rows after which no hole can be felt any more. *)
Horizon ==
  Max({Width.atr + Width.atr_pct - 1, Width.yz + 1, Width.vol + 1, Width.ker + 1, Width.hurst,
       Width.corr + 1 + Width.lag, Width.spread})

(* A row is NaN only from warm-up or a hole among the last Horizon rows:   *)
(* a missing partner bar blanks the cross-pair features for so long and no *)
(* longer.  The session baseline looks back further and is left out.       *)
NaNsHeal ==
  \A t \in DOMAIN features :
    LET index == Index(basis[t][Legs[1]])
        last == {index[i] : i \in {j \in DOMAIN index : j > Len(index) - Horizon}}
    IN Len(index) >= Horizon /\ last \subseteq DOMAIN basis[t][Legs[2]] =>
         \A c \in DOMAIN features[t] \ {"sess_rel_vol"} : features[t][c] # NaN

Ends == run.pc # "idle" /\ run'.pc = "idle"

(* However a run ends, it leaves the terminal; and when it returns its     *)
(* summary, the database has every bar of every pair in the window, at     *)
(* least as complete as it was when the run began.                         *)
RunsAreClean ==
  [][Ends =>
       /\ ~session' /\ ~connected'
       /\ summary' # None =>
            \A s \in Symbols : \A t \in Available[s] :
              run.start <= t /\ t <= run.end /\ t <= run.since =>
                t \in DOMAIN bars'[s] /\ (t < run.since => bars'[s][t] = "closed")]_vars

(* Every run comes to an end: the tick loop makes progress.                *)
RunsEnd == run.pc # "idle" ~> run.pc = "idle"
=============================================================================
