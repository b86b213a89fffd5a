---------------------------- MODULE StoreProofs ----------------------------
(***************************************************************************)
(* The two stores of layer 0: the parquet file, whose interrupted upserts  *)
(* lose no row and are each one upsert of a table, and the database, which *)
(* a run that returns a summary has filled for its window.  Then the       *)
(* features: no column looks ahead, and none but the session baseline      *)
(* feels a hole for longer than its windows.                               *)
(***************************************************************************)
EXTENDS ParquetStore, Ingestion, DataProofs

(* The parquet file.                                                       *)

OneJob == \A i, j \in Jobs : i = j

(* What a job is doing, and with which frames. *)
JobStates ==
  {IdleJob} \cup [pc : {"fetched"}, df : Rows]
    \cup [pc : {"combined", "writing"}, df : Rows, combined : Rows]

STypeOK ==
  /\ market \in [Stamps -> Versions]
  /\ file \in [state : {"absent", "torn", "whole"}, rows : Rows]
  /\ job \in [Jobs -> JobStates]
  /\ saved \in Rows
  /\ crashes \in Nat

(* A file that can be read holds the last complete write, and so does the  *)
(* frame a job has merged in memory, under its own rows; every complete    *)
(* write was acknowledged.                                                 *)
SInv ==
  /\ STypeOK
  /\ acked = saved
  /\ file.state # "torn" => file.rows = saved
  /\ \A j \in Jobs : job[j].pc \in {"combined", "writing"} =>
                       job[j].combined = Over(job[j].df, saved)
  /\ \A j \in Jobs : /\ job[j].pc = "combined" => file.state # "torn"
                     /\ job[j].pc = "writing" => file.state = "torn"
                     /\ job[j].pc # "idle" => DOMAIN job[j].df # {}

-----------------------------------------------------------------------------
(* Merging two frames gives a frame. *)
LEMMA CombineRows ==
  ASSUME NEW a \in Rows, NEW b \in Rows
  PROVE  Over(a, b) \in Rows
<1>1. PICK A \in SUBSET Stamps : a \in [A -> Versions]
  BY DEF Rows
<1>2. PICK B \in SUBSET Stamps : b \in [B -> Versions]
  BY DEF Rows
<1>3. Over(a, b) \in [A \cup B -> Versions]
  BY <1>1, <1>2 DEF Over
<1>4. A \cup B \in SUBSET Stamps
  OBVIOUS
<1> QED BY <1>3, <1>4 DEF Rows

LEMMA EmptyRows == <<>> \in Rows
<1>1. <<>> \in [{} -> Versions]
  OBVIOUS
<1> QED BY <1>1 DEF Rows

(* The fields a job has in each state. *)
LEMMA JobFields ==
  ASSUME STypeOK, NEW j \in Jobs
  PROVE  /\ job[j].pc # "idle" => job[j].df \in Rows
         /\ job[j].pc = "idle" => job[j] = IdleJob
         /\ job[j].pc = "fetched" => job[j] \in [pc : {"fetched"}, df : Rows]
         /\ job[j].pc \in {"combined", "writing"} =>
              job[j] \in [pc : {"combined", "writing"}, df : Rows, combined : Rows]
<1>1. job[j] \in JobStates
  BY DEF STypeOK
<1> QED BY <1>1 DEF JobStates, IdleJob

LEMMA SInit == ParquetInit => SInv
<1> SUFFICES ASSUME ParquetInit PROVE SInv
  OBVIOUS
<1>1. market \in [Stamps -> Versions]
  BY StoreAssumption DEF ParquetInit, Versions
<1>2. job \in [Jobs -> JobStates]
  BY DEF ParquetInit, JobStates
<1>3. \A j \in Jobs : job[j].pc = "idle"
  BY DEF ParquetInit, IdleJob
<1> QED BY <1>1, <1>2, <1>3, EmptyRows DEF ParquetInit, SInv, STypeOK

(* Every step of the only job keeps file, frame and acknowledgements       *)
(* together.                                                               *)
LEMMA StepKeepsSInv == OneJob /\ SInv /\ [ParquetNext]_parquetVars => SInv'
<1> SUFFICES ASSUME OneJob, SInv, [ParquetNext]_parquetVars PROVE SInv'
  OBVIOUS
<1> USE DEF SInv, STypeOK
<1>1. ASSUME NEW t \in Stamps, Revise(t) PROVE SInv'
  BY <1>1, StoreAssumption DEF Revise, Versions
<1>2. ASSUME NEW j \in Jobs, NEW window \in SUBSET Stamps, Fetch(j, window) PROVE SInv'
  <2>1. [t \in window |-> market[t]] \in Rows
    BY DEF Rows
  <2>2. job' = [job EXCEPT ![j] = [pc |-> "fetched", df |-> [t \in window |-> market[t]]]]
    BY <1>2 DEF Fetch
  <2>3. job' \in [Jobs -> JobStates]
    BY <2>1, <2>2 DEF JobStates
  <2>4. \A i \in Jobs : job'[i].pc = "fetched" /\ DOMAIN job'[i].df # {}
    <3>1. window # {}
      BY <1>2 DEF Fetch
    <3> QED BY <2>2, <3>1 DEF OneJob
  <2> QED BY <1>2, <2>3, <2>4 DEF Fetch
<1>3. ASSUME NEW j \in Jobs, ReadAndCombine(j) PROVE SInv'
  <2>1. CASE file.state = "torn"
    <3>1. job' = [job EXCEPT ![j] = IdleJob]
      BY <1>3, <2>1 DEF ReadAndCombine
    <3>2. job' \in [Jobs -> JobStates] /\ \A i \in Jobs : job'[i].pc = "idle"
      BY <3>1 DEF JobStates, IdleJob, OneJob
    <3> QED BY <1>3, <3>2 DEF ReadAndCombine
  <2>2. CASE file.state # "torn"
    <3> DEFINE merged == Over(job[j].df, saved)
    <3>1. job' = [job EXCEPT ![j] = [pc |-> "combined", df |-> job[j].df, combined |-> merged]]
      BY <1>3, <2>2 DEF ReadAndCombine, Combine
    <3>2. job[j].df \in Rows
      BY <1>3, JobFields DEF ReadAndCombine
    <3>3. merged \in Rows
      BY <3>2, CombineRows
    <3> HIDE DEF merged
    <3>4. job' \in [Jobs -> JobStates]
      BY <3>1, <3>2, <3>3 DEF JobStates
    <3>5. \A i \in Jobs : /\ job'[i].combined = merged /\ job'[i].df = job[j].df
                          /\ job'[i].pc = "combined"
      BY <3>1 DEF OneJob
    <3>6. DOMAIN job[j].df # {}
      BY <1>3 DEF ReadAndCombine
    <3>7. UNCHANGED <<market, file, saved, acked, crashes>>
      BY <1>3 DEF ReadAndCombine
    <3>8. \A i \in Jobs : job'[i].combined = Over(job'[i].df, saved')
      BY <3>5, <3>7 DEF merged
    <3>9. \A i \in Jobs : DOMAIN job'[i].df # {} /\ job'[i].pc = "combined" /\ file'.state # "torn"
      BY <2>2, <3>5, <3>6, <3>7
    <3> QED BY <3>4, <3>7, <3>8, <3>9
  <2> QED BY <2>1, <2>2
<1>4. ASSUME NEW j \in Jobs, OpenForWrite(j) PROVE SInv'
  <2>1. job[j] \in [pc : {"combined", "writing"}, df : Rows, combined : Rows]
    BY <1>4, JobFields DEF OpenForWrite
  <2>2. job' = [job EXCEPT ![j] = [job[j] EXCEPT !.pc = "writing"]]
    BY <1>4 DEF OpenForWrite
  <2>3. job' \in [Jobs -> JobStates]
    BY <2>1, <2>2 DEF JobStates
  <2>4. \A i \in Jobs : /\ job'[i].combined = job[i].combined /\ job'[i].df = job[i].df
                        /\ job'[i].pc = "writing"
    BY <2>1, <2>2 DEF OneJob
  <2>5. job[j].pc = "combined"
    BY <1>4 DEF OpenForWrite
  <2>6. file' = [state |-> "torn", rows |-> <<>>]
    BY <1>4 DEF OpenForWrite
  <2>7. \A i \in Jobs : job'[i].combined = Over(job'[i].df, saved)
    BY <2>4, <2>5 DEF OneJob
  <2>8. \A i \in Jobs : DOMAIN job'[i].df # {}
    BY <2>4, <2>5 DEF OneJob
  <2>9. UNCHANGED <<market, saved, acked, crashes>>
    BY <1>4 DEF OpenForWrite
  <2> QED BY <2>3, <2>4, <2>6, <2>7, <2>8, <2>9, EmptyRows
<1>5. ASSUME NEW j \in Jobs, FinishWrite(j) PROVE SInv'
  <2>1. job[j] \in [pc : {"combined", "writing"}, df : Rows, combined : Rows]
    BY <1>5, JobFields DEF FinishWrite
  <2>2. job' = [job EXCEPT ![j] = IdleJob]
    BY <1>5 DEF FinishWrite
  <2>3. job' \in [Jobs -> JobStates] /\ \A i \in Jobs : job'[i].pc = "idle"
    BY <2>2 DEF JobStates, IdleJob, OneJob
  <2>4. file' = [state |-> "whole", rows |-> job[j].combined]
    BY <1>5 DEF FinishWrite, OneJob
  <2>5. saved' = job[j].combined /\ acked' = Over(job[j].df, acked)
    BY <1>5 DEF FinishWrite
  <2>6. job[j].combined = Over(job[j].df, saved)
    BY <1>5 DEF FinishWrite
  <2> QED BY <1>5, <2>1, <2>3, <2>4, <2>5, <2>6 DEF FinishWrite
<1>6. ASSUME NEW j \in Jobs, Crash(j) PROVE SInv'
  <2>1. job' = [job EXCEPT ![j] = IdleJob]
    BY <1>6 DEF Crash
  <2>2. job' \in [Jobs -> JobStates] /\ \A i \in Jobs : job'[i].pc = "idle"
    BY <2>1 DEF JobStates, IdleJob, OneJob
  <2> QED BY <1>6, <2>2 DEF Crash
<1>7. CASE UNCHANGED parquetVars
  BY <1>7 DEF parquetVars
<1> QED BY <1>1, <1>2, <1>3, <1>4, <1>5, <1>6, <1>7 DEF ParquetNext

(* The file, the frames in memory and the acknowledgements agree in every  *)
(* reachable state.                                                        *)
THEOREM FileIsLastWrite ==
  ASSUME OneJob
  PROVE  ParquetSpec => []SInv
<1>1. SInv /\ [ParquetNext]_parquetVars => SInv'
  BY StepKeepsSInv
<1> QED BY <1>1, SInit, PTL DEF ParquetSpec

(* With one job at a time no acknowledged row is lost or goes back to an   *)
(* older version, whatever is revised, rerun or dies (_upsert_parquet).    *)
THEOREM NothingAckedIsLost ==
  ASSUME OneJob
  PROVE  ParquetSpec => []AckedRowsSurvive
<1>1. SInv => AckedRowsSurvive
  <2> SUFFICES ASSUME SInv, file.state = "whole", NEW t \in DOMAIN acked
               PROVE  t \in DOMAIN file.rows /\ file.rows[t] >= acked[t]
    BY DEF AckedRowsSurvive
  <2>1. file.rows = acked
    BY DEF SInv
  <2>2. acked[t] \in Nat
    BY StoreAssumption DEF SInv, STypeOK, Rows, Versions
  <2> QED BY <2>1, <2>2
<1> QED BY <1>1, FileIsLastWrite, PTL

-----------------------------------------------------------------------------
(* A step of the store is a step of the table, or none.                    *)

observed == <<Table, Destroyed, Pending>>

LEMMA UpsertCases ==
  ASSUME OneJob, SInv, SInv', [ParquetNext]_parquetVars
  PROVE  \/ UNCHANGED observed
         \/ \E j \in Jobs : \/ Disk!Submit(j) \/ Disk!Commit(j) \/ Disk!Abort(j)
                           \/ (Crash(j) /\ Disk!Destroy(j))
<1> USE DEF Disk!Submit, Disk!Commit, Disk!Abort, observed
<1>0. job \in [Jobs -> JobStates]
  BY DEF SInv, STypeOK
<1>1. ASSUME NEW t \in Stamps, Revise(t) PROVE UNCHANGED observed
  BY <1>1 DEF Revise, Pending, Table, Destroyed, BeingWritten
<1>2. ASSUME NEW j \in Jobs, NEW window \in SUBSET Stamps, Fetch(j, window) PROVE Disk!Submit(j)
  <2> DEFINE batch == [t \in window |-> market[t]]
  <2>1. batch \in Disk!Rows
    BY DEF SInv, STypeOK, Disk!Rows
  <2>2. job' = [job EXCEPT ![j] = [pc |-> "fetched", df |-> batch]] /\ job[j].pc = "idle"
    BY <1>2 DEF Fetch
  <2> HIDE DEF batch
  <2>3. Pending' = [Pending EXCEPT ![j] = batch] /\ Pending[j] = <<>>
    BY <1>0, <2>2 DEF Pending
  <2>4. ~ BeingWritten /\ ~ BeingWritten'
    BY <1>0, <2>2 DEF BeingWritten, OneJob
  <2>5. UNCHANGED <<Table, Destroyed>>
    BY <1>2, <2>4 DEF Fetch, Table, Destroyed
  <2> QED BY <2>1, <2>3, <2>5
<1>3. ASSUME NEW j \in Jobs, job' = [job EXCEPT ![j] = IdleJob]
      PROVE  Pending' = [Pending EXCEPT ![j] = <<>>] /\ ~ BeingWritten'
  BY <1>0, <1>3 DEF Pending, IdleJob, BeingWritten, OneJob
<1>4. ASSUME NEW j \in Jobs, ReadAndCombine(j) PROVE Disk!Abort(j) \/ UNCHANGED observed
  <2>1. ~ BeingWritten /\ UNCHANGED <<file, saved>>
    BY <1>4 DEF ReadAndCombine, BeingWritten, OneJob
  <2>2. CASE file.state = "torn"
    <3>1. job' = [job EXCEPT ![j] = IdleJob]
      BY <1>4, <2>2 DEF ReadAndCombine
    <3> QED BY <1>3, <2>1, <3>1 DEF Table, Destroyed
  <2>3. CASE file.state # "torn"
    <3>1. PICK merged :
            job' = [job EXCEPT ![j] = [pc |-> "combined", df |-> job[j].df, combined |-> merged]]
      BY <1>4, <2>3 DEF ReadAndCombine
    <3>2. job[j].pc = "fetched"
      BY <1>4 DEF ReadAndCombine
    <3>3. Pending' = Pending
      BY <1>0, <3>1, <3>2 DEF Pending
    <3> QED BY <2>1, <2>3, <3>3 DEF Table, Destroyed
  <2> QED BY <2>2, <2>3
<1>5. ASSUME NEW j \in Jobs, OpenForWrite(j) PROVE UNCHANGED observed
  <2>1. job[j] \in [pc : {"combined", "writing"}, df : Rows, combined : Rows] /\ job[j].pc = "combined"
    BY <1>5, JobFields DEF SInv, OpenForWrite
  <2>2. job' = [job EXCEPT ![j] = [job[j] EXCEPT !.pc = "writing"]] /\ saved' = saved
    BY <1>5 DEF OpenForWrite
  <2>3. Pending' = Pending /\ BeingWritten'
    BY <1>0, <2>1, <2>2 DEF Pending, BeingWritten
  <2>4. ~ Destroyed /\ ~ Destroyed'
    BY <2>1, <2>3 DEF Destroyed, SInv
  <2>5. file.state # "torn" /\ file' = [state |-> "torn", rows |-> <<>>]
    BY <1>5 DEF OpenForWrite, SInv
  <2>6. Table = saved
    BY <2>5 DEF SInv, Table
  <2>7. Table' = saved'
    BY <2>3, <2>5 DEF Table
  <2>8. Destroyed' = Destroyed
    BY <2>4 DEF Destroyed
  <2> QED BY <2>2, <2>3, <2>6, <2>7, <2>8
<1>6. ASSUME NEW j \in Jobs, FinishWrite(j) PROVE Disk!Commit(j)
  <2>1. saved' = Over(job[j].df, saved)
    BY <1>6 DEF FinishWrite, SInv
  <2>2. Pending[j] = job[j].df /\ BeingWritten
    BY <1>6 DEF FinishWrite, Pending, BeingWritten
  <2>3. job' = [job EXCEPT ![j] = IdleJob]
    BY <1>6 DEF FinishWrite
  <2>4. file'.state = "whole"
    BY <1>6 DEF FinishWrite, OneJob
  <2>5. ~ Destroyed /\ ~ Destroyed'
    BY <2>2, <2>4 DEF Destroyed
  <2>6. Table = saved /\ Table' = saved'
    <3>1. file.state = "torn" /\ file' = [state |-> "whole", rows |-> job[j].combined]
      BY <1>6 DEF FinishWrite, SInv, OneJob
    <3>2. Table = saved
      BY <2>2, <3>1 DEF Table
    <3>3. Table' = job[j].combined /\ saved' = job[j].combined
      BY <1>6, <3>1 DEF Table, FinishWrite
    <3> QED BY <3>2, <3>3
  <2>7. Pending' = [Pending EXCEPT ![j] = <<>>]
    BY <1>3, <2>3
  <2>8. Table' = Over(Pending[j], Table)
    BY <2>1, <2>2, <2>6
  <2>9. ~ Destroyed /\ Destroyed' = Destroyed
    BY <2>5 DEF Destroyed
  <2> HIDE DEF Table, Destroyed, Pending
  <2> QED BY <2>7, <2>8, <2>9 DEF Over, Disk!Commit
<1>7. ASSUME NEW j \in Jobs, Crash(j) PROVE Disk!Abort(j) \/ Disk!Destroy(j)
  <2>1. job' = [job EXCEPT ![j] = IdleJob] /\ UNCHANGED <<file, saved>> /\ job[j].pc # "idle"
    BY <1>7 DEF Crash
  <2>2. Pending' = [Pending EXCEPT ![j] = <<>>] /\ ~ BeingWritten'
    BY <1>3, <2>1
  <2>3. CASE job[j].pc = "writing"
    <3>1. file.state = "torn" /\ BeingWritten /\ DOMAIN job[j].df # {}
      BY <2>3 DEF SInv, BeingWritten
    <3>2. ~ Destroyed /\ Destroyed' /\ Table' = <<>>
      BY <2>1, <2>2, <3>1 DEF Destroyed, Table
    <3>3. Pending[j] # <<>>
      BY <2>1, <3>1 DEF Pending
    <3> QED BY <2>2, <3>2, <3>3 DEF Disk!Destroy
  <2>4. CASE job[j].pc # "writing"
    <3>1. ~ BeingWritten
      BY <2>4 DEF BeingWritten, OneJob
    <3> QED BY <2>1, <2>2, <3>1 DEF Table, Destroyed
  <2> QED BY <2>3, <2>4
<1>8. CASE UNCHANGED parquetVars
  BY <1>8 DEF parquetVars, Pending, Table, Destroyed, BeingWritten
<1> QED BY <1>1, <1>2, <1>4, <1>5, <1>6, <1>7, <1>8 DEF ParquetNext

(* With one job at a time each write of the parquet store is one atomic    *)
(* upsert of the rows that can be read, or a crash in it destroys them all *)
(* (_upsert_parquet).                                                      *)
THEOREM StoreImplementsTable ==
  ASSUME OneJob
  PROVE  ParquetSpec => UpsertsUnlessTorn
<1>1. ParquetInit => Disk!UpsertInit
  BY DEF ParquetInit, Disk!UpsertInit, IdleJob, Table, Destroyed, Pending
<1>2. SInv /\ SInv' /\ [ParquetNext]_parquetVars => [Disk!UpsertNext]_observed
  BY UpsertCases DEF Disk!UpsertNext
<1> QED
  BY <1>1, <1>2, FileIsLastWrite, PTL DEF ParquetSpec, UpsertsUnlessTorn, Disk!UpsertSpec, observed

(* When moreover no job ever dies, the store has "the same guarantee as    *)
(* the DB ON CONFLICT paths" (store.py:15-17).                             *)
THEOREM StoreLikeDBWithoutCrashes ==
  ASSUME OneJob, MaxCrashes = 0
  PROVE  ParquetSpec => UpsertsLikeDB
<1>1. ParquetInit => DB!UpsertInit
  BY DEF ParquetInit, DB!UpsertInit, IdleJob, Table, Destroyed, Pending
<1>2. SInv /\ SInv' /\ [ParquetNext]_parquetVars => [DB!UpsertNext]_observed
  <2> SUFFICES ASSUME SInv, SInv', [ParquetNext]_parquetVars PROVE [DB!UpsertNext]_observed
    OBVIOUS
  <2>1. \A j \in Jobs : ~ Crash(j)
    BY DEF Crash, SInv, STypeOK
  <2>2. UNCHANGED observed \/ \E j \in Jobs : Disk!Submit(j) \/ Disk!Commit(j) \/ Disk!Abort(j)
    BY <2>1, UpsertCases
  <2>3. ASSUME NEW j \in Jobs, Disk!Submit(j) PROVE DB!Submit(j)
    BY <2>3 DEF Disk!Submit, DB!Submit, Disk!Rows, DB!Rows
  <2>4. ASSUME NEW j \in Jobs, Disk!Commit(j) PROVE DB!Commit(j)
    BY <2>4 DEF Disk!Commit, DB!Commit
  <2>5. ASSUME NEW j \in Jobs, Disk!Abort(j) PROVE DB!Abort(j)
    BY <2>5 DEF Disk!Abort, DB!Abort
  <2> QED BY <2>2, <2>3, <2>4, <2>5 DEF DB!UpsertNext
<1> QED
  BY <1>1, <1>2, FileIsLastWrite, PTL DEF ParquetSpec, UpsertsLikeDB, DB!UpsertSpec, observed

-----------------------------------------------------------------------------
(* Ingestion into the database.                                            *)

(* Frame f has what run r owes for symbol s: the bars of its window that   *)
(* had opened when it began, complete if they had closed by then.          *)
Covers(r, f, s) ==
  \A t \in Available[s] :
    r.start <= t /\ t <= r.end /\ t <= r.since =>
      t \in DOMAIN f /\ (t < r.since => f[t] = "closed")

(* The pairs done are in the database; so is the pair whose ticks are      *)
(* being fetched, and the frame in memory is as good.                      *)
Owed(r, db, time) ==
  r.pc # "idle" =>
    /\ r.since \in Nat /\ r.since <= time
    /\ r.k \in 1 .. Len(Pairs)
    /\ \A i \in 1 .. r.k - 1 : Covers(r, db[Pairs[i]], Pairs[i])
    /\ r.pc \in {"fetch", "store", "ticks"}
    /\ r.pc = "store" => Covers(r, r.df, Pairs[r.k])
    /\ r.pc = "ticks" => Covers(r, db[Pairs[r.k]], Pairs[r.k])

RInv ==
  /\ now \in Nat
  /\ bars = [s \in Symbols |-> bars[s]]
  /\ Owed(run, bars, now)

-----------------------------------------------------------------------------
(* A record that carries on the same run is owed the same. *)
LEMMA SameRun ==
  ASSUME NEW r, NEW q, q.start = r.start, q.end = r.end, q.since = r.since, NEW f, NEW s,
         Covers(r, f, s)
  PROVE  Covers(q, f, s)
  BY DEF Covers

(* What the terminal returns covers the window of a run that began before. *)
LEMMA RatesCover ==
  ASSUME NEW r, r.since \in Nat, now \in Nat, r.since <= now, NEW s \in Symbols
  PROVE  Covers(r, Rates(s, r.start, r.end), s)
<1> SUFFICES ASSUME NEW t \in Available[s], r.start <= t, t <= r.end, t <= r.since
             PROVE  /\ t \in DOMAIN Rates(s, r.start, r.end)
                    /\ t < r.since => Rates(s, r.start, r.end)[t] = "closed"
  BY DEF Covers
<1>1. t \in Nat
  BY IngestionAssumption
<1>2. t <= now /\ (t < r.since => t # now)
  BY <1>1
<1> QED BY <1>2 DEF Rates

(* An upsert keeps the rows it replaces as good as the new ones. *)
LEMMA UpsertCovers ==
  ASSUME NEW r, NEW s, NEW df, NEW old,
         Covers(r, df, s)
  PROVE  Covers(r, Upserted(df, old), s)
  BY DEF Covers, Upserted

LEMMA PairsAreSymbols ==
  /\ DOMAIN Pairs = 1 .. Len(Pairs) /\ Len(Pairs) \in Nat \ {0}
  /\ \A i \in 1 .. Len(Pairs) : Pairs[i] \in Symbols
  /\ \A s \in Symbols : \E i \in 1 .. Len(Pairs) : Pairs[i] = s
  BY IngestionAssumption DEF Symbols

-----------------------------------------------------------------------------

LEMMA RInit == Init => RInv
  BY IngestionAssumption DEF Init, RInv, Owed, Idle

(* The next pair, when this one is in the database. *)
LEMMA ProceedOwes ==
  ASSUME RInv, run.pc # "idle", Proceed, NEW db, now' = now,
         \A i \in 1 .. run.k : Covers(run, db[Pairs[i]], Pairs[i])
  PROVE  Owed(run', db, now')
<1>1. CASE run.k < Len(Pairs)
  <2>1. run' = [pc |-> "fetch", k |-> run.k + 1, start |-> run.start, end |-> run.end,
                ticks |-> run.ticks, since |-> run.since]
    BY <1>1 DEF Proceed
  <2>2. \A i \in 1 .. run'.k - 1 : Covers(run', db[Pairs[i]], Pairs[i])
    <3> SUFFICES ASSUME NEW i \in 1 .. run'.k - 1
                 PROVE  Covers(run', db[Pairs[i]], Pairs[i])
      OBVIOUS
    <3>1. i \in 1 .. run.k
      BY <2>1, PairsAreSymbols DEF RInv, Owed
    <3> QED BY <2>1, <3>1, SameRun
  <2> QED BY <1>1, <2>1, <2>2, PairsAreSymbols DEF RInv, Owed
<1>2. CASE ~ (run.k < Len(Pairs))
  BY <1>2 DEF Proceed, Idle, Owed
<1> QED BY <1>1, <1>2

LEMMA FetchOwes == RInv /\ FetchBars => RInv'
<1> SUFFICES ASSUME RInv, FetchBars PROVE RInv'
  OBVIOUS
<1> DEFINE df == Checked(IF session THEN Rates(Pairs[run.k], run.start, run.end) ELSE NaN)
<1>1. CASE df = NaN
  BY <1>1 DEF FetchBars, Raise, RInv, Owed, Idle, store
<1>2. CASE df # NaN
  <2>1. run' = [pc |-> "store", k |-> run.k, start |-> run.start, end |-> run.end,
                ticks |-> run.ticks, since |-> run.since, df |-> df]
        /\ UNCHANGED <<now, bars>>
    BY <1>2 DEF FetchBars, store
  <2>2. df = Rates(Pairs[run.k], run.start, run.end)
    BY <1>2 DEF Checked
  <2> HIDE DEF df
  <2>3. Covers(run, df, Pairs[run.k])
    BY <2>2, RatesCover, PairsAreSymbols DEF RInv, Owed, FetchBars
  <2>4. \A f, s : Covers(run, f, s) => Covers(run', f, s)
    BY <2>1, SameRun
  <2> QED BY <2>1, <2>3, <2>4 DEF RInv, Owed, FetchBars
<1> QED BY <1>1, <1>2

(* Storing the frame pays for the pair at hand and keeps the others paid.  *)
LEMMA StoreCovers ==
  ASSUME RInv, StoreBars
  PROVE  \A i \in 1 .. run.k : Covers(run, bars'[Pairs[i]], Pairs[i])
<1> DEFINE pair == Pairs[run.k]
<1>1. run.pc = "store" /\ bars' = [bars EXCEPT ![pair] = Upserted(run.df, bars[pair])]
  BY DEF StoreBars
<1>2. pair \in Symbols /\ run.k \in 1 .. Len(Pairs)
  BY <1>1, PairsAreSymbols DEF RInv, Owed
<1> SUFFICES ASSUME NEW i \in 1 .. run.k
             PROVE  Covers(run, bars'[Pairs[i]], Pairs[i])
  OBVIOUS
<1>3. Covers(run, Upserted(run.df, bars[pair]), pair)
  BY <1>1, UpsertCovers DEF RInv, Owed
<1>4. i # run.k => i \in 1 .. run.k - 1
  BY <1>2, PairsAreSymbols
<1>5. Pairs[i] \in Symbols
  BY <1>2, PairsAreSymbols
<1>6. CASE Pairs[i] = pair
  BY <1>1, <1>2, <1>3, <1>6 DEF RInv
<1>7. CASE Pairs[i] # pair
  BY <1>1, <1>4, <1>5, <1>7 DEF RInv, Owed
<1> QED BY <1>6, <1>7

LEMMA StoreOwes == RInv /\ StoreBars => RInv'
<1> SUFFICES ASSUME RInv, StoreBars PROVE RInv'
  OBVIOUS
<1>1. now' = now /\ run.pc = "store" /\ run.k \in 1 .. Len(Pairs)
  BY DEF StoreBars, RInv, Owed
<1>2. bars' = [s \in Symbols |-> bars'[s]]
  BY DEF StoreBars, RInv
<1>3. Owed(run', bars', now')
  <2>1. CASE run.ticks
    <3>1. run' = [pc |-> "ticks", k |-> run.k, start |-> run.start, end |-> run.end,
                  ticks |-> TRUE, since |-> run.since, cursor |-> run.start, frames |-> {}]
      BY <2>1 DEF StoreBars
    <3>2. \A i \in 1 .. run.k : Covers(run', bars'[Pairs[i]], Pairs[i])
      BY <3>1, StoreCovers, SameRun
    <3>3. run.k \in 1 .. run.k /\ \A i \in 1 .. run.k - 1 : i \in 1 .. run.k
      BY <1>1, PairsAreSymbols
    <3> QED BY <1>1, <3>1, <3>2, <3>3 DEF RInv, Owed
  <2>2. CASE ~ run.ticks
    BY <1>1, <2>2, StoreCovers, ProceedOwes DEF StoreBars
  <2> QED BY <2>1, <2>2
<1> QED BY <1>1, <1>2, <1>3 DEF RInv

LEMMA TicksOwe == RInv /\ (FetchTicks \/ StoreTicks) => RInv'
<1> SUFFICES ASSUME RInv, FetchTicks \/ StoreTicks PROVE RInv'
  OBVIOUS
<1>1. CASE Raise
  BY <1>1 DEF Raise, RInv, Owed, Idle, store
<1>2. CASE FetchTicks /\ ~ Raise
  <2>1. PICK c, fs : run' = [run EXCEPT !.cursor = c, !.frames = fs]
    BY <1>2 DEF FetchTicks
  <2>2. /\ run'.pc = run.pc /\ run'.k = run.k /\ run'.start = run.start
        /\ run'.end = run.end /\ run'.since = run.since
    BY <2>1
  <2>3. run.pc = "ticks" /\ UNCHANGED <<now, bars>>
    BY <1>2 DEF FetchTicks, store
  <2>4. \A f, s : Covers(run, f, s) => Covers(run', f, s)
    BY <2>2, SameRun
  <2> QED BY <2>2, <2>3, <2>4 DEF RInv, Owed
<1>3. CASE StoreTicks /\ ~ Raise
  <2>1. Proceed /\ UNCHANGED <<now, bars>> /\ run.pc = "ticks"
    BY <1>3 DEF StoreTicks, store
  <2>2. \A i \in 1 .. run.k : Covers(run, bars[Pairs[i]], Pairs[i])
    BY <2>1, PairsAreSymbols DEF RInv, Owed
  <2>3. Owed(run', bars, now')
    BY <2>1, <2>2, ProceedOwes
  <2> QED BY <2>1, <2>3 DEF RInv
<1> QED BY <1>1, <1>2, <1>3

LEMMA StepKeepsRInv == RInv /\ [Next]_vars => RInv'
<1> SUFFICES ASSUME RInv, [Next]_vars PROVE RInv'
  OBVIOUS
<1>1. CASE Advance
  <2>1. now' = now + 1 /\ UNCHANGED <<run, bars>>
    BY <1>1 DEF Advance, store
  <2> QED BY <2>1 DEF RInv, Owed
<1>2. CASE DropSession \/ LoadBars \/ StoreFeatures \/ UNCHANGED vars
  <2>1. UNCHANGED <<now, run, bars>>
    BY <1>2 DEF DropSession, LoadBars, StoreFeatures, vars, store
  <2> QED BY <2>1 DEF RInv
<1>3. ASSUME NEW w \in Windows, NEW with_ticks \in BOOLEAN, StartRun(w, with_ticks) PROVE RInv'
  <2>1. UNCHANGED <<now, bars>>
    BY <1>3 DEF StartRun, store
  <2>2. CASE run' = run
    BY <2>1, <2>2 DEF RInv
  <2>3. CASE run' = [pc |-> "fetch", k |-> 1, start |-> w[1], end |-> w[2],
                     ticks |-> with_ticks, since |-> now]
    BY <2>1, <2>3, PairsAreSymbols DEF RInv, Owed
  <2> QED BY <1>3, <2>2, <2>3 DEF StartRun
<1>4. ASSUME NEW w \in Windows, NEW s \in Symbols, Backfill(s, w) PROVE RInv'
  <2>1. run' = run /\ run.pc = "idle" /\ now' = now
    BY <1>4 DEF Backfill
  <2>2. bars' = [u \in Symbols |-> bars'[u]]
    BY <1>4 DEF Backfill, RInv
  <2> QED BY <2>1, <2>2 DEF RInv, Owed
<1>5. CASE Step
  BY <1>5, FetchOwes, StoreOwes, TicksOwe DEF Step
<1> QED BY <1>1, <1>2, <1>3, <1>4, <1>5 DEF Next

(* Whatever a run has in memory or stored is at least as complete as the   *)
(* market was when it began, in every reachable state.                     *)
THEOREM RunsOwe == Spec => []RInv
  BY RInit, StepKeepsRInv, PTL DEF Spec

-----------------------------------------------------------------------------
(* The step with which a run ends. *)

(* A run that returns has done every pair. *)
LEMMA ReturnIsClean ==
  ASSUME run.pc # "idle", RInv, NEW db, Proceed, run'.pc = "idle",
         \A i \in 1 .. run.k : Covers(run, db[Pairs[i]], Pairs[i])
  PROVE  ~ session' /\ ~ connected' /\ \A s \in Symbols : Covers(run, db[s], s)
<1>1. ~ (run.k < Len(Pairs))
  BY DEF Proceed
<1>2. run.k = Len(Pairs)
  BY <1>1, PairsAreSymbols DEF RInv, Owed
<1>3. ~ session' /\ ~ connected'
  BY <1>1 DEF Proceed
<1> QED BY <1>2, <1>3, PairsAreSymbols

(* A run ends by an exception or by returning. *)
LEMMA EndIsClean ==
  ASSUME RInv, [Next]_vars, Ends
  PROVE  /\ ~ session' /\ ~ connected'
         /\ summary' # None => \A s \in Symbols : Covers(run, bars'[s], s)
<1>1. run.pc # "idle" /\ run'.pc = "idle" /\ run.pc # run'.pc
  BY DEF Ends
<1>2. CASE Raise
  BY <1>2 DEF Raise
<1>3. CASE FetchBars /\ ~ Raise
  BY <1>1, <1>3 DEF FetchBars
<1>4. CASE StoreBars
  <2>1. ~ run.ticks
    BY <1>1, <1>4 DEF StoreBars
  <2>2. Proceed
    BY <1>4, <2>1 DEF StoreBars
  <2> QED BY <1>1, <1>4, <2>2, StoreCovers, ReturnIsClean
<1>5. CASE FetchTicks /\ ~ Raise
  <2>1. run.pc = "ticks"
    BY <1>5 DEF FetchTicks
  <2>2. PICK c, fs : run' = [run EXCEPT !.cursor = c, !.frames = fs]
    BY <1>5 DEF FetchTicks
  <2>3. run'.pc = run.pc
    BY <2>2
  <2> QED BY <1>1, <2>3
<1>6. CASE StoreTicks /\ ~ Raise
  <2>1. Proceed /\ bars' = bars /\ run.pc = "ticks"
    BY <1>6 DEF StoreTicks, store
  <2>2. \A i \in 1 .. run.k : Covers(run, bars'[Pairs[i]], Pairs[i])
    BY <2>1, PairsAreSymbols DEF RInv, Owed
  <2> QED BY <1>1, <2>1, <2>2, ReturnIsClean
<1>7. run' # run
  BY <1>1
<1>8. ~ (Advance \/ DropSession \/ LoadBars \/ StoreFeatures \/ UNCHANGED vars)
  BY <1>7 DEF Advance, DropSession, LoadBars, StoreFeatures, vars
<1>9. ~ \E w \in Windows : \/ \E with_ticks \in BOOLEAN : StartRun(w, with_ticks)
                           \/ \E s \in Symbols : Backfill(s, w)
  BY <1>1 DEF StartRun, Backfill, Idle
<1> QED BY <1>2, <1>3, <1>4, <1>5, <1>6, <1>8, <1>9 DEF Next, Step

(* Ingestor.ingest_universe returns a summary only if every bar of every   *)
(* pair in the window is stored, complete if it had closed when the run    *)
(* began; whichever way a run ends, the terminal is left (__exit__).       *)
THEOREM RunsEndClean == Spec => RunsAreClean
<1>1. RInv /\ [Next]_vars =>
        [Ends =>
          /\ ~session' /\ ~connected'
          /\ summary' # None =>
               \A s \in Symbols : \A t \in Available[s] :
                 run.start <= t /\ t <= run.end /\ t <= run.since =>
                   t \in DOMAIN bars'[s] /\ (t < run.since => bars'[s][t] = "closed")]_vars
  BY EndIsClean DEF Covers
<1> QED BY <1>1, RunsOwe, PTL DEF Spec, RunsAreClean


-----------------------------------------------------------------------------
(* The order of a bars' index.                                             *)

LEMMA TabulatedIs == \A f : Tabulated(f) = f
  BY DEF Tabulated

(* The row of t in the index of the timestamps D. *)
RowOf(D, t) == Cardinality({u \in D : u <= t})

LEMMA RowsAre ==
  ASSUME NEW n \in Nat, NEW D \in SUBSET (0 .. n)
  PROVE  /\ IsFiniteSet(D) /\ Cardinality(D) \in Nat
         /\ \A t \in D : RowOf(D, t) \in 1 .. Cardinality(D)
         /\ \A t, u \in D : RowOf(D, t) = RowOf(D, u) => t = u
         /\ \A i \in 1 .. Cardinality(D) : \E t \in D : RowOf(D, t) = i
<1> DEFINE N == Cardinality(D)
           upto(t) == {u \in D : u <= t}
<1>1. IsFiniteSet(D) /\ N \in Nat
  BY Counted
<1>2. \A t \in D : upto(t) \in SUBSET D /\ IsFiniteSet(upto(t)) /\ Cardinality(upto(t)) \in Nat
  BY Counted
<1>3. ASSUME NEW t \in D PROVE RowOf(D, t) \in 1 .. N
  <2>1. t \in upto(t)
    OBVIOUS
  <2>2. Cardinality(upto(t)) # 0
    BY <1>2, <2>1, FS_EmptySet
  <2>3. Cardinality(upto(t)) <= N
    BY <1>1, <1>2, FS_Subset
  <2> HIDE DEF upto, N
  <2> QED BY <1>1, <1>2, <2>2, <2>3 DEF RowOf, upto
<1>4. ASSUME NEW t \in D, NEW u \in D, t < u PROVE RowOf(D, t) # RowOf(D, u)
  <2>1. u \in upto(u) /\ u \notin upto(t)
    <3>1. t \in Nat /\ u \in Nat
      OBVIOUS
    <3> QED BY <1>4, <3>1
  <2>2. upto(t) \subseteq upto(u)
    <3> SUFFICES ASSUME NEW v \in D, v <= t PROVE v <= u
      OBVIOUS
    <3>1. t \in Nat /\ u \in Nat /\ v \in Nat
      OBVIOUS
    <3> QED BY <1>4, <3>1
  <2>3. upto(t) # upto(u)
    BY <2>1
  <2>4. Cardinality(upto(t)) # Cardinality(upto(u))
    <3> HIDE DEF upto
    <3> QED BY <1>2, <2>2, <2>3, FS_Subset
  <2> QED BY <2>4 DEF RowOf
<1>5. ASSUME NEW t \in D, NEW u \in D, RowOf(D, t) = RowOf(D, u) PROVE t = u
  <2>1. t \in Nat /\ u \in Nat
    OBVIOUS
  <2>2. ~ (t < u) /\ ~ (u < t)
    BY <1>4, <1>5
  <2> QED BY <2>1, <2>2
<1>6. ASSUME NEW i \in 1 .. N PROVE \E t \in D : RowOf(D, t) = i
  <2> SUFFICES ASSUME \A t \in D : RowOf(D, t) # i PROVE FALSE
    OBVIOUS
  <2> DEFINE T == (1 .. N) \ {i}
             f == [t \in D |-> RowOf(D, t)]
  <2>1. IsFiniteSet(1 .. N) /\ Cardinality(1 .. N) = N
    BY <1>1, FS_Interval
  <2>2. IsFiniteSet(T) /\ Cardinality(T) = N - 1
    BY <2>1, FS_RemoveElement
  <2>3. f \in [D -> T]
    BY <1>3
  <2>4. Cardinality(T) < Cardinality(D)
    BY <1>1, <2>2
  <2>5. \E x, y \in D : x # y /\ f[x] = f[y]
    <3> HIDE DEF T, f
    <3> QED BY <1>1, <2>2, <2>3, <2>4, FS_PigeonHole
  <2> QED BY <1>5, <2>5
<1> QED BY <1>1, <1>3, <1>5, <1>6

Stamped(bars_) == \E n \in Nat : DOMAIN bars_ \subseteq 0 .. n

LEMMA IndexIs ==
  ASSUME NEW db, Stamped(db)
  PROVE  LET D == DOMAIN db
         IN /\ Cardinality(D) \in Nat /\ DOMAIN Index(db) = 1 .. Cardinality(D)
            /\ \A i \in 1 .. Cardinality(D) : Index(db)[i] \in D /\ RowOf(D, Index(db)[i]) = i
            /\ \A t \in D : RowOf(D, t) \in 1 .. Cardinality(D) /\ Index(db)[RowOf(D, t)] = t
<1> DEFINE D == DOMAIN db
<1>1. PICK n \in Nat : D \in SUBSET (0 .. n)
  BY DEF Stamped
<1> HIDE DEF D
<1>2. /\ Cardinality(D) \in Nat
      /\ \A t \in D : RowOf(D, t) \in 1 .. Cardinality(D)
      /\ \A t, u \in D : RowOf(D, t) = RowOf(D, u) => t = u
      /\ \A i \in 1 .. Cardinality(D) : \E t \in D : RowOf(D, t) = i
  BY <1>1, RowsAre
<1>3. Index(db) = [i \in 1 .. Cardinality(D) |-> CHOOSE t \in D : RowOf(D, t) = i]
  BY TabulatedIs DEF Index, RowOf, D
<1>4. ASSUME NEW i \in 1 .. Cardinality(D)
      PROVE  Index(db)[i] \in D /\ RowOf(D, Index(db)[i]) = i
  <2>1. Index(db)[i] = CHOOSE t \in D : RowOf(D, t) = i
    BY <1>3
  <2> QED BY <1>2, <2>1
<1> QED BY <1>2, <1>3, <1>4 DEF D

(* The bars up to t come first in the index. *)
LEMMA IndexBegins ==
  ASSUME NEW db, Stamped(db), NEW t \in Int, NEW cut, DOMAIN cut = {u \in DOMAIN db : u <= t}
  PROVE  LET D == DOMAIN db
             C == DOMAIN cut
         IN /\ Stamped(cut) /\ Cardinality(C) <= Cardinality(D)
            /\ \A i \in 1 .. Cardinality(C) : Index(cut)[i] = Index(db)[i] /\ Index(cut)[i] \in C
<1> DEFINE D == DOMAIN db
           C == DOMAIN cut
<1>1. Stamped(cut)
  BY DEF Stamped
<1>2. Cardinality(C) <= Cardinality(D) /\ Cardinality(C) \in Nat /\ Cardinality(D) \in Nat
  <2>1. IsFiniteSet(D) /\ C \in SUBSET D
    BY RowsAre DEF Stamped
  <2> HIDE DEF D, C
  <2> QED BY <2>1, FS_Subset, FS_CardinalityType
<1>3. ASSUME NEW i \in 1 .. Cardinality(C)
      PROVE  Index(cut)[i] = Index(db)[i] /\ Index(cut)[i] \in C
  <2> DEFINE u == Index(cut)[i]
  <2>1. u \in C /\ RowOf(C, u) = i
    BY <1>1, IndexIs
  <2>2. u \in D /\ u <= t
    BY <2>1
  <2>3. {v \in C : v <= u} = {v \in D : v <= u}
    <3> SUFFICES ASSUME NEW v \in D, v <= u PROVE v <= t
      OBVIOUS
    <3>1. v \in Int /\ u \in Int
      BY <2>2 DEF Stamped
    <3> HIDE DEF u
    <3> QED BY <2>2, <3>1
  <2>4. RowOf(D, u) = i
    BY <2>1, <2>3 DEF RowOf
  <2>5. Index(db)[RowOf(D, u)] = u
    <3> HIDE DEF u
    <3> QED BY <2>2, IndexIs
  <2> QED BY <2>1, <2>4, <2>5
<1> QED BY <1>1, <1>2, <1>3

-----------------------------------------------------------------------------
(* Causality.  The n rows of y are the first n of the m rows of x.         *)
Begins(y, x, n, m) ==
  /\ DOMAIN y = 1 .. n /\ DOMAIN x = 1 .. m
  /\ \A i \in 1 .. n : y[i] = x[i]

LEMMA ShiftBegins ==
  ASSUME NEW n \in Nat, NEW m \in Nat, n <= m, NEW y, NEW x, Begins(y, x, n, m), NEW k \in Nat
  PROVE  Begins(Shift(y, k), Shift(x, k), n, m)
<1>1. Shift(y, k) = [i \in 1 .. n |-> IF i - k \in 1 .. n THEN y[i - k] ELSE NaN]
  BY TabulatedIs DEF Shift, Begins
<1>2. Shift(x, k) = [i \in 1 .. m |-> IF i - k \in 1 .. m THEN x[i - k] ELSE NaN]
  BY TabulatedIs DEF Shift, Begins
<1>3. \A i \in 1 .. n : i \in 1 .. m /\ (i - k \in 1 .. m <=> i - k \in 1 .. n)
  OBVIOUS
<1> QED BY <1>1, <1>2, <1>3 DEF Begins

LEMMA JoinBegins ==
  ASSUME NEW n \in Nat, NEW m \in Nat, n <= m, NEW y, NEW x, Begins(y, x, n, m),
         NEW w, NEW v, Begins(w, v, n, m)
  PROVE  Begins(Join(y, w), Join(x, v), n, m)
<1> DEFINE val(p, q, i) == IF NaN \in {p[i], q[i]} THEN NaN ELSE p[i] \cup q[i]
<1>1. /\ Join(y, w) = [i \in 1 .. n |-> val(y, w, i)]
      /\ Join(x, v) = [i \in 1 .. m |-> val(x, v, i)]
  BY TabulatedIs DEF Join, Begins
<1>2. \A i \in 1 .. n : i \in 1 .. m /\ val(y, w, i) = val(x, v, i)
  <2> SUFFICES ASSUME NEW i \in 1 .. n PROVE i \in 1 .. m /\ val(y, w, i) = val(x, v, i)
    OBVIOUS
  <2>1. i \in 1 .. m /\ y[i] = x[i] /\ w[i] = v[i]
    BY DEF Begins
  <2> QED BY Zenon, <2>1
<1> HIDE DEF val
<1> QED BY <1>1, <1>2 DEF Begins

LEMMA DiffBegins ==
  ASSUME NEW n \in Nat, NEW m \in Nat, n <= m, NEW y, NEW x, Begins(y, x, n, m), NEW k \in Nat
  PROVE  Begins(Diff(y, k), Diff(x, k), n, m)
  BY ShiftBegins, JoinBegins DEF Diff

(* What is seen in rows that lie in the first n. *)
LEMMA SeenBegins ==
  ASSUME NEW n \in Nat, NEW m \in Nat, n <= m, NEW y, NEW x, Begins(y, x, n, m),
         NEW rows, rows \cap (1 .. m) \subseteq 1 .. n
  PROVE  /\ Present(y, rows) = Present(x, rows)
         /\ Gather(y, Present(y, rows)) = Gather(x, Present(x, rows))
<1>1. rows \cap (1 .. n) = rows \cap (1 .. m)
  OBVIOUS
<1>2. Present(y, rows) = Present(x, rows)
  BY <1>1 DEF Present, Begins
<1>3. \A i \in Present(y, rows) : y[i] = x[i]
  BY DEF Present, Begins
<1> QED BY <1>2, <1>3 DEF Gather

LEMMA RollingBegins ==
  ASSUME NEW n \in Nat, NEW m \in Nat, n <= m, NEW y, NEW x, Begins(y, x, n, m), NEW w \in Nat
  PROVE  Begins(Rolling(y, w), Rolling(x, w), n, m)
<1> DEFINE val(z, i) == LET seen == Present(z, i - w + 1 .. i)
                        IN IF Cardinality(seen) >= w THEN Gather(z, seen) ELSE NaN
<1>1. /\ Rolling(y, w) = [i \in 1 .. n |-> val(y, i)]
      /\ Rolling(x, w) = [i \in 1 .. m |-> val(x, i)]
  BY TabulatedIs DEF Rolling, Begins
<1>2. \A i \in 1 .. n : i \in 1 .. m /\ val(y, i) = val(x, i)
  <2> SUFFICES ASSUME NEW i \in 1 .. n PROVE i \in 1 .. m /\ val(y, i) = val(x, i)
    OBVIOUS
  <2> DEFINE rows == i - w + 1 .. i
  <2>1. rows \cap (1 .. m) \subseteq 1 .. n
    OBVIOUS
  <2> HIDE DEF rows
  <2>2. /\ Present(y, rows) = Present(x, rows)
        /\ Gather(y, Present(y, rows)) = Gather(x, Present(x, rows))
    BY <2>1, SeenBegins
  <2> QED BY <2>2 DEF rows
<1> HIDE DEF val
<1> QED BY <1>1, <1>2 DEF Begins

LEMMA EwmBegins ==
  ASSUME NEW n \in Nat, NEW m \in Nat, n <= m, NEW y, NEW x, Begins(y, x, n, m), NEW w \in Nat
  PROVE  Begins(Ewm(y, w), Ewm(x, w), n, m)
<1> DEFINE val(z, i) == LET seen == Present(z, 1 .. i)
                        IN IF Cardinality(seen) >= w THEN Gather(z, seen) ELSE NaN
<1>1. /\ Ewm(y, w) = [i \in 1 .. n |-> val(y, i)]
      /\ Ewm(x, w) = [i \in 1 .. m |-> val(x, i)]
  BY TabulatedIs DEF Ewm, Begins
<1>2. \A i \in 1 .. n : i \in 1 .. m /\ val(y, i) = val(x, i)
  <2> SUFFICES ASSUME NEW i \in 1 .. n PROVE i \in 1 .. m /\ val(y, i) = val(x, i)
    OBVIOUS
  <2> DEFINE rows == 1 .. i
  <2>1. rows \cap (1 .. m) \subseteq 1 .. n
    OBVIOUS
  <2> HIDE DEF rows
  <2>2. /\ Present(y, rows) = Present(x, rows)
        /\ Gather(y, Present(y, rows)) = Gather(x, Present(x, rows))
    BY <2>1, SeenBegins
  <2> QED BY <2>2 DEF rows
<1> HIDE DEF val
<1> QED BY <1>1, <1>2 DEF Begins

LEMMA TrueRangeBegins ==
  ASSUME NEW n \in Nat, NEW m \in Nat, n <= m, NEW y, NEW x, Begins(y, x, n, m)
  PROVE  Begins(TrueRange(y), TrueRange(x), n, m)
<1> DEFINE val(p, i) == IF i = 1 THEN p[1] ELSE p[i] \cup p[i - 1]
<1>1. /\ TrueRange(y) = [i \in 1 .. n |-> val(y, i)]
      /\ TrueRange(x) = [i \in 1 .. m |-> val(x, i)]
  BY DEF TrueRange, Begins
<1>2. \A i \in 1 .. n : i \in 1 .. m /\ val(y, i) = val(x, i)
  <2> SUFFICES ASSUME NEW i \in 1 .. n PROVE i \in 1 .. m /\ val(y, i) = val(x, i)
    OBVIOUS
  <2>1. i \in 1 .. m /\ (i # 1 => i - 1 \in 1 .. n)
    OBVIOUS
  <2> QED BY <2>1 DEF Begins
<1> HIDE DEF val
<1> QED BY <1>1, <1>2 DEF Begins

LEMMA StrongerBegins ==
  ASSUME NEW n \in Nat, NEW m \in Nat, n <= m, NEW y, NEW x, Begins(y, x, n, m),
         NEW w, NEW v, Begins(w, v, n, m)
  PROVE  Begins(Stronger(y, w), Stronger(x, v), n, m)
<1> DEFINE val(p, q, i) == IF NaN \in {p[i], q[i]} THEN q[i] ELSE p[i] \cup q[i]
<1>1. /\ Stronger(y, w) = [i \in 1 .. n |-> val(y, w, i)]
      /\ Stronger(x, v) = [i \in 1 .. m |-> val(x, v, i)]
  BY TabulatedIs DEF Stronger, Begins
<1>2. \A i \in 1 .. n : i \in 1 .. m /\ val(y, w, i) = val(x, v, i)
  <2> SUFFICES ASSUME NEW i \in 1 .. n PROVE i \in 1 .. m /\ val(y, w, i) = val(x, v, i)
    OBVIOUS
  <2>1. i \in 1 .. m /\ y[i] = x[i] /\ w[i] = v[i]
    BY DEF Begins
  <2> QED BY Zenon, <2>1
<1> HIDE DEF val
<1> QED BY <1>1, <1>2 DEF Begins

-----------------------------------------------------------------------------
(* Causality of the blocks: each has the same columns for every index, and *)
(* its columns begin with those of the first rows.                         *)
BlockBegins(f, g, n, m) ==
  DOMAIN f = DOMAIN g /\ \A c \in DOMAIN f : Begins(f[c], g[c], n, m)

LEMMA VolatilityBegins ==
  ASSUME NEW n \in Nat, NEW m \in Nat, n <= m, NEW y, NEW x, Begins(y, x, n, m)
  PROVE  BlockBegins(VolatilityBlock(y), VolatilityBlock(x), n, m)
<1> DEFINE atr(z) == Ewm(TrueRange(z), Width.atr)
           ret(z) == Diff(z, 1)
<1>1. Width.atr \in Nat /\ Width.atr_pct \in Nat /\ Width.yz \in Nat /\ Width.vol \in Nat
  BY FeaturesAssumption DEF Windowed
<1>2. Begins(atr(y), atr(x), n, m)
  BY <1>1, TrueRangeBegins, EwmBegins
<1>3. Begins(ret(y), ret(x), n, m)
  BY DiffBegins
<1> HIDE DEF atr, ret
<1>4. Begins(Join(atr(y), y), Join(atr(x), x), n, m)
  BY <1>2, JoinBegins
<1>5. Begins(Rolling(atr(y), Width.atr_pct), Rolling(atr(x), Width.atr_pct), n, m)
  BY <1>1, <1>2, RollingBegins
<1>6. Begins(Join(Rolling(ret(y), Width.yz), Rolling(y, Width.yz)),
             Join(Rolling(ret(x), Width.yz), Rolling(x, Width.yz)), n, m)
  BY <1>1, <1>3, RollingBegins, JoinBegins
<1>7. Begins(Rolling(ret(y), Width.vol), Rolling(ret(x), Width.vol), n, m)
  BY <1>1, <1>3, RollingBegins
<1>8. \A z : VolatilityBlock(z) =
        [vol_atr |-> atr(z), vol_atr_pct_price |-> Join(atr(z), z),
         vol_atr_pct |-> Rolling(atr(z), Width.atr_pct),
         vol_yang_zhang |-> Join(Rolling(ret(z), Width.yz), Rolling(z, Width.yz)),
         vol_realized_vol |-> Rolling(ret(z), Width.vol)]
  BY DEF VolatilityBlock, atr, ret
<1> QED BY <1>2, <1>4, <1>5, <1>6, <1>7, <1>8 DEF BlockBegins

LEMMA TrendMemoryBegins ==
  ASSUME NEW n \in Nat, NEW m \in Nat, n <= m, NEW y, NEW x, Begins(y, x, n, m)
  PROVE  BlockBegins(TrendMemoryBlock(y), TrendMemoryBlock(x), n, m)
<1> DEFINE ker(z) == Join(Diff(z, Width.ker), Rolling(Diff(z, 1), Width.ker))
<1>1. Width.ker \in Nat /\ Width.hurst \in Nat
  BY FeaturesAssumption DEF Windowed
<1>2. Begins(Diff(y, 1), Diff(x, 1), n, m) /\ Begins(Diff(y, Width.ker), Diff(x, Width.ker), n, m)
  BY <1>1, DiffBegins
<1>3. Begins(ker(y), ker(x), n, m)
  BY <1>1, <1>2, RollingBegins, JoinBegins
<1>4. Begins(Rolling(y, Width.hurst), Rolling(x, Width.hurst), n, m)
  BY <1>1, RollingBegins
<1>5. \A z : TrendMemoryBlock(z) = [tm_ker |-> ker(z), tm_hurst |-> Rolling(z, Width.hurst)]
  BY DEF TrendMemoryBlock
<1> HIDE DEF ker
<1> QED BY <1>3, <1>4, <1>5 DEF BlockBegins

(* The columns of a session's rows so far. *)
LEMMA SessionBegins ==
  ASSUME NEW n \in Nat, NEW m \in Nat, n <= m, NEW y, NEW x, Begins(y, x, n, m),
         NEW p, NEW q, Begins(p, q, n, m)
  PROVE  BlockBegins(SessionBlock(y, p), SessionBlock(x, q), n, m)
<1> DEFINE group(d, i) == {j \in 1 .. i - 1 : PrimarySession(d[j]) = PrimarySession(d[i])}
           prior(d, i) == {j \in group(d, i) : Cardinality({k \in group(d, i) : k > j}) < Width.sess}
           val(ret, d, i) == LET seen == Present(ret, prior(d, i))
                             IN IF Cardinality(seen) >= Width.sess_min THEN Gather(ret, seen) ELSE NaN
           baseline(ret, z, d) == [i \in DOMAIN z |-> val(ret, d, i)]
           one(z) == [i \in DOMAIN z |-> {}]
<1>1. \A z, d : SessionBlock(z, d) =
               [sess_is |-> one(z), sess_rel_vol |-> Join(Diff(z, 1), baseline(Diff(z, 1), z, d))]
  BY TabulatedIs DEF SessionBlock
<1>2. Begins(Diff(y, 1), Diff(x, 1), n, m)
  BY DiffBegins
<1>3. ASSUME NEW i \in 1 .. n
      PROVE  i \in 1 .. m /\ val(Diff(y, 1), p, i) = val(Diff(x, 1), q, i)
  <2>1. i \in 1 .. m /\ \A j \in 1 .. i : p[j] = q[j]
    BY DEF Begins
  <2>2. group(p, i) = group(q, i)
    <3>1. i \in 1 .. i /\ \A j \in 1 .. i - 1 : j \in 1 .. i
      OBVIOUS
    <3> QED BY <2>1, <3>1
  <2>3. prior(p, i) = prior(q, i)
    <3> HIDE DEF group
    <3> QED BY <2>2
  <2>4. prior(q, i) \cap (1 .. m) \subseteq 1 .. n
    OBVIOUS
  <2> HIDE DEF group, prior
  <2>5. /\ Present(Diff(y, 1), prior(q, i)) = Present(Diff(x, 1), prior(q, i))
        /\ Gather(Diff(y, 1), Present(Diff(y, 1), prior(q, i)))
             = Gather(Diff(x, 1), Present(Diff(x, 1), prior(q, i)))
    BY <1>2, <2>4, SeenBegins
  <2> QED BY Zenon, <2>1, <2>3, <2>5
<1> HIDE DEF val
<1>4. Begins(baseline(Diff(y, 1), y, p), baseline(Diff(x, 1), x, q), n, m)
  BY <1>3 DEF Begins
<1>5. Begins(one(y), one(x), n, m)
  <2>1. \A i \in 1 .. n : i \in 1 .. m
    OBVIOUS
  <2> QED BY <2>1 DEF Begins
<1> HIDE DEF baseline, one
<1>6. Begins(Join(Diff(y, 1), baseline(Diff(y, 1), y, p)), Join(Diff(x, 1), baseline(Diff(x, 1), x, q)), n, m)
  BY <1>2, <1>4, JoinBegins
<1> QED BY <1>1, <1>5, <1>6 DEF BlockBegins

LaterLags == Tail(Lags)

LEMMA LagsAre == LaterLags \in Seq(1 .. Width.lag) /\ Width.lag \in Nat \ {0} /\ Width.corr \in Nat
<1>1. Width.lag \in Nat \ {0} /\ Width.corr \in Nat
  BY FeaturesAssumption DEF Windowed
<1>2. Lags \in Seq(1 .. Width.lag) /\ Lags # <<>>
  BY <1>1 DEF Lags
<1> QED BY <1>1, <1>2 DEF LaterLags

(* The best lead-lag correlation over initial sets of the longer lags. *)
LeadLags(g, ret, other) ==
  \A s \in SUBSET DOMAIN LaterLags :
    g[s] = IF s = {} THEN Lagged(ret, other, 1)
           ELSE Stronger(g[s \ {Max(s)}], Lagged(ret, other, LaterLags[Max(s)]))

LEMMA LaggedDomain ==
  ASSUME NEW n, NEW ret, NEW other, DOMAIN ret = 1 .. n, DOMAIN other = 1 .. n, NEW k
  PROVE  DOMAIN Lagged(ret, other, k) = 1 .. n
<1>1. DOMAIN Join(ret, Shift(other, k)) = 1 .. n
  BY TabulatedIs DEF Join
<1> QED BY <1>1, TabulatedIs DEF Lagged, Rolling

LEMMA LeadLagIs ==
  ASSUME NEW n \in Nat, NEW ret, NEW other, DOMAIN ret = 1 .. n, DOMAIN other = 1 .. n
  PROVE  \E g : LeadLagBest(ret, other) = g[DOMAIN LaterLags] /\ LeadLags(g, ret, other)
<1> DEFINE D == DOMAIN LaterLags
           T == 1 .. Width.lag
           L(k) == Lagged(ret, other, k)
           U == UNION {L(k)[i] : k \in T, i \in 1 .. n}
           V == [1 .. n -> SUBSET U]
           step == [tv \in T \X V |-> Stronger(tv[2], L(tv[1]))]
           pick == [s \in SUBSET D |-> Max(s)]
           Eqn(g) == g = [s \in SUBSET D |->
                            IF s = {} THEN L(1) ELSE Stronger(g[s \ {Max(s)}], L(LaterLags[Max(s)]))]
<1>1. LaterLags \in Seq(T) /\ 1 \in T
  BY LagsAre
<1>2. ASSUME NEW k \in T PROVE L(k) \in V
  <2>1. \A i \in 1 .. n : L(k)[i] \in SUBSET U
    OBVIOUS
  <2>2. DOMAIN L(k) = 1 .. n
    BY LaggedDomain
  <2>3. L(k) = [i \in 1 .. n |-> L(k)[i]]
    <3>1. L(k) = Tabulated([i \in 1 .. n |-> L(k)[i]])
      <4>1. DOMAIN Join(ret, Shift(other, k)) = 1 .. n
        BY TabulatedIs DEF Join
      <4> QED BY <4>1, TabulatedIs DEF Lagged, Rolling
    <3> QED BY <3>1, TabulatedIs
  <2> HIDE DEF L, U
  <2> QED BY <2>1, <2>3
<1>3. \A v \in V, w \in V : Stronger(v, w) \in V
  <2> HIDE DEF U
  <2> SUFFICES ASSUME NEW v \in V, NEW w \in V PROVE Stronger(v, w) \in V
    OBVIOUS
  <2>1. Stronger(v, w) = [i \in 1 .. n |-> IF NaN \in {v[i], w[i]} THEN w[i] ELSE v[i] \cup w[i]]
    BY TabulatedIs DEF Stronger
  <2>2. \A i \in 1 .. n : v[i] \in SUBSET U /\ w[i] \in SUBSET U
    OBVIOUS
  <2> QED BY <2>1, <2>2
<1> HIDE DEF L, V, T
<1>4. step \in [T \X V -> V]
  BY <1>2, <1>3
<1>5. IsFiniteSet(D) /\ Picks(pick, D) /\ \E g : LeftFoldOf(g, LaterLags, V, L(1), step)
  <2>1. IsFiniteSet(D) /\ Picks(Latest(LaterLags), D) /\ \E g : LeftFoldOf(g, LaterLags, V, L(1), step)
    <3>1. L(1) \in V
      BY <1>1, <1>2
    <3> HIDE DEF step
    <3> QED BY <1>1, <1>4, <3>1, LeftFoldExists, Zenon
  <2> QED BY <2>1 DEF Latest
<1>6. PICK g : LeftFoldOf(g, LaterLags, V, L(1), step)
  BY <1>5, Zenon
<1>7. ASSUME NEW s \in SUBSET D
      PROVE  g[s] = IF s = {} THEN L(1) ELSE Stronger(g[s \ {Max(s)}], L(LaterLags[Max(s)]))
  <2>1. CASE s # {}
    <3>1. Max(s) \in D
      BY <1>5, <2>1 DEF Picks
    <3>2. LaterLags[Max(s)] \in T
      BY <1>1, <3>1
    <3>3. g[s \ {Max(s)}] \in V
      BY <1>6 DEF LeftFoldOf
    <3>4. g[s] = step[<<LaterLags[Max(s)], g[s \ {Max(s)}]>>]
      BY <1>6, <2>1 DEF LeftFoldOf
    <3> QED BY <2>1, <3>2, <3>3, <3>4
  <2>2. CASE s = {}
    BY <1>6, <2>2 DEF LeftFoldOf
  <2> QED BY <2>1, <2>2
<1>8. Eqn(g)
  <2>1. g = [s \in SUBSET D |-> g[s]]
    BY <1>6 DEF LeftFoldOf
  <2> HIDE DEF D
  <2> QED BY <1>7, <2>1
<1>9. Eqn(CHOOSE c : Eqn(c))
  <2> HIDE DEF Eqn
  <2> QED BY <1>8
<1> DEFINE c == CHOOSE c : Eqn(c)
<1>10. LeadLagBest(ret, other) = c[D]
  BY Zenon DEF LeadLagBest, LaterLags, FoldLeft, MapThenFoldSet, L
<1>11. LeadLags(c, ret, other)
  <2>1. Eqn(c)
    BY <1>9
  <2>2. ASSUME NEW s \in SUBSET D
        PROVE  c[s] = IF s = {} THEN L(1) ELSE Stronger(c[s \ {Max(s)}], L(LaterLags[Max(s)]))
    <3> HIDE DEF c
    <3> QED BY <2>1
  <2> HIDE DEF c
  <2> QED BY <2>2 DEF LeadLags, L
<1> QED BY <1>10, <1>11

LEMMA LaggedBegins ==
  ASSUME NEW n \in Nat, NEW m \in Nat, n <= m, NEW y, NEW x, Begins(y, x, n, m),
         NEW w, NEW v, Begins(w, v, n, m), NEW k \in Nat
  PROVE  Begins(Lagged(y, w, k), Lagged(x, v, k), n, m)
  BY LagsAre, ShiftBegins, JoinBegins, RollingBegins DEF Lagged

LEMMA LaterLagsPicked ==
  /\ LaterLags \in Seq(1 .. Width.lag) /\ IsFiniteSet(DOMAIN LaterLags)
  /\ Picks(Latest(LaterLags), DOMAIN LaterLags)
<1>1. LaterLags \in Seq(1 .. Width.lag)
  BY LagsAre
<1> DEFINE step == [tv \in (1 .. Width.lag) \X {0} |-> 0]
<1>2. step \in [(1 .. Width.lag) \X {0} -> {0}] /\ 0 \in {0}
  OBVIOUS
<1> HIDE DEF step
<1> QED BY Zenon, <1>1, <1>2, LeftFoldExists

LEMMA LeadLagBegins ==
  ASSUME NEW n \in Nat, NEW m \in Nat, n <= m, NEW y, NEW x, Begins(y, x, n, m),
         NEW w, NEW v, Begins(w, v, n, m)
  PROVE  Begins(LeadLagBest(y, w), LeadLagBest(x, v), n, m)
<1> DEFINE D == DOMAIN LaterLags
           pick == Latest(LaterLags)
<1>1. PICK g : LeadLagBest(y, w) = g[D] /\ LeadLags(g, y, w)
  BY LeadLagIs DEF Begins
<1>2. PICK h : LeadLagBest(x, v) = h[D] /\ LeadLags(h, x, v)
  BY LeadLagIs DEF Begins
<1>3. IsFiniteSet(D) /\ LaterLags \in Seq(1 .. Width.lag) /\ Picks(pick, D)
  BY LaterLagsPicked
<1> DEFINE Good == {s \in SUBSET D : Begins(g[s], h[s], n, m)}
<1>4. Grows(Good, pick, D)
  <2>1. {} \in Good
    <3>1. Begins(Lagged(y, w, 1), Lagged(x, v, 1), n, m)
      BY LaggedBegins
    <3> QED BY <1>1, <1>2, <3>1 DEF LeadLags
  <2>2. ASSUME NEW s \in SUBSET D, s # {}, s \ {pick[s]} \in Good PROVE s \in Good
    <3>1. Max(s) \in s /\ pick[s] = Max(s)
      BY <1>3, <2>2 DEF Picks, Latest
    <3>2. LaterLags[Max(s)] \in Nat
      BY <1>3, <3>1, LagsAre
    <3> DEFINE k == LaterLags[Max(s)]
               r == s \ {Max(s)}
    <3>3. Begins(Lagged(y, w, k), Lagged(x, v, k), n, m)
      BY <3>2, LaggedBegins
    <3>4. Begins(g[r], h[r], n, m)
      BY <2>2, <3>1
    <3>5. /\ g[s] = Stronger(g[r], Lagged(y, w, k))
          /\ h[s] = Stronger(h[r], Lagged(x, v, k))
      BY <1>1, <1>2, <2>2 DEF LeadLags
    <3> HIDE DEF k, r
    <3>6. Begins(g[s], h[s], n, m)
      BY <3>3, <3>4, <3>5, StrongerBegins
    <3> QED BY <3>6
  <2> QED BY <2>1, <2>2 DEF Grows
<1>5. SUBSET D \subseteq Good
  <2> HIDE DEF Good, pick, D
  <2> QED BY <1>3, <1>4, FoldInduction
<1>6. D \in Good
  BY <1>5
<1> QED BY <1>1, <1>2, <1>6

LEMMA CrossPairBegins ==
  ASSUME NEW n \in Nat, NEW m \in Nat, n <= m, NEW y, NEW x, Begins(y, x, n, m),
         NEW w, NEW v, Begins(w, v, n, m)
  PROVE  BlockBegins(CrossPairBlock(y, w), CrossPairBlock(x, v), n, m)
<1>1. Width.corr \in Nat /\ Width.spread \in Nat
  BY FeaturesAssumption DEF Windowed
<1>2. Begins(Diff(y, 1), Diff(x, 1), n, m) /\ Begins(Diff(w, 1), Diff(v, 1), n, m)
  BY DiffBegins
<1>3. Begins(Join(y, w), Join(x, v), n, m)
  BY JoinBegins
<1>4. Begins(Rolling(Join(Diff(y, 1), Diff(w, 1)), Width.corr),
             Rolling(Join(Diff(x, 1), Diff(v, 1)), Width.corr), n, m)
  BY <1>1, <1>2, JoinBegins, RollingBegins
<1>5. Begins(Join(Join(y, w), Rolling(Join(y, w), Width.spread)),
             Join(Join(x, v), Rolling(Join(x, v), Width.spread)), n, m)
  BY <1>1, <1>3, JoinBegins, RollingBegins
<1>6. Begins(Lagged(Diff(y, 1), Diff(w, 1), 1), Lagged(Diff(x, 1), Diff(v, 1), 1), n, m)
  BY <1>2, LaggedBegins
<1>7. Begins(LeadLagBest(Diff(y, 1), Diff(w, 1)), LeadLagBest(Diff(x, 1), Diff(v, 1)), n, m)
  BY <1>2, LeadLagBegins
<1> DEFINE corr(z, u) == Rolling(Join(Diff(z, 1), Diff(u, 1)), Width.corr)
           spread(z, u) == Join(Join(z, u), Rolling(Join(z, u), Width.spread))
           lead(z, u) == Lagged(Diff(z, 1), Diff(u, 1), 1)
           best(z, u) == LeadLagBest(Diff(z, 1), Diff(u, 1))
<1>8. \A z, u : CrossPairBlock(z, u) =
        [xpair_corr |-> corr(z, u), xpair_spread_z |-> spread(z, u),
         xpair_lead_lag_corr |-> lead(z, u), xpair_lead_lag_best |-> best(z, u)]
  BY DEF CrossPairBlock
<1>9. /\ Begins(corr(y, w), corr(x, v), n, m) /\ Begins(spread(y, w), spread(x, v), n, m)
      /\ Begins(lead(y, w), lead(x, v), n, m) /\ Begins(best(y, w), best(x, v), n, m)
  BY <1>4, <1>5, <1>6, <1>7
<1> HIDE DEF corr, spread, lead, best
<1> QED BY <1>8, <1>9 DEF BlockBegins

LEMMA ConcatBegins ==
  ASSUME NEW n, NEW m, NEW f, NEW g, NEW h, NEW k, BlockBegins(f, g, n, m), BlockBegins(h, k, n, m)
  PROVE  BlockBegins(Concat(f, h), Concat(g, k), n, m)
<1>1. DOMAIN f = DOMAIN g /\ DOMAIN h = DOMAIN k
  BY DEF BlockBegins
<1>2. DOMAIN Concat(f, h) = DOMAIN Concat(g, k)
  BY <1>1 DEF Concat
<1>3. ASSUME NEW c \in DOMAIN Concat(f, h) PROVE Begins(Concat(f, h)[c], Concat(g, k)[c], n, m)
  <2>1. CASE c \in DOMAIN f
    <3>1. Concat(f, h)[c] = f[c] /\ Concat(g, k)[c] = g[c]
      BY <1>1, <2>1 DEF Concat
    <3> QED BY <2>1, <3>1 DEF BlockBegins
  <2>2. CASE c \notin DOMAIN f
    <3>1. c \in DOMAIN h /\ Concat(f, h)[c] = h[c] /\ Concat(g, k)[c] = k[c]
      BY <1>1, <2>2 DEF Concat
    <3> QED BY <3>1 DEF BlockBegins
  <2> QED BY <2>1, <2>2
<1> QED BY <1>2, <1>3 DEF BlockBegins

-----------------------------------------------------------------------------
(* Causality of the feature matrix: db is a leg's bars and cut those up to *)
(* t.                                                                      *)
CutAt(cut, db, t) == DOMAIN cut = {u \in DOMAIN db : u <= t} /\ \A u \in DOMAIN cut : cut[u] = db[u]

LEMMA ColumnBegins ==
  ASSUME NEW leg, NEW db, Stamped(db), NEW t \in Int, NEW cut, CutAt(cut, db, t)
  PROVE  Begins(Column(leg, cut), Column(leg, db), Cardinality(DOMAIN cut), Cardinality(DOMAIN db))
<1> DEFINE n == Cardinality(DOMAIN cut)
           m == Cardinality(DOMAIN db)
<1>1. n <= m /\ \A i \in 1 .. n : Index(cut)[i] = Index(db)[i] /\ Index(cut)[i] \in DOMAIN cut
  BY IndexBegins DEF CutAt
<1>2. DOMAIN Index(cut) = 1 .. n /\ DOMAIN Index(db) = 1 .. m /\ n \in Nat /\ m \in Nat
  <2>1. Stamped(cut)
    BY DEF Stamped, CutAt
  <2> QED BY <2>1, IndexIs
<1>3. /\ Column(leg, cut) = [i \in 1 .. n |-> {<<leg, Index(cut)[i], cut[Index(cut)[i]]>>}]
      /\ Column(leg, db) = [i \in 1 .. m |-> {<<leg, Index(db)[i], db[Index(db)[i]]>>}]
  BY <1>2, TabulatedIs DEF Column, Input
<1> HIDE DEF n, m
<1>4. ASSUME NEW i \in 1 .. n PROVE i \in 1 .. m /\ Column(leg, cut)[i] = Column(leg, db)[i]
  <2>1. i \in 1 .. m
    BY <1>1, <1>2
  <2>2. Index(cut)[i] = Index(db)[i] /\ cut[Index(cut)[i]] = db[Index(db)[i]]
    BY <1>1 DEF CutAt
  <2> QED BY <1>3, <2>1, <2>2
<1>5. DOMAIN Column(leg, cut) = 1 .. n /\ DOMAIN Column(leg, db) = 1 .. m
  BY <1>3
<1> QED BY <1>4, <1>5 DEF Begins, n, m

LEMMA ReindexBegins ==
  ASSUME NEW leg, NEW db, NEW t \in Int, NEW cut, CutAt(cut, db, t),
         NEW n \in Nat, NEW m \in Nat, n <= m, NEW p, NEW q, Begins(p, q, n, m),
         \A i \in 1 .. n : p[i] <= t
  PROVE  Begins(Reindex(leg, cut, p), Reindex(leg, db, q), n, m)
<1> DEFINE val(b, u) == IF u \in DOMAIN b THEN {<<leg, u, b[u]>>} ELSE NaN
<1>1. /\ Reindex(leg, cut, p) = [i \in 1 .. n |-> val(cut, p[i])]
      /\ Reindex(leg, db, q) = [i \in 1 .. m |-> val(db, q[i])]
  BY TabulatedIs DEF Reindex, Input, Begins
<1>2. \A u : u <= t => val(cut, u) = val(db, u)
  <2> SUFFICES ASSUME NEW u, u <= t PROVE val(cut, u) = val(db, u)
    OBVIOUS
  <2>1. CASE u \in DOMAIN cut
    BY <2>1 DEF CutAt
  <2>2. CASE u \notin DOMAIN cut
    BY <2>2 DEF CutAt
  <2> QED BY <2>1, <2>2
<1>3. \A i \in 1 .. n : i \in 1 .. m /\ p[i] = q[i]
  BY DEF Begins
<1> HIDE DEF val
<1> QED BY <1>1, <1>2, <1>3 DEF Begins

BothLegs(legs) == DOMAIN legs = {Legs[1], Legs[2]} /\ \A s \in DOMAIN legs : Stamped(legs[s])

ColumnsOf(legs) ==
  LET index == Index(legs[Legs[1]])
      x == Column(Legs[1], legs[Legs[1]])
  IN Concat(Concat(VolatilityBlock(x), TrendMemoryBlock(x)),
            Concat(SessionBlock(x, index), CrossPairBlock(x, Reindex(Legs[2], legs[Legs[2]], index))))

RowAt(columns, i) == [c \in DOMAIN columns |-> columns[c][i]]
SomeAt(columns, i) == \E c \in DOMAIN columns : columns[c][i] # NaN

(* The matrix by timestamps instead of rows of the index. *)
LEMMA MatrixIs ==
  ASSUME NEW legs, BothLegs(legs)
  PROVE  LET D == DOMAIN legs[Legs[1]]
         IN /\ DOMAIN Matrix(legs) = {t \in D : SomeAt(ColumnsOf(legs), RowOf(D, t))}
            /\ \A t \in DOMAIN Matrix(legs) : Matrix(legs)[t] = RowAt(ColumnsOf(legs), RowOf(D, t))
<1> DEFINE db == legs[Legs[1]]
           D == DOMAIN db
           m == Cardinality(D)
           index == Index(db)
           columns == ColumnsOf(legs)
           kept == {i \in DOMAIN index : SomeAt(columns, i)}
<1>1. Stamped(db)
  BY DEF BothLegs
<1>2. /\ DOMAIN index = 1 .. m
      /\ \A i \in 1 .. m : index[i] \in D /\ RowOf(D, index[i]) = i
      /\ \A t \in D : RowOf(D, t) \in 1 .. m /\ index[RowOf(D, t)] = t
  <2> HIDE DEF db
  <2> QED BY <1>1, IndexIs
<1>3. Matrix(legs) = [t \in {index[i] : i \in kept} |->
                        RowAt(columns, CHOOSE i \in DOMAIN index : index[i] = t)]
  BY TabulatedIs DEF Matrix, FeatureMatrix, ColumnsOf, RowAt, SomeAt
<1> HIDE DEF index, columns, D, m
<1>4. {index[i] : i \in kept} = {t \in D : SomeAt(columns, RowOf(D, t))}
  BY <1>2
<1>5. \A t \in D : (CHOOSE i \in DOMAIN index : index[i] = t) = RowOf(D, t)
  <2> SUFFICES ASSUME NEW t \in D PROVE (CHOOSE i \in DOMAIN index : index[i] = t) = RowOf(D, t)
    OBVIOUS
  <2>1. \A i \in DOMAIN index : index[i] = t => i = RowOf(D, t)
    BY <1>2
  <2>2. RowOf(D, t) \in DOMAIN index /\ index[RowOf(D, t)] = t
    BY <1>2
  <2> QED BY <2>1, <2>2
<1> HIDE DEF kept
<1>6. /\ DOMAIN Matrix(legs) = {t \in D : SomeAt(columns, RowOf(D, t))}
      /\ \A t \in DOMAIN Matrix(legs) : Matrix(legs)[t] = RowAt(columns, RowOf(D, t))
  BY <1>3, <1>4, <1>5
<1> QED BY <1>6 DEF columns, D

LEMMA UpToIs ==
  ASSUME NEW legs, BothLegs(legs), NEW t \in Int
  PROVE  BothLegs(UpTo(legs, t)) /\ \A s \in DOMAIN legs : CutAt(UpTo(legs, t)[s], legs[s], t)
<1>1. \A s \in DOMAIN legs : UpTo(legs, t)[s] = [u \in {v \in DOMAIN legs[s] : v <= t} |-> legs[s][u]]
  BY TabulatedIs DEF UpTo
<1>2. \A s \in DOMAIN legs : CutAt(UpTo(legs, t)[s], legs[s], t)
  BY <1>1 DEF CutAt
<1>3. DOMAIN UpTo(legs, t) = DOMAIN legs
  BY DEF UpTo
<1>4. \A s \in DOMAIN legs : Stamped(UpTo(legs, t)[s])
  BY <1>2 DEF CutAt, Stamped, BothLegs
<1> QED BY <1>2, <1>3, <1>4 DEF BothLegs

LEMMA ColumnsBegin ==
  ASSUME NEW legs, BothLegs(legs), NEW t \in Int
  PROVE  LET cut == UpTo(legs, t)
         IN BlockBegins(ColumnsOf(cut), ColumnsOf(legs),
                        Cardinality(DOMAIN cut[Legs[1]]), Cardinality(DOMAIN legs[Legs[1]]))
<1> DEFINE cut == UpTo(legs, t)
           a == legs[Legs[1]]
           b == legs[Legs[2]]
           ca == cut[Legs[1]]
           cb == cut[Legs[2]]
           n == Cardinality(DOMAIN ca)
           m == Cardinality(DOMAIN a)
<1>1. CutAt(ca, a, t) /\ CutAt(cb, b, t) /\ Stamped(a) /\ Stamped(ca)
  BY UpToIs DEF BothLegs
<1> HIDE DEF cut
<1>2. n \in Nat /\ m \in Nat /\ DOMAIN Index(ca) = 1 .. n /\ DOMAIN Index(a) = 1 .. m
  <2> HIDE DEF a, ca
  <2> QED BY <1>1, IndexIs
<1>3. n <= m /\ \A i \in 1 .. n : Index(ca)[i] = Index(a)[i] /\ Index(ca)[i] <= t
  <2> HIDE DEF a, ca
  <2>1. DOMAIN ca = {u \in DOMAIN a : u <= t}
    BY <1>1 DEF CutAt
  <2>2. n <= m /\ \A i \in 1 .. n : Index(ca)[i] = Index(a)[i] /\ Index(ca)[i] \in DOMAIN ca
    BY <1>1, <2>1, IndexBegins
  <2> QED BY <2>1, <2>2
<1>4. Begins(Column(Legs[1], ca), Column(Legs[1], a), n, m)
  <2> HIDE DEF a, ca
  <2> QED BY <1>1, ColumnBegins
<1> DEFINE p == Index(ca)
           q == Index(a)
           y == Column(Legs[1], ca)
           x == Column(Legs[1], a)
           w == Reindex(Legs[2], cb, p)
           v == Reindex(Legs[2], b, q)
<1>5. Begins(p, q, n, m)
  BY <1>2, <1>3 DEF Begins
<1> HIDE DEF n, m, a, ca, b, cb
<1>6. Begins(w, v, n, m)
  <2> HIDE DEF p, q
  <2>1. \A i \in 1 .. n : p[i] <= t
    BY <1>3 DEF p
  <2> QED BY <1>1, <1>2, <1>3, <1>5, <2>1, ReindexBegins
<1>7. Begins(y, x, n, m)
  BY <1>4
<1>8. ColumnsOf(cut) = Concat(Concat(VolatilityBlock(y), TrendMemoryBlock(y)),
                              Concat(SessionBlock(y, p), CrossPairBlock(y, w)))
  BY DEF ColumnsOf, ca, cb
<1>9. ColumnsOf(legs) = Concat(Concat(VolatilityBlock(x), TrendMemoryBlock(x)),
                               Concat(SessionBlock(x, q), CrossPairBlock(x, v)))
  BY DEF ColumnsOf, a, b
<1> HIDE DEF p, q, y, x, w, v
<1>10. /\ BlockBegins(VolatilityBlock(y), VolatilityBlock(x), n, m)
       /\ BlockBegins(TrendMemoryBlock(y), TrendMemoryBlock(x), n, m)
       /\ BlockBegins(SessionBlock(y, p), SessionBlock(x, q), n, m)
       /\ BlockBegins(CrossPairBlock(y, w), CrossPairBlock(x, v), n, m)
  BY <1>2, <1>3, <1>5, <1>6, <1>7, VolatilityBegins, TrendMemoryBegins, SessionBegins, CrossPairBegins
<1>11. BlockBegins(ColumnsOf(cut), ColumnsOf(legs), n, m)
  BY <1>8, <1>9, <1>10, ConcatBegins
<1> QED BY <1>11 DEF n, m, cut, a, ca

(* Bars after t change neither whether t has a row nor the row. *)
LEMMA MatrixIsCausal ==
  ASSUME NEW legs, BothLegs(legs), NEW t \in Int
  PROVE  /\ t \in DOMAIN Matrix(legs) <=> t \in DOMAIN Matrix(UpTo(legs, t))
         /\ t \in DOMAIN Matrix(legs) => Matrix(legs)[t] = Matrix(UpTo(legs, t))[t]
<1> DEFINE cut == UpTo(legs, t)
           D == DOMAIN legs[Legs[1]]
           C == DOMAIN cut[Legs[1]]
           n == RowOf(D, t)
<1>1. BothLegs(cut) /\ C = {u \in D : u <= t} /\ Stamped(legs[Legs[1]])
  <2>1. BothLegs(cut) /\ CutAt(cut[Legs[1]], legs[Legs[1]], t) /\ Stamped(legs[Legs[1]])
    BY UpToIs DEF BothLegs
  <2> QED BY <2>1 DEF CutAt
<1>2. t \in D <=> t \in C
  BY <1>1
<1> HIDE DEF cut
<1>3. /\ DOMAIN Matrix(legs) = {u \in D : SomeAt(ColumnsOf(legs), RowOf(D, u))}
      /\ \A u \in DOMAIN Matrix(legs) : Matrix(legs)[u] = RowAt(ColumnsOf(legs), RowOf(D, u))
      /\ DOMAIN Matrix(cut) = {u \in C : SomeAt(ColumnsOf(cut), RowOf(C, u))}
      /\ \A u \in DOMAIN Matrix(cut) : Matrix(cut)[u] = RowAt(ColumnsOf(cut), RowOf(C, u))
  BY <1>1, MatrixIs
<1>4. RowOf(C, t) = n /\ Cardinality(C) = n
  <2>1. {u \in C : u <= t} = {u \in D : u <= t}
    BY <1>1
  <2> QED BY <1>1, <2>1 DEF RowOf
<1>5. BlockBegins(ColumnsOf(cut), ColumnsOf(legs), n, Cardinality(D))
  BY <1>4, ColumnsBegin DEF cut
<1> HIDE DEF C, D
<1>6. ASSUME t \in D
      PROVE  /\ SomeAt(ColumnsOf(legs), n) <=> SomeAt(ColumnsOf(cut), n)
             /\ RowAt(ColumnsOf(legs), n) = RowAt(ColumnsOf(cut), n)
  <2>1. n \in 1 .. Cardinality(D) /\ Cardinality(D) \in Nat
    BY <1>1, <1>6, IndexIs DEF D
  <2>2. n \in 1 .. n
    BY <2>1
  <2> HIDE DEF n
  <2>3. DOMAIN ColumnsOf(legs) = DOMAIN ColumnsOf(cut)
    BY <1>5 DEF BlockBegins
  <2>4. \A c \in DOMAIN ColumnsOf(cut) : ColumnsOf(cut)[c][n] = ColumnsOf(legs)[c][n]
    BY <1>5, <2>2 DEF BlockBegins, Begins
  <2> QED BY <2>3, <2>4 DEF SomeAt, RowAt
<1> HIDE DEF n
<1>7. t \in DOMAIN Matrix(legs) <=> t \in D /\ SomeAt(ColumnsOf(legs), n)
  BY <1>3 DEF n
<1>8. t \in DOMAIN Matrix(cut) <=> t \in C /\ SomeAt(ColumnsOf(cut), n)
  BY <1>3, <1>4
<1>9. t \in DOMAIN Matrix(legs) => Matrix(legs)[t] = RowAt(ColumnsOf(legs), n)
  BY <1>3 DEF n
<1>10. t \in DOMAIN Matrix(cut) => Matrix(cut)[t] = RowAt(ColumnsOf(cut), n)
  BY <1>3, <1>4
<1> QED BY <1>2, <1>6, <1>7, <1>8, <1>9, <1>10 DEF cut

-----------------------------------------------------------------------------
(* The stored features.                                                    *)

(* Bars as the market database has them. *)
Dated(f) == DOMAIN f \subseteq 0 .. LastNow /\ \A t \in DOMAIN f : f[t] \in {"forming", "closed"}

(* The row b was built from is in some build's matrix. *)
Built(b, t, row) ==
  \E legs : /\ BothLegs(legs) /\ b = UpTo(legs, t)
            /\ t \in DOMAIN Matrix(legs) /\ row = Matrix(legs)[t]
            /\ \A s \in DOMAIN legs : Dated(legs[s])

DInv ==
  /\ \A s \in Symbols : Dated(bars[s])
  /\ run.pc = "store" => Dated(run.df)
  /\ build = Idle \/ Dated(build.bars)
  /\ \A t \in DOMAIN features : t \in DOMAIN basis /\ Built(basis[t], t, features[t])

LEMMA DInit == Init => DInv
  BY IngestionAssumption DEF Init, DInv, Dated, None, Idle

LEMMA RatesDated ==
  ASSUME NEW s \in Symbols, NEW start, NEW end PROVE Dated(Rates(s, start, end))
<1>1. DOMAIN Rates(s, start, end) \subseteq Available[s]
  BY DEF Rates
<1>2. Available[s] \subseteq 0 .. LastNow
  BY IngestionAssumption
<1>3. \A t \in DOMAIN Rates(s, start, end) : Rates(s, start, end)[t] \in {"forming", "closed"}
  BY DEF Rates
<1> QED BY <1>1, <1>2, <1>3 DEF Dated

LEMMA UpsertDated ==
  ASSUME NEW df, NEW old, Dated(df), Dated(old) PROVE Dated(Upserted(df, old))
  BY DEF Dated, Upserted

(* A build stores the rows of its matrix over the others. *)
LEMMA BuildKeepsDInv == RInv /\ DInv /\ StoreFeatures => DInv'
<1> SUFFICES ASSUME RInv, DInv, StoreFeatures PROVE DInv'
  OBVIOUS
<1> DEFINE legs == [s \in {Legs[1], Legs[2]} |-> IF s = Legs[1] THEN build.bars ELSE bars[s]]
           matrix == Matrix(legs)
           cuts == [t \in DOMAIN matrix |-> UpTo(legs, t)]
<1>1. /\ features' = Upserted(matrix, features) /\ basis' = Upserted(cuts, basis)
      /\ build' = Idle /\ UNCHANGED <<run, bars>> /\ build # Idle
  BY DEF StoreFeatures
<1>2. BothLegs(legs) /\ \A s \in DOMAIN legs : Dated(legs[s])
  <2>1. Dated(build.bars) /\ Dated(bars[Legs[2]])
    BY <1>1, IngestionAssumption DEF DInv
  <2>2. \A s \in {Legs[1], Legs[2]} : Dated(legs[s])
    BY <2>1
  <2>3. LastNow \in Nat
    BY IngestionAssumption
  <2>4. DOMAIN legs = {Legs[1], Legs[2]}
    OBVIOUS
  <2> HIDE DEF legs
  <2> QED BY <2>2, <2>3, <2>4 DEF BothLegs, Stamped, Dated
<1> HIDE DEF legs
<1>3. ASSUME NEW t \in DOMAIN features' PROVE t \in DOMAIN basis' /\ Built(basis'[t], t, features'[t])
  <2>1. CASE t \in DOMAIN matrix
    <3>1. t \in DOMAIN basis' /\ basis'[t] = UpTo(legs, t) /\ features'[t] = matrix[t]
      BY <1>1, <2>1 DEF Upserted
    <3> QED BY <1>2, <2>1, <3>1 DEF Built
  <2>2. CASE t \notin DOMAIN matrix
    <3>1. t \in DOMAIN features /\ features'[t] = features[t]
      BY <1>1, <1>3, <2>2 DEF Upserted
    <3>2. t \in DOMAIN basis /\ Built(basis[t], t, features[t])
      BY <3>1 DEF DInv
    <3>3. t \in DOMAIN basis' /\ basis'[t] = basis[t]
      BY <1>1, <2>2, <3>2 DEF Upserted
    <3> QED BY <3>1, <3>2, <3>3
  <2> QED BY <2>1, <2>2
<1> HIDE DEF matrix, cuts
<1> QED BY <1>1, <1>3 DEF DInv

LEMMA StepKeepsDInv == RInv /\ DInv /\ [Next]_vars => DInv'
<1> SUFFICES ASSUME RInv, DInv, [Next]_vars PROVE DInv'
  OBVIOUS
<1>1. CASE StoreFeatures
  BY <1>1, BuildKeepsDInv
<1>2. CASE Advance \/ DropSession \/ UNCHANGED vars
  <2>1. UNCHANGED <<run, bars, build, features, basis>>
    BY <1>2 DEF Advance, DropSession, vars, store
  <2> QED BY <2>1 DEF DInv
<1>3. CASE LoadBars
  <2>1. UNCHANGED <<run, bars, features, basis>> /\ build' = [pc |-> "loaded", bars |-> bars[Legs[1]]]
    BY <1>3 DEF LoadBars, store
  <2>2. Dated(bars[Legs[1]])
    BY IngestionAssumption DEF DInv
  <2> QED BY <2>1, <2>2 DEF DInv
<1>4. ASSUME NEW w \in Windows, NEW with_ticks \in BOOLEAN, StartRun(w, with_ticks) PROVE DInv'
  <2>1. UNCHANGED <<bars, build, features, basis>>
    BY <1>4 DEF StartRun, store
  <2>2. run' = run \/ run'.pc # "store"
    BY <1>4 DEF StartRun
  <2> QED BY <2>1, <2>2 DEF DInv
<1>5. ASSUME NEW w \in Windows, NEW s \in Symbols, Backfill(s, w) PROVE DInv'
  <2>1. UNCHANGED <<run, build, features, basis>>
    BY <1>5 DEF Backfill
  <2>2. bars' = bars \/ bars' = [bars EXCEPT ![s] = Upserted(Rates(s, w[1], w[2]), bars[s])]
    BY <1>5 DEF Backfill
  <2>3. Dated(Upserted(Rates(s, w[1], w[2]), bars[s]))
    BY RatesDated, UpsertDated DEF DInv
  <2>4. \A u \in Symbols : Dated(bars'[u])
    BY <2>2, <2>3 DEF DInv, RInv
  <2> QED BY <2>1, <2>4 DEF DInv
<1>6. CASE Raise
  BY <1>6 DEF Raise, DInv, Idle, store
<1>7. CASE FetchBars /\ ~ Raise
  <2>1. run.pc = "fetch" /\ run.k \in 1 .. Len(Pairs) /\ UNCHANGED <<bars, build, features, basis>>
    BY <1>7 DEF FetchBars, store, RInv, Owed
  <2>2. run'.df = Rates(Pairs[run.k], run.start, run.end)
    <3> DEFINE df == IF session THEN Rates(Pairs[run.k], run.start, run.end) ELSE NaN
    <3>1. df # NaN /\ run' = [pc |-> "store", k |-> run.k, start |-> run.start, end |-> run.end,
                              ticks |-> run.ticks, since |-> run.since, df |-> df]
      BY <1>7 DEF FetchBars, Checked
    <3> HIDE DEF df
    <3>2. run'.df = df
      BY <3>1
    <3> QED BY <3>1, <3>2 DEF df
  <2>3. Dated(run'.df)
    BY <2>1, <2>2, RatesDated, PairsAreSymbols
  <2> QED BY <2>1, <2>3 DEF DInv
<1>8. CASE StoreBars
  <2> DEFINE pair == Pairs[run.k]
  <2>1. /\ run.pc = "store" /\ UNCHANGED <<build, features, basis>> /\ run.k \in 1 .. Len(Pairs)
        /\ bars' = [bars EXCEPT ![pair] = Upserted(run.df, bars[pair])]
    BY <1>8 DEF StoreBars, RInv, Owed
  <2>2. run'.pc # "store"
    BY <1>8 DEF StoreBars, Proceed, Idle
  <2>3. pair \in Symbols
    BY <2>1, PairsAreSymbols
  <2>4. Dated(Upserted(run.df, bars[pair]))
    BY <2>1, <2>3, UpsertDated DEF DInv
  <2>5. \A u \in Symbols : Dated(bars'[u])
    <3> HIDE DEF pair
    <3> QED BY <2>1, <2>3, <2>4 DEF DInv, RInv
  <2> QED BY <2>1, <2>2, <2>5 DEF DInv
<1>9. CASE FetchTicks /\ ~ Raise
  <2>1. PICK c, fs : run' = [run EXCEPT !.cursor = c, !.frames = fs]
    BY <1>9 DEF FetchTicks
  <2>2. run.pc = "ticks" /\ UNCHANGED <<bars, build, features, basis>>
    BY <1>9 DEF FetchTicks, store
  <2>3. run'.pc = run.pc
    BY <2>1
  <2> QED BY <2>2, <2>3 DEF DInv
<1>10. CASE StoreTicks /\ ~ Raise
  <2>1. Proceed /\ UNCHANGED <<bars, build, features, basis>>
    BY <1>10 DEF StoreTicks, store
  <2>2. run'.pc # "store"
    BY <2>1 DEF Proceed, Idle
  <2> QED BY <2>1, <2>2 DEF DInv
<1> QED BY <1>1, <1>2, <1>3, <1>4, <1>5, <1>6, <1>7, <1>8, <1>9, <1>10 DEF Next, Step

(* Two states of the bars that agree up to t give t the same row. *)
LEMMA SettledRow ==
  ASSUME NEW legs, BothLegs(legs), NEW t, NEW row, Built(UpTo(legs, t), t, row)
  PROVE  t \in DOMAIN Matrix(legs) /\ row = Matrix(legs)[t]
<1>1. PICK old : /\ BothLegs(old) /\ UpTo(legs, t) = UpTo(old, t)
                 /\ t \in DOMAIN Matrix(old) /\ row = Matrix(old)[t]
  BY DEF Built
<1>2. t \in Int
  <2>1. t \in DOMAIN old[Legs[1]]
    BY <1>1, MatrixIs
  <2>2. Stamped(old[Legs[1]])
    BY <1>1 DEF BothLegs
  <2> QED BY <2>1, <2>2 DEF Stamped
<1>3. t \in DOMAIN Matrix(UpTo(old, t)) /\ row = Matrix(UpTo(old, t))[t]
  BY <1>1, <1>2, MatrixIsCausal
<1>4. t \in DOMAIN Matrix(UpTo(legs, t)) /\ row = Matrix(UpTo(legs, t))[t]
  BY <1>1, <1>3
<1> QED BY <1>2, <1>4, MatrixIsCausal

LEMMA DInvSettles == DInv => RowsSettle
<1> SUFFICES ASSUME DInv PROVE RowsSettle
  OBVIOUS
<1> DEFINE legs == [s \in {Legs[1], Legs[2]} |-> bars[s]]
<1>1. BothLegs(legs)
  BY IngestionAssumption DEF DInv, BothLegs, Stamped, Dated
<1> HIDE DEF legs
<1>2. ASSUME NEW t \in DOMAIN features, basis[t] = UpTo(legs, t)
      PROVE  t \in DOMAIN Matrix(legs) /\ features[t] = Matrix(legs)[t]
  <2>1. Built(UpTo(legs, t), t, features[t])
    BY <1>2 DEF DInv
  <2> QED BY <1>1, <2>1, SettledRow
<1> QED BY <1>2 DEF RowsSettle, legs

(* FeaturePipeline.compute is point-in-time: a stored row is the one a     *)
(* build would compute now unless a bar at or before it was stored since,  *)
(* for every window and every history of runs, revisions and builds.       *)
THEOREM StoredRowsSettle == Spec => []RowsSettle
<1>1. DInv /\ RInv /\ [Next]_vars => DInv'
  BY StepKeepsDInv
<1> QED BY DInit, <1>1, DInvSettles, RunsOwe, PTL DEF Spec


-----------------------------------------------------------------------------
(* Warm-up.  What a value can be computed from. *)
Inputs == Symbols \X (0 .. LastNow) \X {"forming", "closed"}

(* NaN marks the absence of a value: no set of bars is taken for it. *)
NaNIsNoValue == NaN \notin SUBSET Inputs

(* The n rows of x have a value from row m on. *)
Solid(x, n, m) ==
  /\ DOMAIN x = 1 .. n
  /\ \A i \in 1 .. n : x[i] = NaN \/ x[i] \in SUBSET Inputs
  /\ \A i \in 1 .. n : i >= m => x[i] \in SUBSET Inputs

LEMMA SolidLater ==
  ASSUME NEW n \in Nat, NEW m \in Nat, NEW x, Solid(x, n, m), NEW k \in Nat, m <= k
  PROVE  Solid(x, n, k)
<1>1. \A i \in 1 .. n : i >= k => i >= m
  OBVIOUS
<1> QED BY <1>1 DEF Solid

LEMMA ShiftSolid ==
  ASSUME NEW n \in Nat, NEW m \in Nat \ {0}, NEW x, Solid(x, n, m), NEW k \in Nat
  PROVE  Solid(Shift(x, k), n, m + k)
<1>1. Shift(x, k) = [i \in 1 .. n |-> IF i - k \in 1 .. n THEN x[i - k] ELSE NaN]
  BY TabulatedIs DEF Shift, Solid
<1>2. \A i \in 1 .. n : i >= m + k => i - k \in 1 .. n /\ i - k >= m
  OBVIOUS
<1> HIDE DEF Inputs
<1> QED BY <1>1, <1>2 DEF Solid

LEMMA JoinSolid ==
  ASSUME NaNIsNoValue, NEW n \in Nat, NEW m \in Nat, NEW x, Solid(x, n, m), NEW y, Solid(y, n, m)
  PROVE  Solid(Join(x, y), n, m)
<1> DEFINE val(i) == IF NaN \in {x[i], y[i]} THEN NaN ELSE x[i] \cup y[i]
<1>1. Join(x, y) = [i \in 1 .. n |-> val(i)]
  BY TabulatedIs DEF Join, Solid
<1>2. \A i \in 1 .. n : val(i) = NaN \/ val(i) \in SUBSET Inputs
  <2> SUFFICES ASSUME NEW i \in 1 .. n PROVE val(i) = NaN \/ val(i) \in SUBSET Inputs
    OBVIOUS
  <2>1. (x[i] = NaN \/ x[i] \in SUBSET Inputs) /\ (y[i] = NaN \/ y[i] \in SUBSET Inputs)
    BY DEF Solid
  <2> QED BY <2>1
<1>3. \A i \in 1 .. n : i >= m => val(i) \in SUBSET Inputs
  <2> SUFFICES ASSUME NEW i \in 1 .. n, i >= m PROVE val(i) \in SUBSET Inputs
    OBVIOUS
  <2>1. x[i] \in SUBSET Inputs /\ y[i] \in SUBSET Inputs
    BY DEF Solid
  <2>2. x[i] # NaN /\ y[i] # NaN
    BY <2>1 DEF NaNIsNoValue
  <2> QED BY <2>1, <2>2
<1> HIDE DEF val
<1> QED BY <1>1, <1>2, <1>3 DEF Solid

LEMMA DiffSolid ==
  ASSUME NaNIsNoValue, NEW n \in Nat, NEW m \in Nat \ {0}, NEW x, Solid(x, n, m), NEW k \in Nat
  PROVE  Solid(Diff(x, k), n, m + k)
<1>1. Solid(Shift(x, k), n, m + k)
  BY ShiftSolid
<1>2. Solid(x, n, m + k)
  BY SolidLater
<1> QED BY <1>1, <1>2, JoinSolid DEF Diff

(* A window in which every row has a value. *)
LEMMA WindowSolid ==
  ASSUME NaNIsNoValue, NEW n \in Nat, NEW x, Solid(x, n, n + 1), NEW rows, NEW w \in Nat
  PROVE  LET seen == Present(x, rows)
             val == IF Cardinality(seen) >= w THEN Gather(x, seen) ELSE NaN
         IN /\ val = NaN \/ val \in SUBSET Inputs
            /\ \A a \in Nat \ {0}, b \in 1 .. n :
                 /\ b - a + 1 >= w /\ a .. b \subseteq rows
                 /\ \A i \in a .. b : x[i] \in SUBSET Inputs
                 => val \in SUBSET Inputs
<1> DEFINE seen == Present(x, rows)
           val == IF Cardinality(seen) >= w THEN Gather(x, seen) ELSE NaN
<1>1. seen \subseteq 1 .. n /\ \A i \in seen : x[i] \in SUBSET Inputs
  BY DEF Present, Solid
<1>2. Gather(x, seen) \in SUBSET Inputs
  <2> HIDE DEF seen
  <2> QED BY <1>1 DEF Gather
<1>3. ASSUME NEW a \in Nat \ {0}, NEW b \in 1 .. n, b - a + 1 >= w, a .. b \subseteq rows,
             \A i \in a .. b : x[i] \in SUBSET Inputs
      PROVE  Cardinality(seen) >= w
  <2>1. a .. b \subseteq seen
    <3>1. \A i \in a .. b : i \in 1 .. n /\ x[i] # NaN
      BY <1>3 DEF NaNIsNoValue
    <3> QED BY <1>3, <3>1 DEF Present, Solid
  <2>2. IsFiniteSet(seen) /\ Cardinality(seen) \in Nat
    <3>1. seen \in SUBSET (0 .. n)
      BY <1>1
    <3> HIDE DEF seen
    <3> QED BY <3>1, Counted
  <2>3. a .. b = {} \/ Cardinality(a .. b) = b - a + 1
    BY FS_Interval
  <2>4. Cardinality(a .. b) <= Cardinality(seen)
    <3> HIDE DEF seen
    <3> QED BY <2>1, <2>2, FS_Subset
  <2>5. CASE b >= a
    <3>1. a .. b # {}
      BY <2>5
    <3> HIDE DEF seen
    <3> QED BY <1>3, <2>2, <2>3, <2>4, <3>1
  <2>6. CASE ~ (b >= a)
    <3>1. w = 0
      BY <1>3, <2>6
    <3> HIDE DEF seen
    <3> QED BY <2>2, <3>1
  <2> QED BY <2>5, <2>6
<1>4. val = NaN \/ val \in SUBSET Inputs
  <2> HIDE DEF seen
  <2> QED BY <1>2
<1>5. \A a \in Nat \ {0}, b \in 1 .. n :
        /\ b - a + 1 >= w /\ a .. b \subseteq rows
        /\ \A i \in a .. b : x[i] \in SUBSET Inputs
        => val \in SUBSET Inputs
  <2> HIDE DEF seen
  <2> QED BY <1>2, <1>3
<1> QED BY <1>4, <1>5

LEMMA RollingSolid ==
  ASSUME NaNIsNoValue, NEW n \in Nat, NEW m \in Nat \ {0}, NEW x, Solid(x, n, m), NEW w \in Nat \ {0}
  PROVE  Solid(Rolling(x, w), n, m + w - 1)
<1> DEFINE val(i) == LET seen == Present(x, i - w + 1 .. i)
                     IN IF Cardinality(seen) >= w THEN Gather(x, seen) ELSE NaN
<1>1. Rolling(x, w) = [i \in 1 .. n |-> val(i)]
  BY TabulatedIs DEF Rolling, Solid
<1>2. Solid(x, n, n + 1)
  BY DEF Solid
<1>3. \A i \in 1 .. n : val(i) = NaN \/ val(i) \in SUBSET Inputs
  BY <1>2, WindowSolid
<1>4. ASSUME NEW i \in 1 .. n, i >= m + w - 1 PROVE val(i) \in SUBSET Inputs
  <2> DEFINE a == i - w + 1
  <2>1. a \in Nat \ {0} /\ a >= m /\ i - a + 1 >= w /\ a .. i \subseteq a .. i
    BY <1>4
  <2>2. \A j \in a .. i : x[j] \in SUBSET Inputs
    <3>1. \A j \in a .. i : j \in 1 .. n /\ j >= m
      BY <2>1
    <3> QED BY <3>1 DEF Solid
  <2> HIDE DEF a
  <2> DEFINE rows == a .. i
             seen == Present(x, rows)
             here == IF Cardinality(seen) >= w THEN Gather(x, seen) ELSE NaN
  <2>3. \A p \in Nat \ {0}, b \in 1 .. n :
          /\ b - p + 1 >= w /\ p .. b \subseteq rows
          /\ \A j \in p .. b : x[j] \in SUBSET Inputs
          => here \in SUBSET Inputs
    <3>1. w \in Nat
      OBVIOUS
    <3> HIDE DEF rows
    <3> QED BY <1>2, <3>1, WindowSolid
  <2> HIDE DEF here
  <2>4. here \in SUBSET Inputs
    BY <2>1, <2>2, <2>3
  <2> QED BY <2>4 DEF a, here
<1> HIDE DEF val
<1> QED BY <1>1, <1>3, <1>4 DEF Solid

LEMMA EwmSolid ==
  ASSUME NaNIsNoValue, NEW n \in Nat, NEW x, Solid(x, n, 1), NEW w \in Nat \ {0}
  PROVE  Solid(Ewm(x, w), n, w)
<1> DEFINE val(i) == LET seen == Present(x, 1 .. i)
                     IN IF Cardinality(seen) >= w THEN Gather(x, seen) ELSE NaN
<1>1. Ewm(x, w) = [i \in 1 .. n |-> val(i)]
  BY TabulatedIs DEF Ewm, Solid
<1>2. Solid(x, n, n + 1)
  BY DEF Solid
<1>3. \A i \in 1 .. n : val(i) = NaN \/ val(i) \in SUBSET Inputs
  BY <1>2, WindowSolid
<1>4. ASSUME NEW i \in 1 .. n, i >= w PROVE val(i) \in SUBSET Inputs
  <2>1. i - 1 + 1 >= w /\ 1 .. i \subseteq 1 .. i /\ 1 \in Nat \ {0}
    BY <1>4
  <2>2. \A j \in 1 .. i : x[j] \in SUBSET Inputs
    BY DEF Solid
  <2> QED BY <1>2, <2>1, <2>2, WindowSolid
<1> HIDE DEF val
<1> QED BY <1>1, <1>3, <1>4 DEF Solid

LEMMA TrueRangeSolid ==
  ASSUME NEW n \in Nat, NEW x, Solid(x, n, 1)
  PROVE  Solid(TrueRange(x), n, 1)
<1>1. TrueRange(x) = [i \in 1 .. n |-> IF i = 1 THEN x[1] ELSE x[i] \cup x[i - 1]]
  BY DEF TrueRange, Solid
<1>2. ASSUME NEW i \in 1 .. n PROVE TrueRange(x)[i] \in SUBSET Inputs
  <2>1. x[i] \in SUBSET Inputs
    BY DEF Solid
  <2>2. i # 1 => x[i - 1] \in SUBSET Inputs
    <3>1. i # 1 => i - 1 \in 1 .. n /\ i - 1 >= 1
      OBVIOUS
    <3> QED BY <3>1 DEF Solid
  <2> QED BY <1>1, <2>1, <2>2
<1>3. DOMAIN TrueRange(x) = 1 .. n
  BY <1>1
<1> QED BY <1>2, <1>3 DEF Solid

LEMMA StrongerSolid ==
  ASSUME NEW n \in Nat, NEW m \in Nat, NEW x, Solid(x, n, m), NEW y, Solid(y, n, m)
  PROVE  Solid(Stronger(x, y), n, m)
<1> DEFINE val(i) == IF NaN \in {x[i], y[i]} THEN y[i] ELSE x[i] \cup y[i]
<1>1. Stronger(x, y) = [i \in 1 .. n |-> val(i)]
  BY TabulatedIs DEF Stronger, Solid
<1>2. ASSUME NEW i \in 1 .. n
      PROVE  /\ val(i) = NaN \/ val(i) \in SUBSET Inputs
             /\ i >= m => val(i) \in SUBSET Inputs
  <2>1. /\ x[i] = NaN \/ x[i] \in SUBSET Inputs
        /\ y[i] = NaN \/ y[i] \in SUBSET Inputs
        /\ i >= m => y[i] \in SUBSET Inputs
    BY DEF Solid
  <2>2. CASE NaN \in {x[i], y[i]}
    BY <2>1, <2>2
  <2>3. CASE NaN \notin {x[i], y[i]}
    BY <2>1, <2>3
  <2> QED BY <2>2, <2>3
<1> HIDE DEF val
<1> QED BY <1>1, <1>2 DEF Solid

LEMMA SolidLast ==
  ASSUME NaNIsNoValue, NEW n \in Nat \ {0}, NEW m \in Nat, m <= n, NEW x, Solid(x, n, m)
  PROVE  x[n] # NaN
<1>1. n \in 1 .. n /\ n >= m
  OBVIOUS
<1> QED BY <1>1 DEF Solid, NaNIsNoValue

LEMMA WidthsAre == \A w \in Windowed : Width[w] \in Nat \ {0}
  BY FeaturesAssumption

LEMMA HorizonIs ==
  /\ Horizon \in Nat \ {0}
  /\ Width.atr + Width.atr_pct - 1 <= Horizon /\ Width.yz + 1 <= Horizon /\ Width.vol + 1 <= Horizon
  /\ Width.ker + 1 <= Horizon /\ Width.hurst <= Horizon
  /\ Width.corr + 1 + Width.lag <= Horizon /\ Width.spread <= Horizon
<1> DEFINE a == Width.atr + Width.atr_pct - 1
           b == Width.yz + 1
           c == Width.vol + 1
           d == Width.ker + 1
           e == Width.hurst
           f == Width.corr + 1 + Width.lag
           g == Width.spread
           S == {a, b, c, d, e, f, g}
           N == a + b + c + d + e + f + g
<1>1. /\ a \in Nat \ {0} /\ b \in Nat \ {0} /\ c \in Nat \ {0} /\ d \in Nat \ {0}
      /\ e \in Nat \ {0} /\ f \in Nat \ {0} /\ g \in Nat \ {0}
  BY WidthsAre DEF Windowed
<1>2. Horizon = Max(S)
  BY DEF Horizon
<1> HIDE DEF a, b, c, d, e, f, g
<1>3. S \in SUBSET (0 .. N) /\ N \in Nat /\ S # {}
  BY <1>1
<1> HIDE DEF N
<1>4. Max(S) \in S /\ \A y \in S : Max(S) >= y
  <2> HIDE DEF S
  <2> QED BY <1>3, MaxIs
<1>5. Horizon \in Nat \ {0} /\ \A y \in S : y <= Horizon
  BY <1>1, <1>2, <1>4
<1> QED BY <1>5 DEF a, b, c, d, e, f, g

-----------------------------------------------------------------------------
(* The columns that look back over a window have a value in the last row.  *)
BlockSolid(f, n) == \A c \in DOMAIN f \ {"sess_rel_vol"} : f[c][n] # NaN

LEMMA VolatilitySolid ==
  ASSUME NaNIsNoValue, NEW n \in Nat \ {0}, n >= Horizon, NEW x, Solid(x, n, 1)
  PROVE  BlockSolid(VolatilityBlock(x), n)
<1> DEFINE atr == Ewm(TrueRange(x), Width.atr)
           ret == Diff(x, 1)
<1>1. /\ Width.atr \in Nat \ {0} /\ Width.atr_pct \in Nat \ {0}
      /\ Width.yz \in Nat \ {0} /\ Width.vol \in Nat \ {0}
  BY WidthsAre DEF Windowed
<1>2. Solid(atr, n, Width.atr)
  BY <1>1, TrueRangeSolid, EwmSolid
<1>3. Solid(ret, n, 2)
  <2>1. Solid(ret, n, 1 + 1)
    BY DiffSolid
  <2> QED BY <2>1
<1> HIDE DEF atr, ret
<1>4. Solid(Join(atr, x), n, Width.atr)
  BY <1>1, <1>2, SolidLater, JoinSolid
<1>5. Solid(Rolling(atr, Width.atr_pct), n, Width.atr + Width.atr_pct - 1)
  BY <1>1, <1>2, RollingSolid
<1>6. Solid(Join(Rolling(ret, Width.yz), Rolling(x, Width.yz)), n, Width.yz + 1)
  <2>1. Solid(Rolling(ret, Width.yz), n, 2 + Width.yz - 1)
    BY <1>1, <1>3, RollingSolid
  <2>2. Solid(Rolling(x, Width.yz), n, 1 + Width.yz - 1)
    BY <1>1, RollingSolid
  <2>3. 2 + Width.yz - 1 = Width.yz + 1 /\ 1 + Width.yz - 1 = Width.yz
    BY <1>1
  <2>4. Solid(Rolling(x, Width.yz), n, Width.yz + 1)
    BY <1>1, <2>2, <2>3, SolidLater
  <2> QED BY <1>1, <2>1, <2>3, <2>4, JoinSolid
<1>7. Solid(Rolling(ret, Width.vol), n, 2 + Width.vol - 1)
  BY <1>1, <1>3, RollingSolid
<1>8. /\ Width.atr <= n /\ Width.atr + Width.atr_pct - 1 <= n /\ Width.yz + 1 <= n
      /\ 2 + Width.vol - 1 <= n
  BY <1>1, HorizonIs
<1>9. /\ atr[n] # NaN /\ Join(atr, x)[n] # NaN /\ Rolling(atr, Width.atr_pct)[n] # NaN
      /\ Join(Rolling(ret, Width.yz), Rolling(x, Width.yz))[n] # NaN
      /\ Rolling(ret, Width.vol)[n] # NaN
  <2>1. /\ Width.atr \in Nat /\ Width.atr + Width.atr_pct - 1 \in Nat /\ Width.yz + 1 \in Nat
        /\ 2 + Width.vol - 1 \in Nat
    BY <1>1
  <2> QED BY <1>2, <1>4, <1>5, <1>6, <1>7, <1>8, <2>1, SolidLast
<1> DEFINE p == Join(atr, x)
           q == Rolling(atr, Width.atr_pct)
           y == Join(Rolling(ret, Width.yz), Rolling(x, Width.yz))
           v == Rolling(ret, Width.vol)
<1>10. VolatilityBlock(x) = [vol_atr |-> atr, vol_atr_pct_price |-> p, vol_atr_pct |-> q,
                             vol_yang_zhang |-> y, vol_realized_vol |-> v]
  BY DEF VolatilityBlock, atr, ret
<1>11. atr[n] # NaN /\ p[n] # NaN /\ q[n] # NaN /\ y[n] # NaN /\ v[n] # NaN
  BY <1>9
<1> HIDE DEF p, q, y, v
<1> QED BY <1>10, <1>11 DEF BlockSolid

LEMMA TrendMemorySolid ==
  ASSUME NaNIsNoValue, NEW n \in Nat \ {0}, n >= Horizon, NEW x, Solid(x, n, 1)
  PROVE  BlockSolid(TrendMemoryBlock(x), n)
<1> DEFINE ker == Join(Diff(x, Width.ker), Rolling(Diff(x, 1), Width.ker))
           hurst == Rolling(x, Width.hurst)
<1>1. Width.ker \in Nat \ {0} /\ Width.hurst \in Nat \ {0}
  BY WidthsAre DEF Windowed
<1>2. Solid(Diff(x, Width.ker), n, 1 + Width.ker) /\ Solid(Diff(x, 1), n, 1 + 1)
  BY <1>1, DiffSolid
<1>3. Solid(Rolling(Diff(x, 1), Width.ker), n, 2 + Width.ker - 1)
  BY <1>1, <1>2, RollingSolid
<1>4. 2 + Width.ker - 1 = 1 + Width.ker /\ 1 + Width.hurst - 1 = Width.hurst
  BY <1>1
<1>5. Solid(ker, n, 1 + Width.ker)
  BY <1>1, <1>2, <1>3, <1>4, JoinSolid
<1>6. Solid(hurst, n, Width.hurst)
  BY <1>1, <1>4, RollingSolid
<1>7. 1 + Width.ker <= n /\ Width.hurst <= n
  BY <1>1, HorizonIs
<1> HIDE DEF ker, hurst
<1>8. ker[n] # NaN /\ hurst[n] # NaN
  BY <1>1, <1>5, <1>6, <1>7, SolidLast
<1>9. TrendMemoryBlock(x) = [tm_ker |-> ker, tm_hurst |-> hurst]
  BY DEF TrendMemoryBlock, ker, hurst
<1> QED BY <1>8, <1>9 DEF BlockSolid

LEMMA SessionSolid ==
  ASSUME NaNIsNoValue, NEW n \in Nat \ {0}, NEW x, DOMAIN x = 1 .. n, NEW index
  PROVE  BlockSolid(SessionBlock(x, index), n)
<1>1. PICK f : SessionBlock(x, index) = [sess_is |-> [i \in DOMAIN x |-> {}], sess_rel_vol |-> f]
  BY DEF SessionBlock
<1>2. {} # NaN
  BY DEF NaNIsNoValue
<1>3. n \in 1 .. n
  OBVIOUS
<1> DEFINE one == [i \in DOMAIN x |-> {}]
<1>4. one[n] # NaN
  BY <1>2, <1>3
<1> HIDE DEF one
<1>5. SessionBlock(x, index) = [sess_is |-> one, sess_rel_vol |-> f]
  BY <1>1 DEF one
<1> QED BY <1>4, <1>5 DEF BlockSolid

LEMMA LaggedSolid ==
  ASSUME NaNIsNoValue, NEW n \in Nat \ {0}, NEW m \in Nat \ {0}, NEW ret, Solid(ret, n, m),
         NEW other, Solid(other, n, m), NEW k \in 0 .. Width.lag
  PROVE  Solid(Lagged(ret, other, k), n, m + Width.lag + Width.corr - 1)
<1>1. Width.corr \in Nat \ {0} /\ Width.lag \in Nat \ {0}
  BY WidthsAre DEF Windowed
<1>2. Solid(Shift(other, k), n, m + k)
  BY <1>1, ShiftSolid
<1>3. m + k \in Nat \ {0} /\ m <= m + k
  BY <1>1
<1>4. Solid(ret, n, m + k)
  BY <1>3, SolidLater
<1>5. Solid(Join(ret, Shift(other, k)), n, m + k)
  BY <1>2, <1>3, <1>4, JoinSolid
<1>6. Solid(Rolling(Join(ret, Shift(other, k)), Width.corr), n, (m + k) + Width.corr - 1)
  BY <1>1, <1>3, <1>5, RollingSolid
<1>7. /\ (m + k) + Width.corr - 1 \in Nat /\ m + Width.lag + Width.corr - 1 \in Nat
      /\ (m + k) + Width.corr - 1 <= m + Width.lag + Width.corr - 1
  BY <1>1
<1> QED BY <1>6, <1>7, SolidLater DEF Lagged

LEMMA LeadLagSolid ==
  ASSUME NaNIsNoValue, NEW n \in Nat \ {0}, NEW m \in Nat \ {0}, NEW ret, Solid(ret, n, m),
         NEW other, Solid(other, n, m)
  PROVE  Solid(LeadLagBest(ret, other), n, m + Width.lag + Width.corr - 1)
<1> DEFINE D == DOMAIN LaterLags
           pick == Latest(LaterLags)
           M == m + Width.lag + Width.corr - 1
<1>1. PICK g : LeadLagBest(ret, other) = g[D] /\ LeadLags(g, ret, other)
  BY LeadLagIs DEF Solid
<1>2. IsFiniteSet(D) /\ LaterLags \in Seq(1 .. Width.lag) /\ Picks(pick, D)
  BY LaterLagsPicked
<1>3. M \in Nat /\ 1 \in 0 .. Width.lag /\ 1 .. Width.lag \subseteq 0 .. Width.lag
  BY WidthsAre DEF Windowed
<1>4. \A k \in 0 .. Width.lag : Solid(Lagged(ret, other, k), n, M)
  BY LaggedSolid
<1> HIDE DEF M
<1> DEFINE Good == {s \in SUBSET D : Solid(g[s], n, M)}
<1>5. Grows(Good, pick, D)
  <2>1. {} \in Good
    BY <1>1, <1>3, <1>4 DEF LeadLags
  <2>2. ASSUME NEW s \in SUBSET D, s # {}, s \ {pick[s]} \in Good PROVE s \in Good
    <3>1. Max(s) \in s /\ pick[s] = Max(s)
      BY <1>2, <2>2 DEF Picks, Latest
    <3> DEFINE k == LaterLags[Max(s)]
               r == s \ {Max(s)}
    <3>2. k \in 0 .. Width.lag
      <4>1. Max(s) \in D
        BY <2>2, <3>1
      <4>2. \A T : \A seq \in Seq(T) : \A i \in DOMAIN seq : seq[i] \in T
        OBVIOUS
      <4>3. k \in 1 .. Width.lag
        <5> HIDE DEF pick
        <5> QED BY Zenon, <1>2, <4>1, <4>2
      <4> HIDE DEF k
      <4> QED BY <1>3, <4>3
    <3>3. Solid(g[r], n, M) /\ g[s] = Stronger(g[r], Lagged(ret, other, k))
      BY <1>1, <2>2, <3>1 DEF LeadLags
    <3> HIDE DEF k, r
    <3>4. Solid(g[s], n, M)
      BY <1>3, <1>4, <3>2, <3>3, StrongerSolid
    <3> QED BY <3>4
  <2> QED BY <2>1, <2>2 DEF Grows
<1>6. SUBSET D \subseteq Good
  <2> HIDE DEF Good, pick, D
  <2> QED BY <1>2, <1>5, FoldInduction
<1>7. D \in Good
  BY <1>6
<1> QED BY <1>1, <1>7 DEF M

LEMMA CrossPairSolid ==
  ASSUME NaNIsNoValue, NEW n \in Nat \ {0}, n >= Horizon, NEW x, Solid(x, n, 1),
         NEW y, Solid(y, n, n - Horizon + 1)
  PROVE  BlockSolid(CrossPairBlock(x, y), n)
<1> DEFINE m == n - Horizon + 1
           ret == Diff(x, 1)
           other == Diff(y, 1)
           spread == Join(x, y)
<1>1. Width.corr \in Nat \ {0} /\ Width.lag \in Nat \ {0} /\ Width.spread \in Nat \ {0}
  BY WidthsAre DEF Windowed
<1>2. m \in Nat \ {0} /\ m + 1 \in Nat \ {0} /\ m <= n
  BY HorizonIs
<1>3. Solid(x, n, m) /\ Solid(y, n, m)
  BY <1>2, SolidLater
<1>4. /\ (m + 1) + Width.lag + Width.corr - 1 <= n /\ m + Width.spread - 1 <= n
      /\ (m + 1) + Width.lag + Width.corr - 1 \in Nat /\ m + Width.spread - 1 \in Nat
      /\ m <= m + Width.spread - 1
  BY <1>1, HorizonIs
<1> HIDE DEF m
<1>5. Solid(ret, n, m + 1) /\ Solid(other, n, m + 1) /\ Solid(spread, n, m)
  BY <1>2, <1>3, DiffSolid, JoinSolid
<1> HIDE DEF ret, other, spread
<1> DEFINE corr == Rolling(Join(ret, other), Width.corr)
           z == Join(spread, Rolling(spread, Width.spread))
           lead == Lagged(ret, other, 1)
           best == LeadLagBest(ret, other)
<1>6. Solid(corr, n, (m + 1) + Width.corr - 1)
  BY <1>1, <1>2, <1>5, JoinSolid, RollingSolid
<1>7. Solid(z, n, m + Width.spread - 1)
  <2>1. Solid(Rolling(spread, Width.spread), n, m + Width.spread - 1)
    BY <1>1, <1>2, <1>5, RollingSolid
  <2>2. Solid(spread, n, m + Width.spread - 1)
    BY <1>2, <1>4, <1>5, SolidLater
  <2> QED BY <1>4, <2>1, <2>2, JoinSolid
<1>8. Solid(lead, n, (m + 1) + Width.lag + Width.corr - 1) /\ Solid(best, n, (m + 1) + Width.lag + Width.corr - 1)
  <2>1. 1 \in 0 .. Width.lag
    BY <1>1
  <2> QED BY <1>2, <1>5, <2>1, LaggedSolid, LeadLagSolid
<1> HIDE DEF corr, z, lead, best
<1>9. corr[n] # NaN
  <2>1. (m + 1) + Width.corr - 1 \in Nat /\ (m + 1) + Width.corr - 1 <= n
    BY <1>1, <1>2, <1>4
  <2> QED BY <1>6, <2>1, SolidLast
<1>10. z[n] # NaN /\ lead[n] # NaN /\ best[n] # NaN
  BY <1>4, <1>7, <1>8, SolidLast
<1>11. CrossPairBlock(x, y) = [xpair_corr |-> corr, xpair_spread_z |-> z,
                               xpair_lead_lag_corr |-> lead, xpair_lead_lag_best |-> best]
  BY DEF CrossPairBlock, corr, z, lead, best, ret, other, spread
<1> QED BY <1>9, <1>10, <1>11 DEF BlockSolid

LEMMA ConcatSolid ==
  ASSUME NEW n, NEW f, NEW g, BlockSolid(f, n), BlockSolid(g, n)
  PROVE  BlockSolid(Concat(f, g), n)
<1> SUFFICES ASSUME NEW c \in DOMAIN Concat(f, g) \ {"sess_rel_vol"} PROVE Concat(f, g)[c][n] # NaN
  BY DEF BlockSolid
<1>1. CASE c \in DOMAIN f
  <2>1. Concat(f, g)[c] = f[c]
    BY <1>1 DEF Concat
  <2> QED BY <1>1, <2>1 DEF BlockSolid
<1>2. CASE c \notin DOMAIN f
  <2>1. c \in DOMAIN g /\ Concat(f, g)[c] = g[c]
    BY <1>2 DEF Concat
  <2> QED BY <2>1 DEF BlockSolid
<1> QED BY <1>1, <1>2

-----------------------------------------------------------------------------
(* A row with enough rows before it and a partner bar for the last ones.   *)

LEMMA ColumnSolid ==
  ASSUME NEW leg \in Symbols, NEW db, Stamped(db), Dated(db)
  PROVE  Solid(Column(leg, db), Cardinality(DOMAIN db), 1)
<1> DEFINE n == Cardinality(DOMAIN db)
           index == Index(db)
<1>1. DOMAIN index = 1 .. n /\ \A i \in 1 .. n : index[i] \in DOMAIN db
  BY IndexIs
<1> HIDE DEF index, n
<1>2. Column(leg, db) = [i \in 1 .. n |-> {<<leg, index[i], db[index[i]]>>}]
  BY <1>1, TabulatedIs DEF Column, Input, index
<1>3. \A i \in 1 .. n : {<<leg, index[i], db[index[i]]>>} \in SUBSET Inputs
  BY <1>1 DEF Dated, Inputs
<1>4. DOMAIN Column(leg, db) = 1 .. n /\ \A i \in 1 .. n : Column(leg, db)[i] \in SUBSET Inputs
  BY <1>2, <1>3
<1> QED BY <1>4 DEF Solid, n

LEMMA ReindexSolid ==
  ASSUME NEW leg \in Symbols, NEW db, Dated(db), NEW n, NEW index, DOMAIN index = 1 .. n,
         NEW m, \A i \in 1 .. n : i >= m => index[i] \in DOMAIN db
  PROVE  Solid(Reindex(leg, db, index), n, m)
<1> DEFINE val(i) == IF index[i] \in DOMAIN db THEN {<<leg, index[i], db[index[i]]>>} ELSE NaN
<1>1. Reindex(leg, db, index) = [i \in 1 .. n |-> val(i)]
  BY TabulatedIs DEF Reindex, Input
<1>2. ASSUME NEW i \in 1 .. n, index[i] \in DOMAIN db PROVE val(i) \in SUBSET Inputs
  BY <1>2 DEF Dated, Inputs
<1>3. \A i \in 1 .. n : val(i) = NaN \/ val(i) \in SUBSET Inputs
  <2> SUFFICES ASSUME NEW i \in 1 .. n PROVE val(i) = NaN \/ val(i) \in SUBSET Inputs
    OBVIOUS
  <2>1. index[i] \notin DOMAIN db => val(i) = NaN
    OBVIOUS
  <2> HIDE DEF val
  <2> QED BY <1>2, <2>1
<1> HIDE DEF val
<1> QED BY <1>1, <1>2, <1>3 DEF Solid

LEMMA ColumnsSolid ==
  ASSUME NaNIsNoValue, NEW legs, BothLegs(legs), \A s \in DOMAIN legs : Dated(legs[s]),
         NEW n, n = Cardinality(DOMAIN legs[Legs[1]]), n >= Horizon,
         \A i \in 1 .. n : i > n - Horizon => Index(legs[Legs[1]])[i] \in DOMAIN legs[Legs[2]]
  PROVE  BlockSolid(ColumnsOf(legs), n)
<1> DEFINE db == legs[Legs[1]]
           index == Index(db)
           x == Column(Legs[1], db)
           y == Reindex(Legs[2], legs[Legs[2]], index)
<1>1. Legs[1] \in Symbols /\ Legs[2] \in Symbols /\ Stamped(db) /\ Dated(db) /\ Dated(legs[Legs[2]])
  BY IngestionAssumption DEF BothLegs
<1>2. n \in Nat \ {0} /\ DOMAIN index = 1 .. n
  <2>1. Cardinality(DOMAIN db) \in Nat /\ DOMAIN Index(db) = 1 .. Cardinality(DOMAIN db)
    <3> HIDE DEF db
    <3> QED BY <1>1, IndexIs
  <2> QED BY <2>1, HorizonIs
<1>3. Solid(x, n, 1)
  <2> HIDE DEF db
  <2>1. Solid(Column(Legs[1], db), Cardinality(DOMAIN db), 1)
    BY <1>1, ColumnSolid
  <2> QED BY <2>1 DEF db
<1>4. Solid(y, n, n - Horizon + 1)
  <2>1. \A i \in 1 .. n : i >= n - Horizon + 1 => index[i] \in DOMAIN legs[Legs[2]]
    BY <1>2, HorizonIs
  <2> HIDE DEF index
  <2> QED BY <1>1, <1>2, <2>1, ReindexSolid
<1>5. DOMAIN x = 1 .. n
  BY <1>3 DEF Solid
<1> HIDE DEF x, y, index
<1>6. /\ BlockSolid(VolatilityBlock(x), n) /\ BlockSolid(TrendMemoryBlock(x), n)
      /\ BlockSolid(SessionBlock(x, index), n) /\ BlockSolid(CrossPairBlock(x, y), n)
  BY <1>2, <1>3, <1>4, <1>5, VolatilitySolid, TrendMemorySolid, SessionSolid, CrossPairSolid
<1>7. ColumnsOf(legs) = Concat(Concat(VolatilityBlock(x), TrendMemoryBlock(x)),
                               Concat(SessionBlock(x, index), CrossPairBlock(x, y)))
  BY DEF ColumnsOf, x, y, index
<1> QED BY <1>6, <1>7, ConcatSolid

(* A stored row whose last Horizon rows have a partner bar. *)
LEMMA HealedRow ==
  ASSUME NaNIsNoValue, NEW b, NEW t, NEW row, Built(b, t, row),
         NEW index, index = Index(b[Legs[1]]), Len(index) >= Horizon,
         {index[i] : i \in {j \in DOMAIN index : j > Len(index) - Horizon}} \subseteq DOMAIN b[Legs[2]]
  PROVE  \A c \in DOMAIN row \ {"sess_rel_vol"} : row[c] # NaN
<1>1. PICK legs : /\ BothLegs(legs) /\ b = UpTo(legs, t)
                  /\ t \in DOMAIN Matrix(legs) /\ row = Matrix(legs)[t]
                  /\ \A s \in DOMAIN legs : Dated(legs[s])
  BY DEF Built
<1> DEFINE D == DOMAIN legs[Legs[1]]
           C == DOMAIN b[Legs[1]]
           n == Cardinality(C)
<1>2. t \in D /\ t \in Int
  <2>1. t \in D
    BY <1>1, MatrixIs
  <2>2. Stamped(legs[Legs[1]])
    BY <1>1 DEF BothLegs
  <2> QED BY <2>1, <2>2 DEF Stamped
<1>3. BothLegs(b) /\ DOMAIN b = DOMAIN legs /\ \A s \in DOMAIN legs : CutAt(b[s], legs[s], t)
  BY <1>1, <1>2, UpToIs DEF BothLegs
<1>4. \A s \in DOMAIN b : Dated(b[s])
  BY <1>1, <1>3 DEF Dated, CutAt
<1>5. t \in DOMAIN Matrix(b) /\ row = Matrix(b)[t]
  BY <1>1, <1>2, MatrixIsCausal
<1>6. RowOf(C, t) = n
  <2>1. CutAt(b[Legs[1]], legs[Legs[1]], t)
    BY <1>1, <1>3 DEF BothLegs
  <2>2. {u \in C : u <= t} = C
    BY <2>1 DEF CutAt
  <2> QED BY <2>2 DEF RowOf
<1>7. row = RowAt(ColumnsOf(b), n)
  BY <1>3, <1>5, <1>6, MatrixIs
<1>8. Len(index) = n /\ DOMAIN index = 1 .. n
  <2>1. Stamped(b[Legs[1]])
    BY <1>3 DEF BothLegs
  <2>2. DOMAIN index = 1 .. n /\ n \in Nat /\ \A i \in 1 .. n : index[i] \in C
    BY <2>1, IndexIs
  <2>3. index = [i \in 1 .. n |-> index[i]]
    <3>1. index = Tabulated([i \in 1 .. n |->
                    CHOOSE u \in C : Cardinality({v \in C : v <= u}) = i])
      BY DEF Index
    <3> QED BY <3>1, TabulatedIs
  <2> HIDE DEF n, C
  <2>4. index \in Seq(C)
    BY <2>2, <2>3
  <2> QED BY <2>2, <2>4
<1>9. \A i \in 1 .. n : i > n - Horizon => Index(b[Legs[1]])[i] \in DOMAIN b[Legs[2]]
  BY <1>8
<1>10. BlockSolid(ColumnsOf(b), n)
  BY <1>3, <1>4, <1>8, <1>9, ColumnsSolid
<1> HIDE DEF n
<1> QED BY <1>7, <1>10 DEF BlockSolid, RowAt

LEMMA DInvHeals == NaNIsNoValue /\ DInv => NaNsHeal
<1> SUFFICES ASSUME NaNIsNoValue, DInv PROVE NaNsHeal
  OBVIOUS
<1> SUFFICES ASSUME NEW t \in DOMAIN features, NEW index, index = Index(basis[t][Legs[1]]),
                    Len(index) >= Horizon,
                    {index[i] : i \in {j \in DOMAIN index : j > Len(index) - Horizon}}
                      \subseteq DOMAIN basis[t][Legs[2]]
             PROVE  \A c \in DOMAIN features[t] \ {"sess_rel_vol"} : features[t][c] # NaN
  BY DEF NaNsHeal
<1>1. Built(basis[t], t, features[t])
  BY DEF DInv
<1> QED BY <1>1, HealedRow

(* The rolling windows forget: a missing bar of the partner blanks the     *)
(* cross-pair features of Horizon rows at most, and warm-up takes no       *)
(* longer, for every choice of the windows and every history.              *)
THEOREM HolesHeal == NaNIsNoValue => (Spec => []NaNsHeal)
<1> SUFFICES ASSUME NaNIsNoValue PROVE Spec => []NaNsHeal
  OBVIOUS
<1>1. DInv /\ RInv /\ [Next]_vars => DInv'
  BY StepKeepsDInv
<1>2. DInv => NaNsHeal
  BY DInvHeals
<1> QED BY DInit, <1>1, <1>2, RunsOwe, PTL DEF Spec
=============================================================================
