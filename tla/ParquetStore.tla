---------------------------- MODULE ParquetStore ----------------------------
(***************************************************************************)
(* One parquet file of the DB-free stores (l0_data/store.py) and the jobs  *)
(* that ingest bars into it (l0_data/ingestion.py, scripts/ingest.py).  An *)
(* upsert is a read, a merge in memory and a write in place, so jobs that  *)
(* share the file interleave between those, and a job may die in any of    *)
(* them.  The feature and label stores upsert through the same function.   *)
(*                                                                         *)
(* The data of a bar is its version: the newest bar is still forming and   *)
(* is revised by the terminal.                                             *)
(***************************************************************************)
EXTENDS Integers

CONSTANTS
  Jobs,         \* ingestion processes
  Stamps,       \* bar timestamps
  MaxVersion,   \* bound: revisions of a bar
  MaxCrashes    \* bound: deaths of a job

ASSUME StoreAssumption == MaxVersion \in Nat /\ MaxCrashes \in Nat

Versions == 0 .. MaxVersion
Rows == UNION {[S -> Versions] : S \in SUBSET Stamps}

VARIABLES
  market,   \* the terminal's bars: timestamp -> version
  file,     \* [state, rows]: the parquet file
  job,      \* per job: where in ingest_bars / _upsert_parquet it is
  saved,    \* history: contents of the last complete write
  acked,    \* history: newest version of each bar whose upsert returned
  crashes

parquetVars == <<market, file, job, saved, acked, crashes>>

IdleJob == [pc |-> "idle"]

ParquetInit ==
  /\ market = [t \in Stamps |-> 0]
  /\ file = [state |-> "absent", rows |-> <<>>]
  /\ job = [j \in Jobs |-> IdleJob]
  /\ saved = <<>> /\ acked = <<>> /\ crashes = 0

Revise(t) ==
  /\ market[t] < MaxVersion
  /\ market' = [market EXCEPT ![t] = @ + 1]
  /\ UNCHANGED <<file, job, saved, acked, crashes>>

(* fetch_bars: the rows of the requested window; an empty one is not       *)
(* stored.                                                                 *)
Fetch(j, window) ==
  /\ job[j].pc = "idle" /\ window # {}
  /\ job' = [job EXCEPT ![j] = [pc |-> "fetched", df |-> [t \in window |-> market[t]]]]
  /\ UNCHANGED <<market, file, saved, acked, crashes>>

(* The rows of new, and those of old that new does not replace. *)
Over(new, old) ==
  [t \in DOMAIN new \cup DOMAIN old |-> IF t \in DOMAIN new THEN new[t] ELSE old[t]]

(* Mutant: keep="first". *)
KeepFirst(old, df) == Over(old, df)

(* concat, then duplicated(keep="last"). *)
Combine(old, df) == Over(df, old)

(* read_parquet and the merge; an unreadable file raises and ends the job. *)
ReadAndCombine(j) ==
  /\ job[j].pc = "fetched"
  /\ job' = [job EXCEPT ![j] =
               IF file.state = "torn" THEN IdleJob
               ELSE [pc |-> "combined", df |-> @.df, combined |-> Combine(file.rows, @.df)]]
  /\ UNCHANGED <<market, file, saved, acked, crashes>>

(* Mutant: the file is written without being truncated first, so a torn    *)
(* write still reads as a whole file.                                      *)
OpenUntruncated(j) ==
  /\ job[j].pc = "combined"
  /\ job' = [job EXCEPT ![j].pc = "writing"]
  /\ file' = [state |-> "whole", rows |-> <<>>]
  /\ UNCHANGED <<market, saved, acked, crashes>>

(* to_parquet opens the path for writing in place. *)
OpenForWrite(j) ==
  /\ job[j].pc = "combined"
  /\ job' = [job EXCEPT ![j].pc = "writing"]
  /\ file' = [state |-> "torn", rows |-> <<>>]
  /\ UNCHANGED <<market, saved, acked, crashes>>

(* ... and has written it all; two writers at once may leave anything.     *)
FinishWrite(j) ==
  /\ job[j].pc = "writing"
  /\ \/ file' = [state |-> "whole", rows |-> job[j].combined]
     \/ /\ \E other \in Jobs \ {j} : job[other].pc = "writing"
        /\ UNCHANGED file
  /\ saved' = job[j].combined
  /\ acked' = Over(job[j].df, acked)
  /\ job' = [job EXCEPT ![j] = IdleJob]
  /\ UNCHANGED <<market, crashes>>

(* The process dies; what it was writing stays half-written. *)
Crash(j) ==
  /\ job[j].pc # "idle" /\ crashes < MaxCrashes
  /\ job' = [job EXCEPT ![j] = IdleJob]
  /\ crashes' = crashes + 1
  /\ UNCHANGED <<market, file, saved, acked>>

ParquetNext ==
  \/ \E t \in Stamps : Revise(t)
  \/ \E j \in Jobs :
       \/ \E window \in SUBSET Stamps : Fetch(j, window)
       \/ ReadAndCombine(j) \/ OpenForWrite(j) \/ FinishWrite(j) \/ Crash(j)

ParquetSpec == ParquetInit /\ [][ParquetNext]_parquetVars

-----------------------------------------------------------------------------
(* Properties.                                                             *)

(* Rows whose upsert returned are still there, in that version or a newer  *)
(* one, whenever the file can be read - whatever reruns, revisions and     *)
(* crashes came between.                                                   *)
AckedRowsSurvive ==
  file.state = "whole" =>
    \A t \in DOMAIN acked : t \in DOMAIN file.rows /\ file.rows[t] >= acked[t]

(* The rows there are: those of the file; while a job writes it, when it   *)
(* cannot be read, those it had; and none of a file that stays torn.       *)
BeingWritten == \E j \in Jobs : job[j].pc = "writing"
Table == IF file.state # "torn" THEN file.rows ELSE IF BeingWritten THEN saved ELSE <<>>
Destroyed == file.state = "torn" /\ ~ BeingWritten
Pending == [j \in Jobs |-> IF job[j].pc = "idle" THEN <<>> ELSE job[j].df]

(* Each write is one atomic upsert of the batch the job fetched, however   *)
(* its steps mix with reruns, revisions and crashes - or else a crash in   *)
(* the write in place destroys the rows of all earlier ones, and every     *)
(* later upsert raises (_upsert_parquet).                                  *)
Disk == INSTANCE UpsertTable WITH
          Clients <- Jobs, table <- Table, lost <- Destroyed, pending <- Pending, Fragile <- TRUE
UpsertsUnlessTorn == Disk!UpsertSpec

(* "Idempotent upserts ... the same guarantee as the DB ON CONFLICT paths" *)
(* (store.py:15-17): no job can destroy the table.                         *)
DB == INSTANCE UpsertTable WITH
        Clients <- Jobs, table <- Table, lost <- Destroyed, pending <- Pending, Fragile <- FALSE
UpsertsLikeDB == DB!UpsertSpec
=============================================================================
