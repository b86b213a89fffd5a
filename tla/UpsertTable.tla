---------------------------- MODULE UpsertTable ----------------------------
(***************************************************************************)
(* The guarantee of the database paths (INSERT .. ON CONFLICT DO UPDATE in *)
(* one transaction, db/repository.py) that the parquet stores claim as     *)
(* their own (l0_data/store.py:15-17): a submitted batch goes in whole or  *)
(* not at all; its rows replace the rows with the same timestamp, and the  *)
(* other rows stay.                                                        *)
(*                                                                         *)
(* A fragile table is what a file gives: a batch that is going in may      *)
(* destroy the table, with every row it had, and then none goes in again.  *)
(***************************************************************************)
CONSTANTS Clients, Stamps, Versions,
  Fragile    \* may a batch destroy the table?

VARIABLES
  table,     \* timestamp -> row
  lost,      \* is the table destroyed?
  pending    \* per client: the batch it has submitted, empty if none

Rows == UNION {[S -> Versions] : S \in SUBSET Stamps}

UpsertInit == table = <<>> /\ lost = FALSE /\ pending = [c \in Clients |-> <<>>]

Submit(c) ==
  /\ pending[c] = <<>>
  /\ \E batch \in Rows : pending' = [pending EXCEPT ![c] = batch]
  /\ UNCHANGED <<table, lost>>

Commit(c) ==
  /\ ~ lost
  /\ table' = [t \in DOMAIN pending[c] \cup DOMAIN table |->
                 IF t \in DOMAIN pending[c] THEN pending[c][t] ELSE table[t]]
  /\ pending' = [pending EXCEPT ![c] = <<>>]
  /\ UNCHANGED lost

Abort(c) == pending' = [pending EXCEPT ![c] = <<>>] /\ UNCHANGED <<table, lost>>

Destroy(c) ==
  /\ Fragile /\ ~ lost /\ pending[c] # <<>>
  /\ table' = <<>> /\ lost' = TRUE
  /\ pending' = [pending EXCEPT ![c] = <<>>]

UpsertNext == \E c \in Clients : Submit(c) \/ Commit(c) \/ Abort(c) \/ Destroy(c)

UpsertSpec == UpsertInit /\ [][UpsertNext]_<<table, lost, pending>>
=============================================================================
