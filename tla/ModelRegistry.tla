--------------------------- MODULE ModelRegistry ---------------------------
(***************************************************************************)
(* What the model lifecycle promises: a model serves only after it cleared *)
(* the validation gate ("nothing reaches live without clearing section 5", *)
(* lifecycle/retrain.py:3-6), and a model that has been replaced by a      *)
(* newer one never serves again.  Nothing serving is always possible.      *)
(***************************************************************************)
EXTENDS Integers

CONSTANTS Versions, Nobody

VARIABLES
  cleared,   \* versions that cleared the gate
  serving,   \* the version in use, or Nobody
  newest     \* the newest version that has been in use, 0 before the first

RegistryInit == cleared = {} /\ serving = Nobody /\ newest = 0

Clear(v) == cleared' = cleared \cup {v} /\ UNCHANGED <<serving, newest>>

Serve(v) ==
  /\ v \in cleared /\ v >= newest
  /\ serving' = v /\ newest' = v /\ UNCHANGED cleared

Stop == serving' = Nobody /\ UNCHANGED <<cleared, newest>>

RegistryNext == (\E v \in Versions : Clear(v) \/ Serve(v)) \/ Stop

RegistrySpec == RegistryInit /\ [][RegistryNext]_<<cleared, serving, newest>>
=============================================================================
