---------------------------- MODULE IdealOrders ----------------------------
(***************************************************************************)
(* What the execution layer promises: an order id is decided once.  An id  *)
(* that is "open" may become "filled" or may be "closed" without a fill,   *)
(* and it never changes again.  (executor.py:7-8, "one order per (symbol,  *)
(* bar), so reprocessing a bar never double-fires".)                       *)
(***************************************************************************)
CONSTANT OrderIds

VARIABLE status

IdealTypeOK == status \in [OrderIds -> {"open", "filled", "closed"}]

IdealInit == status = [id \in OrderIds |-> "open"]

Decide(id, outcome) ==
  /\ status[id] = "open"
  /\ status' = [status EXCEPT ![id] = outcome]

IdealNext == \E id \in OrderIds, outcome \in {"filled", "closed"} : Decide(id, outcome)

IdealSpec == IdealInit /\ [][IdealNext]_status
=============================================================================
