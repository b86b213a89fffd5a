----------------------------- MODULE MCLabeling -----------------------------
(* Five bars around price 10, barriers one or two points away, labels of   *)
(* at most two bars.                                                       *)
EXTENDS Labeling

MCShapes ==
  {[high |-> 10, low |-> 10, close |-> 10, atr |-> 1],   \* nothing happens
   [high |-> 10, low |-> 10, close |-> 10, atr |-> 0],   \* no ATR yet
   [high |-> 11, low |-> 10, close |-> 11, atr |-> 1],   \* up
   [high |-> 10, low |-> 9,  close |-> 9,  atr |-> 2],   \* down
   [high |-> 12, low |-> 9,  close |-> 12, atr |-> 2]}   \* both barriers in one bar

(* No side, always short, and a primary that changes its mind. *)
MCSideMaps == {<<>>, <<-1, -1, -1, -1, -1>>, <<1, 0, -1, 1, 0>>}
=============================================================================
