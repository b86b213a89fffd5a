------------------------------ MODULE MCSignal ------------------------------
EXTENDS Signal

calm == [hurst |-> 45, ker |-> 10, atr |-> 40]
trending == [hurst |-> 60, ker |-> 40, atr |-> 50]
storm == [hurst |-> 50, ker |-> 20, atr |-> 95]
warmup == [hurst |-> NaN, ker |-> 40, atr |-> NaN]

MCRows == {trending, storm, warmup}

(* Sticky states, one per kind of row, with ambiguous emissions. *)
MCHmm ==
  [start |-> [s \in States |-> IF s = 1 THEN 2 ELSE 1],
   trans |-> [s \in States |-> [r \in States |-> IF r = s THEN 3 ELSE IF r = 0 THEN 2 ELSE 1]],
   emit |-> [s \in States |->
     (calm :> (IF s = 0 THEN 3 ELSE 2)) @@ (trending :> (IF s = 1 THEN 4 ELSE 1))
       @@ (storm :> (IF s = 2 THEN 3 ELSE 1))]]

(* One set visits every state, one leaves a state unmapped, one is too     *)
(* short because of a row in its warm-up.                                  *)
MCTrainingSets ==
  {<<calm, calm, trending, trending, storm, storm>>, <<calm, calm, calm, trending, trending, trending>>,
   <<storm, calm, warmup>>}

MCMembers == {"logistic", "cnn"}
MCBaseWeights == [m \in MCMembers |-> IF m = "logistic" THEN 4 ELSE 6]

(* No overrides; in shock one member with a negative weight; in trends     *)
(* only a member there is not, and an empty override.                      *)
MCOverrideChoices ==
  {[r \in {} |-> {}],
   [r \in {"shock", "trend", "range"} |->
      IF r = "shock" THEN ("logistic" :> -2) @@ ("cnn" :> 3)
      ELSE IF r = "trend" THEN ("lightgbm" :> 1) ELSE [m \in {} |-> 0]]}

(* Probabilities in sixtieths: just down, and up with a class that was     *)
(* absent from the fit, so that its columns stand in other places.         *)
MCOutputs ==
  {[classes |-> <<-1, 0, 1>>, proba |-> <<30, 9, 21>>],
   [classes |-> <<0, 1>>, proba |-> <<18, 42>>]}

MCBets == {[score |-> 1, label |-> 1, weight |-> 2], [score |-> 1, label |-> 0, weight |-> 1],
           [score |-> 2, label |-> 1, weight |-> 1], [score |-> 3, label |-> 0, weight |-> 1]}
MCTauGrid == <<80, 110, 140>>
MCRawScores == 1 .. 3
=============================================================================
