------------------------------ MODULE MCSizing ------------------------------
(* Sizing with the values of config/default.yaml: probabilities in         *)
(* twentieths, risk in half percents (risk_per_trade 0.5%, cap 1.5%).      *)
EXTENDS Sizing

CONSTANTS EURUSD, GBPUSD

MCSymbols == {EURUSD, GBPUSD}
MCProbs == {10, 11, 12, 20}
MCGrids == {[step |-> 0, min |-> 1], [step |-> 1, min |-> 1],
            [step |-> 3, min |-> 2]}
MCEquities == {0, 90, 95, 100}
MCRhos == {-5, 6}
MCMinusInf == -1000
=============================================================================
