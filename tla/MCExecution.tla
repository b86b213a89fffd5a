---------------------------- MODULE MCExecution ----------------------------
(* Small instances of Execution: two symbols, short or long decisions.      *)
EXTENDS Execution

CONSTANTS EURUSD, GBPUSD

MCSymbols == {EURUSD, GBPUSD}
MCShort == {-2, 0}
MCLong == {0, 2}
MCGiven == {TRUE}
MCGivenOrNot == BOOLEAN
=============================================================================
