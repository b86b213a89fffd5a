---------------------------- MODULE MCValidation ----------------------------
(* Ten bars.  Every bar but the last two is an event, or every other one.   *)
EXTENDS Validation

MCDense == 0 .. 7
MCSparse == {0, 2, 4, 6, 8}
MCIndexes == {MCDense, MCSparse}
MCDenseOnly == {MCDense}
MCModes == {"anchored", "rolling"}
=============================================================================
