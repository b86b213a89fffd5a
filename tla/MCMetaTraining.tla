--------------------------- MODULE MCMetaTraining ---------------------------
(* Seven labelled events, with and without a bar between them.             *)
EXTENDS MetaTraining

MCDense == 0 .. 6
MCSparse == {0, 2, 4, 6, 8, 10, 12}
MCIndexes == {MCDense, MCSparse}
MCModes == {"anchored", "rolling"}
=============================================================================
