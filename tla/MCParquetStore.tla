--------------------------- MODULE MCParquetStore ---------------------------
(* One file, three bars, one job at a time.            *)
EXTENDS ParquetStore

MCOneJob == {"ingest"}
MCStamps == {"t1", "t2", "t3"}
=============================================================================
