------------------------------ MODULE MCIngest ------------------------------
(* Small instances of Ingest for TLC: the runs are model values named in   *)
(* the configurations, a* started with -apply, d* without.                 *)
EXTENDS Ingest
=============================================================================
