-------------------------- MODULE MCWorkloadReader --------------------------
(* Every file of one to three lines that ends in a newline, as the files   *)
(* gen_workload.py writes do.                                              *)
EXTENDS WorkloadReader

Lines == {"put", "get", "short", "bad"}
MCFiles == [lines : UNION {[1 .. n -> Lines] : n \in 1 .. 3}, newline : {TRUE}]
=============================================================================
