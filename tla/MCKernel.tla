----------------------------- MODULE MCKernel -----------------------------
(***************************************************************************)
(* The kernel with the argument sets of the runs: Kernel*.cfg.             *)
(***************************************************************************)
EXTENDS KernelScheduler

(* Every port number at or next to a boundary of the range test.           *)
AllPorts == -1 .. NPORTS + 1

(* Every signal number at or next to a boundary of the range test.         *)
AllSigs == -1 .. NSIGS

NoArgs == {}
===========================================================================
