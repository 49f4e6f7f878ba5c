------------------------------- MODULE MCSccStable -------------------------------
(***************************************************************************)
(* The recursion with the routines that run_cc's callers pass.             *)
(***************************************************************************)
EXTENDS SccStable, Solvers
================================================================================
