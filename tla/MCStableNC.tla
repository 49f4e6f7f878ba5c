------------------------------ MODULE MCStableNC -------------------------------
(***************************************************************************)
(* The argument order decides what the search skips, so symmetric          *)
(* frameworks are not identified.  All 65536 frameworks with four          *)
(* arguments take longer than a run should: every attack between different *)
(* arguments is kept, and the self-attacks are bounded.                    *)
(***************************************************************************)
EXTENDS StableNC

Loops(f) == {a \in Arg : a \in f[a]}

FewLoops == {f \in Framework : Cardinality(Loops(f)) <= 1}
================================================================================
