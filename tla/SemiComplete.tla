------------------------------ MODULE SemiComplete ------------------------------
(***************************************************************************)
(* Semi-complete sets (algorithms/next-closure/complete.c): sets that      *)
(* contain every argument they defend.  They form a closure system, and    *)
(* the closure is what closure_semi_complete computes; that its loop does  *)
(* so is checked and proved in SemiClosureLoop.                            *)
(***************************************************************************)
EXTENDS AF

SemiCompleteSet(att, s) == \A a \in DOMAIN att : SetDefendsArg(att, s, a) => a \in s

\* The least semi-complete superset of s.
SemiClosure(att, s) ==
    {a \in DOMAIN att : \A t \in SUBSET DOMAIN att :
                            s \subseteq t /\ SemiCompleteSet(att, t) => a \in t}

\* The attackers of s are among its victims.
SelfDefending(att, s) == Victims(Transpose(att), s) \subseteq Victims(att, s)
================================================================================
