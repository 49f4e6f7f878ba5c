----------------------------- MODULE MCRunAdmissible -----------------------------
(***************************************************************************)
(* Four arguments: the intersection of the preferred extensions shrinks,   *)
(* DC-CO has a chain of defenders besides the argument, and DS-PR two      *)
(* exclusive preferred extensions besides an argument and its attacker.    *)
(* The routines for one extension or one argument depend on the numbers of *)
(* the arguments only through the order of their loops: it is enough to    *)
(* ask for the first and the last, and the two between them are told apart *)
(* by the number of their victims.  A self-attacker comes last and attacks *)
(* at most one other argument.                                             *)
(***************************************************************************)
EXTENDS RunAdmissible

AllProblems ==
    ({"next-closure"} \X {"EE-CO", "DC-CO", "EE-PR", "SE-ID"})
        \cup ({"subgraph", "subgraph_adj"} \X {"DC-CO"})
        \cup ({"cbo"} \X {"SE-PR", "DC-PR", "DS-PR"})

LastMayLoopOnce ==
    {f \in Framework : /\ \A a \in Arg : a \in f[a] => a = N-1
                       /\ N-1 \in f[N-1] => Cardinality(f[N-1]) <= 2}

MiddleOrdered == {f \in LastMayLoopOnce : Cardinality(f[1]) >= Cardinality(f[2])}

Ends == {0, N-1}

\* What main sorts: one argument attacks what it likes, the next is attacked back.
Stars == {[a \in Arg |-> CASE a = 0 -> x [] a = 2 -> y [] OTHER -> {}] :
             x \in SUBSET Arg, y \in SUBSET {0, 3}}
================================================================================
