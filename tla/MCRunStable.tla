------------------------------- MODULE MCRunStable -------------------------------
(***************************************************************************)
(* Four arguments: Norris' list holds several concepts, a set of mis has   *)
(* two children that share an argument, and DC-ST's front has two          *)
(* arguments behind which the one asked for and another follow.            *)
(***************************************************************************)
EXTENDS RunStable

Loops(f) == {a \in Arg : a \in f[a]}

AllProblems ==
    ({"mis", "norris", "nourine"} \X {"EE", "SE"})
        \cup {<<"norris-bu", "EE">>, <<"mis", "DC">>, <<"next-closure", "DC">>}

\* A self-attacker behind all other arguments, or before them if the last argument
\* attacks nothing but the first.
EndsMayLoop ==
    {f \in Framework : \/ Loops(f) \subseteq {N-1}
                       \/ Loops(f) = {0} /\ f[N-1] \subseteq {0}}

\* What main sorts: one argument attacks what it likes, the next is attacked back.
Stars == {[a \in Arg |-> CASE a = 0 -> x [] a = 2 -> y [] OTHER -> {}] :
             x \in SUBSET Arg, y \in SUBSET {0, 3}}
================================================================================
