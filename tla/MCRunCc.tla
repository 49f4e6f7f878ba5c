--------------------------------- MODULE MCRunCc ---------------------------------
(***************************************************************************)
(* Five arguments, so that two components can depend on a third one.       *)
(***************************************************************************)
EXTENDS RunCc

\* Two pairs that attack each other, of which the first can attack everything and
\* the second the fifth argument: the second pair is a source component of
\* different sets of arguments.  Without the attacks of the first pair there are
\* up to three weakly connected components.
Layered ==
    {[a \in Arg |-> CASE a = 0 -> x \cup {2} [] a = 2 -> y \cup {0}
                      [] a = 1 -> z \cup {4} [] a = 4 -> w \cup {1} [] OTHER -> v] :
        x, y \in SUBSET {1, 3, 4}, z, w \in SUBSET {3}, v \in SUBSET {1, 3}}

\* Three arguments that a routine may be wrong about, with self-attackers before
\* others, with a first closure that is no extension, or with a head of Norris' list
\* that is freed, and a pair that may depend on them, or they on it.
Misjudged ==
    {[a \in Arg |-> CASE a = 0 -> x [] a = 1 -> y [] a = 2 -> z \cup u
                      [] a = 3 -> {4} [] OTHER -> {3} \cup w] :
        x \in {{}, {0, 1}}, y \in {{2}, {0, 2}, {0, 1, 2}}, z \in {{}, {1}, {0, 1}},
        u \in SUBSET {3}, w \in SUBSET {0, 1}}

Inputs == Layered \cup Misjudged

\* Every framework on the first three arguments without self-attacks; the first
\* and the third of them may attack the last two, which attack each other or not.
Cascades ==
    {[a \in Arg |-> CASE a = 0 -> x [] a = 1 -> y [] a = 2 -> z
                      [] a = 3 -> v [] OTHER -> w] :
        x \in SUBSET {1, 2, 3}, y \in SUBSET {0, 2}, z \in SUBSET {0, 1, 4},
        v \in SUBSET {4}, w \in SUBSET {3, 4}}
================================================================================
