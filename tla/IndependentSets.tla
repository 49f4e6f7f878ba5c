----------------------------- MODULE IndependentSets -----------------------------
(***************************************************************************)
(* The reverse search of algorithms/maximal-independent-sets/mis.c: the    *)
(* tests that decide which children of a maximal conflict-free set are     *)
(* generated, and what EE-ST lists in the end.  conflicts is the conflict  *)
(* framework.  MaximalIndependentSets has the calls one after the other.   *)
(***************************************************************************)
EXTENDS AF

Child(conflicts, set, a) == (set \ conflicts[a]) \cup {a}

\* The arguments below a that are not in the child.
Absent(conflicts, set, a) == (0 .. a-1) \ Child(conflicts, set, a)

\* Nothing below a can be added to the child.
MaximalBelow(conflicts, set, a) ==
    \A j \in Absent(conflicts, set, a) : Child(conflicts, set, a) \cap conflicts[j] # {}

\* canonical_parent when the loop comes to j: the greedy completion, below j, of
\* what set and child share.
CanonicalParent(conflicts, set, a) ==
    LET completed[j \in 0 .. a] ==
            IF j = 0 THEN set \ conflicts[a]
            ELSE completed[j-1] \cup
                 {k \in {j-1} \cap Absent(conflicts, set, a) :
                     completed[j-1] \cap conflicts[k] = {}}
    IN  completed

\* Where that completion leaves set: another parent generates the child.
Deviations(conflicts, set, a) ==
    {j \in Absent(conflicts, set, a) \ set :
        CanonicalParent(conflicts, set, a)[j] \cap conflicts[j] = {}}

\* Fault: it is not tested whether another parent generates the child.
CanonicalForAnyParent(conflicts, set, a) ==
    a \notin conflicts[a] /\ MaximalBelow(conflicts, set, a)

\* Fault: it is not tested whether the child is maximal.
CanonicalNotMaximal(conflicts, set, a) ==
    a \notin conflicts[a] /\ Deviations(conflicts, set, a) = {}

\* The loop over j stops at the first that fails; it does nothing else.
IsCanonical(conflicts, set, a) ==
    /\ a \notin conflicts[a]
    /\ MaximalBelow(conflicts, set, a)
    /\ Deviations(conflicts, set, a) = {}

-------------------------------------------------------------------------------
\* The sets with which a call that has come to a goes on.
Successors(conflicts, set, a) ==
    IF a \notin conflicts[a] /\ set \cap conflicts[a] = {}
    THEN {set \cup {a}}
    ELSE {set} \cup {Child(conflicts, set, x) : x \in {b \in {a} : IsCanonical(conflicts, set, b)}}

\* The sets that the calls have when they come to argument n.
ReachedSets(att) ==
    LET conflicts == ConflictFramework(att)
        reached[n \in Nat] ==
            IF n = 0 THEN {{}}
            ELSE UNION {Successors(conflicts, set, n-1) : set \in reached[n-1]}
    IN  reached

\* ee_st_maximal_independent_sets: those at the end that dominate everything.
MisExtensions(att) ==
    {set \in ReachedSets(att)[Cardinality(DOMAIN att)] : set \cup Victims(att, set) = DOMAIN att}

\* No self-attacker is below another argument.
SelfAttackersLast(att) ==
    \A a, b \in DOMAIN att : a < b /\ a \in att[a] => b \in att[b]
================================================================================
