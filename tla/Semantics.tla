------------------------------- MODULE Semantics -------------------------------
(***************************************************************************)
(* What the algorithms are meant to compute: the extensions of abstract    *)
(* argumentation (Dung), stated on the attack relation alone and without   *)
(* any operator of the implementation.  Nothing here is code; the          *)
(* properties compare the code's results with these definitions.           *)
(***************************************************************************)
EXTENDS Integers, FiniteSets

ConflictFreeIn(att, S) == \A a, b \in S : b \notin att[a]

\* a is acceptable with respect to S.
Defended(att, S, a) ==
    \A b \in DOMAIN att : a \in att[b] => \E d \in S : b \in att[d]

\* S is stable when it attacks exactly the arguments outside it.
Stable(att, S) == \A a \in DOMAIN att : a \in S <=> \A b \in S : a \notin att[b]

Admissible(att, S) == ConflictFreeIn(att, S) /\ \A a \in S : Defended(att, S, a)

CompleteExt(att, S) ==
    ConflictFreeIn(att, S) /\ S = {a \in DOMAIN att : Defended(att, S, a)}

StableExtensions(att) == {S \in SUBSET DOMAIN att : Stable(att, S)}

AdmissibleSets(att) == {S \in SUBSET DOMAIN att : Admissible(att, S)}

CompleteExtensions(att) == {S \in SUBSET DOMAIN att : CompleteExt(att, S)}

PreferredExtensions(att) ==
    LET adm == AdmissibleSets(att)
    IN  {S \in adm : \A T \in adm : S \subseteq T => T = S}

\* The largest admissible set that every preferred extension contains.
Ideal(att, S) ==
    LET core == {T \in AdmissibleSets(att) :
                    \A P \in PreferredExtensions(att) : T \subseteq P}
    IN  S \in core /\ \A T \in core : T \subseteq S
================================================================================
