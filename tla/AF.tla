---------------------------------- MODULE AF ----------------------------------
(***************************************************************************)
(* Argumentation frameworks and the operators of af/af.h and af/af.c.      *)
(*                                                                         *)
(* A framework is a function from its arguments to the sets of their       *)
(* victims: att[a] is the bitset graph[a], and b \in att[a] says that a    *)
(* attacks b.  The arguments of a framework of size n are the indices      *)
(* 0 .. n-1 of its bitsets.  The operators take the framework as an        *)
(* argument and read its size off its domain, as the code reads af->size,  *)
(* so that they also apply to projected frameworks.                        *)
(***************************************************************************)
EXTENDS Integers, FiniteSets

CONSTANT N        \* the size of the framework that is read from the input

\* create_bitset(0) has no element to mask: every operation needs an argument.
ASSUME NAssumption == N \in Nat \ {0}

Arg == 0 .. N-1

Framework == [Arg -> SUBSET Arg]

-------------------------------------------------------------------------------
(* Attack and defence.                                                       *)

ArgAttacksArg(att, a, b) == b \in att[a]

ArgAttacksSet(att, a, s) == att[a] \cap s # {}

SetAttacksArg(att, s, a) == \E b \in s : a \in att[b]

SetDefendsArg(att, s, a) ==
    \A b \in DOMAIN att : a \in att[b] => SetAttacksArg(att, s, b)

IsConflictFree(att, s) == \A a \in s : ~ArgAttacksSet(att, a, s)

\* get_victims on a framework, get_attackers on its transpose.
Victims(att, s) == {b \in DOMAIN att : SetAttacksArg(att, s, b)}

-------------------------------------------------------------------------------
(* The derivation operators of formal concept analysis on the context whose  *)
(* incidence relation is att.  The stable-extension algorithms apply them to *)
(* the complement of the attack relation.                                    *)

Complement(att) == [a \in DOMAIN att |-> DOMAIN att \ att[a]]

Transpose(att) == [b \in DOMAIN att |-> {a \in DOMAIN att : b \in att[a]}]

\* Common victims of the members of s.
UpArrow(att, s) == {b \in DOMAIN att : \A a \in s : b \in att[a]}

\* Arguments attacking every member of s.
DownArrow(att, s) == {a \in DOMAIN att : s \subseteq att[a]}

\* Common victims of the arguments that attack every member of s, computed in
\* one pass over the rows without the intermediate down arrow.
DownUpArrow(att, s) ==
    {b \in DOMAIN att : \A a \in DOMAIN att : s \subseteq att[a] => b \in att[a]}

\* Undirected; a self-attacker is in conflict with everything
\* (create_conflict_framework).
ConflictFramework(att) ==
    [a \in DOMAIN att |-> {b \in DOMAIN att :
        \/ a \in att[a] \/ b \in att[b]
        \/ b \in att[a] \/ a \in att[b]}]

-------------------------------------------------------------------------------
(* Renaming.  A mapping m sends a new index to the old one it stands for.    *)

\* The framework filled in from att along m (sort_af, dc_st_next_closure).
Renamed(att, m) == [a \in DOMAIN m |-> {b \in DOMAIN m : m[b] \in att[m[a]]}]

\* The bitset over old indices for a bitset over new ones (map_indices,
\* project_back).
MapIndices(s, m) == {m[a] : a \in s}

\* Exchanges the rows of a and b, then their columns in every row.
SwapArguments(att, a, b) ==
    Renamed(att, [x \in DOMAIN att |-> CASE x = a -> b [] x = b -> a [] OTHER -> x])

-------------------------------------------------------------------------------
(* Projection on the arguments of mask (project_argumentation_framework):    *)
(* Renamed along parent_mapping, which lists them in index order from 0.     *)

ParentMapping(mask) ==
    [x \in 0 .. Cardinality(mask)-1 |->
        CHOOSE a \in mask : Cardinality({b \in mask : b < a}) = x]
===============================================================================
