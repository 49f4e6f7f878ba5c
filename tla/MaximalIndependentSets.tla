------------------------- MODULE MaximalIndependentSets -------------------------
(***************************************************************************)
(* algorithms/maximal-independent-sets/mis.c and algorithms/dc.c: EE-ST    *)
(* and SE-ST by reverse search through the maximal conflict-free sets, and *)
(* DC-ST, which asks SE-ST about a projection.                             *)
(*                                                                         *)
(* extend and extend_one use their own set only in the first of their two  *)
(* recursive calls, which takes it over.  What is left of a caller is the  *)
(* second call, if it will be made: pending holds these calls, the         *)
(* innermost first.  One action is one iteration of the loop that grows    *)
(* the set, or the rest of a call up to the next one.                      *)
(***************************************************************************)
EXTENDS IndependentSets, Semantics, Sequences

CONSTANT Inputs     \* the frameworks the input file may hold

VARIABLES
    prob,             \* "EE", "SE" or "DC"
    base,             \* the framework read
    argument,         \* the argument asked for; N unless prob is "DC"
    parent_mapping,   \* from af to base
    af,               \* the framework searched
    i, s, conflicting, dominated,     \* the arguments of the running call
    pending,          \* the second calls to come, [i, s]
    extensions,       \* extend: the list, the latest first
    extension,        \* extend_one: {} for NULL, {S} for S in base
    pc                \* "ask" in dc(), "grow" in a call, "back" after it, "done"

problemVars == <<prob, base, argument, parent_mapping, af>>
callVars == <<i, s, conflicting, dominated>>
vars == <<problemVars, callVars, pending, extensions, extension, pc>>

Size == Cardinality(DOMAIN af)

conflicts == ConflictFramework(af)

\* get_true_attackers
TrueAttackers(att, set) == {a \in DOMAIN att : ArgAttacksSet(att, a, set)}

-------------------------------------------------------------------------------
Refused == prob = "DC" /\ ArgAttacksArg(base, argument, argument)

\* dc(): what the argument does not attack, its attackers made self-attackers.
Remaining ==
    IF prob = "DC" /\ ~Refused THEN Arg \ base[argument] ELSE Arg

WithLoops(att) ==
    [a \in DOMAIN att |->
        IF prob = "DC" /\ ~Refused /\ ArgAttacksArg(base, parent_mapping[a], argument)
        THEN att[a] \cup {a} ELSE att[a]]

Init ==
    /\ prob \in {"EE", "SE", "DC"}
    /\ base \in Inputs
    /\ argument \in IF prob = "DC" THEN Arg ELSE {N}
    /\ parent_mapping = ParentMapping(Remaining)
    /\ af = WithLoops(Renamed(base, parent_mapping))
    /\ i = 0 /\ s = {} /\ conflicting = {} /\ dominated = {}
    /\ pending = <<>>
    /\ extensions = <<>> /\ extension = {}
    /\ pc = IF prob = "DC" THEN "ask" ELSE "grow"

\* dc() has no answer for an argument that attacks itself.
Refuse ==
    /\ pc = "ask" /\ Refused
    /\ pc' = "done"
    /\ UNCHANGED <<problemVars, callVars, pending, extensions, extension>>

Call ==
    /\ pc = "ask" /\ ~Refused
    /\ pc' = "grow"
    /\ UNCHANGED <<problemVars, callVars, pending, extensions, extension>>

Growing == pc = "grow" /\ i < Size /\ i \notin conflicting

Add ==
    /\ Growing
    /\ i \notin conflicts[i]
    /\ s' = s \cup {i}
    /\ conflicting' = conflicting \cup conflicts[i]
    /\ dominated' = dominated \cup {i} \cup af[i]
    /\ i' = i + 1
    /\ UNCHANGED <<problemVars, pending, extensions, extension, pc>>

\* Fault: the index is not advanced.
PassInPlace ==
    /\ Growing
    /\ i \in conflicts[i]
    /\ UNCHANGED <<problemVars, i, s, conflicting, dominated, pending, extensions, extension, pc>>

PassSelfAttacker ==
    /\ Growing
    /\ i \in conflicts[i]
    /\ i' = i + 1
    /\ UNCHANGED <<problemVars, s, conflicting, dominated, pending, extensions, extension, pc>>

Grown == pc = "grow" /\ (i = Size \/ i \in conflicting)

FullSet(set) == set = DOMAIN af

\* extend_one returns a set that dominates everything, through all callers.
ReturnOne ==
    /\ Grown /\ prob # "EE"
    /\ FullSet(dominated)
    /\ extension' = {MapIndices(s, parent_mapping) \cup (IF prob = "DC" THEN {argument} ELSE {})}
    /\ pc' = "done"
    /\ UNCHANGED <<problemVars, callVars, pending, extensions>>

\* extend tests a set only when there is nothing left to add to it.
Keep ==
    /\ Grown /\ prob = "EE" /\ i = Size
    /\ FullSet(dominated)
    /\ extensions' = <<s>> \o extensions
    /\ pc' = "back"
    /\ UNCHANGED <<problemVars, callVars, pending, extension>>

Discard ==
    /\ Grown /\ i = Size
    /\ ~FullSet(dominated)
    /\ pc' = "back"
    /\ UNCHANGED <<problemVars, callVars, pending, extensions, extension>>

\* i is in conflict with s: go on without it now, and with it later.
Branch ==
    /\ Grown /\ i < Size
    /\ prob # "EE" => ~FullSet(dominated)
    /\ pending' = IF IsCanonical(conflicts, s, i)
                  THEN <<[i |-> i + 1, s |-> Child(conflicts, s, i)]>> \o pending
                  ELSE pending
    /\ i' = i + 1
    /\ UNCHANGED <<problemVars, s, conflicting, dominated, extensions, extension, pc>>

SecondCall ==
    /\ pc = "back" /\ pending # <<>>
    /\ i' = Head(pending).i /\ s' = Head(pending).s
    /\ dominated' = s' \cup Victims(af, s')
    /\ conflicting' = TrueAttackers(af, s') \cup Victims(af, s')
    /\ pending' = Tail(pending)
    /\ pc' = "grow"
    /\ UNCHANGED <<problemVars, extensions, extension>>

ReturnToRoot ==
    /\ pc = "back" /\ pending = <<>>
    /\ pc' = "done"
    /\ UNCHANGED <<problemVars, callVars, pending, extensions, extension>>

Returned == pc = "done" /\ UNCHANGED vars

Next ==
    \/ Refuse \/ Call \/ Add \/ PassSelfAttacker \/ ReturnOne \/ Keep \/ Discard
    \/ Branch \/ SecondCall \/ ReturnToRoot \/ Returned

Spec == Init /\ [][Next]_vars /\ WF_vars(Next)

-------------------------------------------------------------------------------
\* A call that reaches the last argument has a maximal conflict-free set, also
\* when its set was started from a child, which holds no argument below i that
\* the search could still add.
LeafMaximal ==
    pc = "grow" /\ i = Size =>
        /\ ConflictFreeIn(af, s)
        /\ \A a \in DOMAIN af \ s : a \in af[a] \/ \E b \in s : a \in af[b] \/ b \in af[a]

\* No self-attacker of the framework searched is below another argument.
LoopsLast == SelfAttackersLast(af)

\* "iset can be generated as a child of canonical_parent U {j} or its superset"
\* (mis.c): a maximal child is given up only for a parent that exists.
AnotherParent ==
    Grown /\ i < Size /\ i \notin conflicts[i] /\ MaximalBelow(conflicts, s, i) =>
        \A j \in Deviations(conflicts, s, i) : IsConflictFree(af, CanonicalParent(conflicts, s, i)[j] \cup {j})
================================================================================
