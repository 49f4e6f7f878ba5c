----------------------------- MODULE NorrisBottomUp -----------------------------
(***************************************************************************)
(* algorithms/norris/stable_bu.c: the stable extensions from the full set  *)
(* downwards.  A concept pairs a set of arguments with what all of them    *)
(* leave unattacked; a round adds one argument to the extents and narrows  *)
(* the intents.  One action is one node of the walk.                       *)
(***************************************************************************)
EXTENDS AF, Semantics, Sequences

CONSTANT Inputs     \* the frameworks the routine may be called with

VARIABLES
    af,
    i,              \* the argument of the round
    concepts,       \* the list as the round found it
    cur,            \* the position of cur in it
    fresh,          \* the nodes put in front of it in this round
    extensions,
    pc              \* "round", "done"

vars == <<af, i, concepts, cur, fresh, extensions, pc>>

not_attacks(a) == Arg \ af[a]

Concept(extent, intent) == [extent |-> extent, intent |-> intent]

\* Arguments that s does not attack.
arrow_up(s) == {a \in Arg : \A b \in s : a \in not_attacks(b)}

\* A framework without attacks is answered at once.
Init ==
    /\ af \in Inputs
    /\ i = 0 /\ cur = 1 /\ fresh = <<>>
    /\ \/ /\ IsConflictFree(af, Arg)
          /\ pc = "done" /\ concepts = <<>> /\ extensions = <<Arg>>
       \/ /\ ~IsConflictFree(af, Arg)
          /\ pc = "round" /\ concepts = <<Concept({}, Arg)>> /\ extensions = <<>>

Walking == pc = "round" /\ cur <= Len(concepts)

Covered(c) == c.intent \subseteq not_attacks(i)

\* The "lectic-order test".
IsNewExtentClosed(c, intent) ==
    \A j \in (0 .. i-1) \ c.extent : ~(intent \subseteq not_attacks(j))

Update ==
    /\ Walking
    /\ Covered(concepts[cur])
    /\ concepts' = [concepts EXCEPT ![cur].extent = @ \cup {i}]
    /\ cur' = cur + 1
    /\ UNCHANGED <<af, i, fresh, extensions, pc>>

\* Fault: a set is kept only if what it does not attack lies properly inside it.
BranchOnProper ==
    /\ Walking
    /\ ~Covered(concepts[cur])
    /\ LET c == concepts[cur]
           intent == c.intent \cap not_attacks(i)
           up == arrow_up(intent)
           closed == IsNewExtentClosed(c, intent)
       IN  /\ extensions' = IF closed /\ intent = up
                            THEN <<intent>> \o extensions ELSE extensions
           /\ fresh' = IF closed /\ intent # up /\ intent \subseteq up
                       THEN <<Concept(c.extent \cup {i}, intent)>> \o fresh ELSE fresh
    /\ cur' = cur + 1
    /\ UNCHANGED <<af, i, concepts, pc>>

\* A set that is not what it leaves unattacked is kept if it attacks everything
\* outside: a part of it may still be an extension.
Branch ==
    /\ Walking
    /\ ~Covered(concepts[cur])
    /\ LET c == concepts[cur]
           intent == c.intent \cap not_attacks(i)
           up == arrow_up(intent)
           closed == IsNewExtentClosed(c, intent)
       IN  /\ extensions' = IF closed /\ intent = up
                            THEN <<intent>> \o extensions ELSE extensions
           /\ fresh' = IF closed /\ intent # up /\ up \subseteq intent
                       THEN <<Concept(c.extent \cup {i}, intent)>> \o fresh ELSE fresh
    /\ cur' = cur + 1
    /\ UNCHANGED <<af, i, concepts, pc>>

EndRound ==
    /\ pc = "round" /\ cur > Len(concepts)
    /\ concepts' = fresh \o concepts
    /\ fresh' = <<>>
    /\ cur' = 1
    /\ i' = i + 1
    /\ pc' = IF i' = N THEN "done" ELSE "round"
    /\ UNCHANGED <<af, extensions>>

Returned == pc = "done" /\ UNCHANGED vars

Next == Update \/ Branch \/ EndRound \/ Returned

Spec == Init /\ [][Next]_vars /\ WF_vars(Next)

-------------------------------------------------------------------------------
\* The arguments that attack nothing in S.
Harmless(S) == {a \in Arg : af[a] \cap S = {}}

\* Between two rounds an extension that has not been found is still below one
\* concept: the one with its harmless arguments below i, and its intent holds it.
OneConceptAbove ==
    (pc = "round" /\ cur = 1 /\ fresh = <<>>) =>
        \A S \in StableExtensions(af) \ {extensions[k] : k \in DOMAIN extensions} :
            \E k \in DOMAIN concepts :
                /\ concepts[k].extent = Harmless(S) \cap (0 .. i-1)
                /\ S \subseteq concepts[k].intent
                /\ \A l \in DOMAIN concepts :
                       concepts[l].extent = concepts[k].extent => l = k
================================================================================
