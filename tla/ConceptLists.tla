------------------------------ MODULE ConceptLists ------------------------------
(***************************************************************************)
(* The concepts of the complement context that algorithms/norris/stable.c  *)
(* keeps in its list, and what a round makes of them.  Norris walks        *)
(* through the list node by node; which concepts a round leaves does not   *)
(* depend on their order.                                                  *)
(***************************************************************************)
EXTENDS AF

\* Arguments that do not attack a.
argument_extents(att, a) == {b \in DOMAIN att : a \notin att[b]}

Concept(extent, intent, not_attacked) ==
    [extent |-> extent, intent |-> intent, not_attacked |-> not_attacked]

ConflictFree(c) == c.extent \cap c.not_attacked

\* What a concept becomes with i in its intent.
Grown(att, i, c, extent) == Concept(extent, c.intent \cup {i}, c.not_attacked \ att[i])

IsStable(c) == c.intent = c.not_attacked

\* Nothing outside the intent can be added any more.
IsExhausted(c) == ConflictFree(c) = c.intent

\* i is not in conflict with the concept.
Fits(i, c) == i \in ConflictFree(c)

\* Every argument that could still join attacks nothing in U {i}.
Covered(att, i, c) == c.extent \subseteq argument_extents(att, i)

\* The "lectic-order test".
IsNewIntentClosed(att, i, c, extent) ==
    \A j \in (0 .. i-1) \ c.intent : ~(extent \subseteq argument_extents(att, j))

-------------------------------------------------------------------------------
\* The concepts that round i leaves in the place of c.
Updated(att, i, c) ==
    IF Fits(i, c) /\ Covered(att, i, c)
    THEN {new \in {Grown(att, i, c, c.extent)} : ~IsStable(new) /\ ~IsExhausted(new)}
    ELSE {c}

\* Those that it branches off.
BranchedOff(att, i, c) ==
    {new \in {Grown(att, i, c, c.extent \cap argument_extents(att, i))} :
        /\ Fits(i, c) /\ ~Covered(att, i, c)
        /\ IsNewIntentClosed(att, i, c, new.extent)
        /\ ~IsStable(new) /\ ~IsExhausted(new)}

\* The concepts in the list when round n starts.
Listed(att) ==
    LET concepts[n \in Nat] ==
            IF n = 0 THEN {Concept(DOMAIN att, {}, DOMAIN att)}
            ELSE UNION {Updated(att, n-1, c) \cup BranchedOff(att, n-1, c) :
                           c \in concepts[n-1]}
    IN  concepts

\* The first node is the one with all arguments as its extent.  It is freed in the
\* round that removes it, unless it is the only one.
FreesHead(att) ==
    \E i \in DOMAIN att : \E head \in Listed(att)[i] :
        /\ head.extent = DOMAIN att
        /\ Updated(att, i, head) = {}
        /\ Listed(att)[i] # {head}
================================================================================
