---------------------------- MODULE UnitImplications ----------------------------
(***************************************************************************)
(* The implications of algorithms/nourine/stable.c.  A -> b says that an   *)
(* extension without the arguments of A is without b.  Implications and    *)
(* conflicts sharpen each other; the closure of the empty set is where the *)
(* walk starts.  Nourine has the loops one pass after the other.           *)
(***************************************************************************)
EXTENDS AF, Semantics

Attackers(att, a) == {b \in DOMAIN att : a \in att[b]}

Implication(lhs, rhs) == [lhs |-> lhs, rhs |-> rhs]

SelfConflict(att) == {Implication({}, a) : a \in {b \in DOMAIN att : b \in att[b]}}

\* If a is in the extension, an attacker of it that it does not attack back is
\* attacked by something else, which is not in conflict with a.
OneWay(att) == {attack \in (DOMAIN att) \X (DOMAIN att) :
                   /\ attack[2] \notin att[attack[2]]
                   /\ attack[2] \in att[attack[1]] /\ attack[1] \notin att[attack[2]]}

create_unit_implications(att) ==
    SelfConflict(att) \cup
    {Implication(Attackers(att, attack[1]) \ ConflictFramework(att)[attack[2]], attack[2]) :
        attack \in OneWay(att)}

\* The order of the list decides how many passes it takes, at most one for each
\* argument, not where they end.
unit_close(x, list) ==
    LET pass[n \in Nat] ==
            IF n = 0 THEN x
            ELSE UNION {r \cup {imp.rhs : imp \in {m \in list : m.lhs \subseteq r}} :
                           r \in {pass[n-1]}}
    IN  pass[N]

\* Self-conflicts found meanwhile are in conflict with everything.
Symmetric(rows) ==
    [a \in DOMAIN rows |-> rows[a] \cup
        {b \in DOMAIN rows \ {a} : a \in rows[a] \/ b \in rows[b] \/ a \in rows[b]}]

\* update_conflicts.
Sharper(conflicts, imps) ==
    Symmetric([a \in DOMAIN conflicts |-> unit_close(conflicts[a], imps)])

\* Fault: the conflicts of the left-hand side are removed, not those of b.
WithoutConflictsOfLhs(conflicts, imp) ==
    [imp EXCEPT !.lhs = @ \ UNION {conflicts[a] : a \in @}]

WithoutConflicts(conflicts, imp) == [imp EXCEPT !.lhs = @ \ conflicts[imp.rhs]]

-------------------------------------------------------------------------------
\* The implications after n rounds of the first loop, if it goes on for so long.
Sharpened(att) ==
    LET round[n \in Nat] ==
            IF n = 0
            THEN [conflicts |-> ConflictFramework(att), imps |-> create_unit_implications(att)]
            ELSE LET last == round[n-1]
                     rows == Sharper(last.conflicts, last.imps)
                 IN  [conflicts |-> rows,
                      imps |-> {WithoutConflicts(rows, imp) : imp \in last.imps}]
    IN  round

\* The loop ends when nothing was removed; each round before that has removed an
\* argument of one of the implications, of which there is one for an attack.
FinalImplications(att) ==
    LET round == Sharpened(att)
        unchanged(n) == round[n+1].imps = round[n].imps
        last == CHOOSE n \in 0 .. Cardinality(DOMAIN att)^3 :
                    unchanged(n) /\ \A m \in 0 .. n-1 : ~unchanged(m)
    IN  round[last].imps

\* The complement of the closure of the empty set, with which the walk starts.
FirstSet(att) == DOMAIN att \ unit_close({}, FinalImplications(att))

\* What the walk lists: the first set is tested for conflicts only, the others for
\* domination too, and it passes over no stable extension (Nourine).
WalkedSets(att) ==
    StableExtensions(att) \cup {set \in {FirstSet(att)} : IsConflictFree(att, set)}
================================================================================
