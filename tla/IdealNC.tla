-------------------------------- MODULE IdealNC --------------------------------
(***************************************************************************)
(* se_id of algorithms/ideal/ideal.c on top of ee_pr_next_closure: the     *)
(* intersection of the preferred extensions is shrunk to its largest       *)
(* admissible subset by removing the victims of attackers that it does not *)
(* attack back, one attacker per round.                                    *)
(***************************************************************************)
EXTENDS PreferredNC

VARIABLES
    ideal,
    attacked,        \* its victims
    attackers,       \* those of its attackers in attacker_indices
    capacity         \* of attacker_indices, as allocated

idealVars == <<ideal, attacked, attackers, capacity>>

IdealInit ==
    /\ Init
    /\ ideal = {} /\ attacked = {} /\ attackers = {} /\ capacity = 0

Preferred == PreferredStep /\ UNCHANGED idealVars

Attackers(s) == {a \in Arg : ArgAttacksSet(attacks, a, s)}

\* An empty intersection is returned at once.
Intersect ==
    /\ pc = "listed"
    /\ ideal' = {a \in Arg : \A S \in Elements(first_candidate) : a \in S}
    /\ IF ideal' = {}
       THEN pc' = "done" /\ UNCHANGED <<attacked, attackers, capacity>>
       ELSE /\ attacked' = Victims(attacks, ideal')
            /\ attackers' = Attackers(ideal')
            /\ capacity' = N - Cardinality(ideal')
            /\ pc' = "shrink"
    /\ UNCHANGED <<attacks, ignored, current, new_intent, i, c, first_candidate>>

\* The code takes the first such attacker of an array that it keeps reordering;
\* here it may be any.
Shrink ==
    /\ pc = "shrink"
    /\ \E a \in attackers \ attacked : ideal' = ideal \ attacks[a]
    /\ attacked' = Victims(attacks, ideal')
    /\ attackers' = {a \in attackers : ArgAttacksSet(attacks, a, ideal')}
    /\ UNCHANGED <<vars, capacity>>

\* Fault: the set is returned with attackers left to counter.
ReturnAtOnce ==
    /\ pc = "shrink"
    /\ pc' = "done"
    /\ UNCHANGED <<attacks, ignored, current, new_intent, i, c, first_candidate, idealVars>>

Return ==
    /\ pc = "shrink"
    /\ attackers \subseteq attacked
    /\ pc' = "done"
    /\ UNCHANGED <<attacks, ignored, current, new_intent, i, c, first_candidate, idealVars>>

Returned == pc = "done" /\ UNCHANGED <<vars, idealVars>>

IdealNext == Preferred \/ Intersect \/ Shrink \/ Return \/ Returned

IdealSpec ==
    IdealInit /\ [][IdealNext]_<<vars, idealVars>> /\ WF_<<vars, idealVars>>(IdealNext)

-------------------------------------------------------------------------------
\* The attackers fit the array allocated for them: no preferred extension
\* attacks its own members, so none of the intersection is an attacker.
AttackersFit == pc = "shrink" => Cardinality(attackers) <= capacity
================================================================================
