----------------------------- MODULE SemiCompleteNC -----------------------------
(***************************************************************************)
(* next_conflict_free_semi_complete_intent and its variant _2 of           *)
(* algorithms/next-closure/complete.c: the lectically next semi-complete   *)
(* set after current.  The callers pass one bitset as current and next, so *)
(* a rejected closure overwrites it too; the search goes on from tmp.      *)
(*                                                                         *)
(* The first routine also prunes: it never adds a peaceful argument, nor   *)
(* one that alone defends an argument below it which current lacks.        *)
(***************************************************************************)
EXTENDS SemiComplete, LecticOrder, FiniteSets

VARIABLES
    attacks,           \* the framework searched
    pruning,           \* FALSE for the variant _2
    current,
    tmp,
    tmp_complement,    \* of current when the routine was entered
    i,
    pc                 \* "search" inside the routine, "check" after return(1)

searchVars == <<attacks, pruning, current, tmp, tmp_complement, i, pc>>

Size == Cardinality(DOMAIN attacks)

\* Arguments that attack nothing.
Peaceful(att) == {a \in DOMAIN att : att[a] = {}}

\* Fault: also the arguments above a, which the search has behind it.
AnyDefended(att, a) == {b \in DOMAIN att : Transpose(att)[b] \subseteq att[a]}

\* Arguments below a whose attackers a alone attacks.
SmallerDefended(att, a) ==
    {b \in DOMAIN att : b < a /\ Transpose(att)[b] \subseteq att[a]}

Pruned(a) ==
    \/ a \in Peaceful(attacks)
    \/ tmp_complement \cap SmallerDefended(attacks, a) # {}

InConflict(att, s, a) ==
    \/ ArgAttacksArg(att, a, a)
    \/ ArgAttacksSet(att, a, s)
    \/ SetAttacksArg(att, s, a)

Canonical(s, next, a) == \A b \in next \ s : b >= a

\* The conflicts looked for in an accepted closure next of s: a member above a
\* that attacks into next and is attacked by s.
ConflictAbove(att, s, next, a) ==
    \E b \in next : b > a /\ ArgAttacksSet(att, b, next) /\ SetAttacksArg(att, s, b)

\* Fault: current is not copied to tmp.
EnterKeepsTmp(s) ==
    /\ tmp' = tmp
    /\ tmp_complement' = DOMAIN attacks \ s
    /\ i' = Size - 1
    /\ pc' = "search"

\* The entry of the routine.
Enter(s) ==
    /\ tmp' = s
    /\ tmp_complement' = DOMAIN attacks \ s
    /\ i' = Size - 1
    /\ pc' = "search"

Searching == pc = "search" /\ i >= 0

Drop ==
    /\ Searching
    /\ i \in tmp
    /\ tmp' = tmp \ {i}
    /\ i' = i - 1
    /\ UNCHANGED <<attacks, pruning, current, tmp_complement, pc>>

Skip ==
    /\ Searching
    /\ i \notin tmp
    /\ InConflict(attacks, tmp, i) \/ (pruning /\ Pruned(i))
    /\ i' = i - 1
    /\ UNCHANGED <<attacks, pruning, current, tmp, tmp_complement, pc>>

\* i is added and closure computed, which is accepted or rejected.
CloseTo(closure) ==
    /\ Searching
    /\ i \notin tmp
    /\ ~InConflict(attacks, tmp, i)
    /\ ~(pruning /\ Pruned(i))
    /\ current' = closure
    /\ IF /\ Canonical(tmp, current', i)
          /\ ~ConflictAbove(attacks, tmp \cup {i}, current', i)
       THEN pc' = "check" /\ i' = i
       ELSE pc' = pc /\ i' = i - 1
    /\ UNCHANGED <<attacks, pruning, tmp, tmp_complement>>

Exhausted ==
    /\ pc = "search" /\ i < 0
    /\ pc' = "done"
    /\ UNCHANGED <<attacks, pruning, current, tmp, tmp_complement, i>>
================================================================================
