------------------------------ MODULE NextClosure ------------------------------
(***************************************************************************)
(* next_conflict_free_closure of algorithms/next-closure/stable.c: from    *)
(* the set tmp it finds the lectically next closed set of the complement   *)
(* context that is reached through a conflict-free set.  The callers in    *)
(* StableNC and DcStableNC set tmp and i and handle the outcome: pc is     *)
(* "search" inside the loop, "check" after return(1) and "done" once       *)
(* return(0) has made the caller leave its own loop.                       *)
(*                                                                         *)
(* One action is one iteration of the for loop.                            *)
(***************************************************************************)
EXTENDS AF, LecticOrder

VARIABLES
    attacks,   \* the framework searched; its complement is not_attacks
    tmp,       \* the caller's tmp, the callee's current, edited in place
    c,         \* the caller's c, the callee's next
    i,         \* the loop index, N-1 down to -1
    pc

searchVars == <<attacks, tmp, c, i, pc>>

Closure(att, s) == DownUpArrow(Complement(att), s)

\* The three tests that skip an argument before its closure is computed.
InConflict(att, s, a) ==
    \/ ArgAttacksArg(att, a, a)
    \/ ArgAttacksSet(att, a, s)
    \/ SetAttacksArg(att, s, a)

\* Fault: also refuses what s already holds below a.
CanonicalWholeSet(s, next, a) == \A b \in next : b >= a

\* The closure adds no argument that precedes a.
Canonical(s, next, a) == \A b \in next \ s : b >= a

Searching == pc = "search" /\ i >= 0

Drop ==
    /\ Searching
    /\ i \in tmp
    /\ tmp' = tmp \ {i}
    /\ i' = i - 1
    /\ UNCHANGED <<attacks, c, pc>>

SkipConflict ==
    /\ Searching
    /\ i \notin tmp
    /\ InConflict(attacks, tmp, i)
    /\ i' = i - 1
    /\ UNCHANGED <<attacks, tmp, c, pc>>

Close ==
    /\ Searching
    /\ i \notin tmp
    /\ ~InConflict(attacks, tmp, i)
    /\ c' = Closure(attacks, tmp \cup {i})
    /\ IF Canonical(tmp, c', i)
       THEN pc' = "check" /\ i' = i
       ELSE pc' = pc /\ i' = i - 1
    /\ UNCHANGED <<attacks, tmp>>

Exhausted ==
    /\ pc = "search" /\ i < 0
    /\ pc' = "done"
    /\ UNCHANGED <<attacks, tmp, c, i>>

SearchStep == Drop \/ SkipConflict \/ Close \/ Exhausted

SearchTypeOK ==
    /\ attacks \in Framework
    /\ tmp \in SUBSET Arg
    /\ c \in SUBSET Arg
    /\ i \in -1 .. N-1
    /\ pc \in {"setup", "search", "check", "done"}
================================================================================
