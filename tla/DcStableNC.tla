------------------------------- MODULE DcStableNC -------------------------------
(***************************************************************************)
(* dc_st_next_closure of algorithms/next-closure/stable.c: is an argument  *)
(* in some stable extension?  The arguments in conflict with it are moved  *)
(* to the front, the argument itself right behind them, and the search of  *)
(* NextClosure starts from that argument alone on the renamed framework.   *)
(* It is given up once a set reaches into the conflicting front.           *)
(***************************************************************************)
EXTENDS NextClosure, Semantics

CONSTANT Inputs     \* the frameworks the input file may hold

VARIABLES
    af,             \* the framework read; attacks is attacks_mapped
    argument,       \* the argument asked for
    mapping,        \* mapping[a] is the original index of a
    p,              \* number of conflicting arguments moved so far
    index_argument, \* where the argument has been swapped to
    mask,           \* the positions of the conflicting arguments
    k,              \* the index of the mapping loop
    result          \* the caller's bitset, in original indices

setupVars == <<af, argument, mapping, p, index_argument, mask, k>>
vars == <<searchVars, setupVars, result>>

NoAttacks == [a \in Arg |-> {}]

Init ==
    /\ af \in Inputs
    /\ argument \in Arg
    /\ attacks = NoAttacks
    /\ mapping = [a \in Arg |-> a]
    /\ p = 0 /\ index_argument = argument /\ mask = {} /\ k = 0
    /\ tmp = {} /\ c = {} /\ i = N - 1 /\ pc = "setup"
    /\ result = {}

SelfAttacks == ArgAttacksArg(af, argument, argument)

Conflicting(a) == ArgAttacksArg(af, a, argument) \/ ArgAttacksArg(af, argument, a)

\* The early return.
Refuse ==
    /\ pc = "setup" /\ k = 0 /\ SelfAttacks
    /\ pc' = "done"
    /\ UNCHANGED <<attacks, tmp, c, i, setupVars, result>>

\* Fault: the swap forgets that it may have moved the argument.
MoveConflictingForgets ==
    /\ pc = "setup" /\ k < N /\ ~SelfAttacks
    /\ Conflicting(k)
    /\ mapping' = [mapping EXCEPT ![p] = mapping[k], ![k] = mapping[p]]
    /\ mask' = mask \cup {p}
    /\ p' = p + 1
    /\ k' = k + 1
    /\ UNCHANGED <<searchVars, af, argument, index_argument, result>>

\* Swaps the k-th entry to the front; the swap may move the argument.
MoveConflicting ==
    /\ pc = "setup" /\ k < N /\ ~SelfAttacks
    /\ Conflicting(k)
    /\ mapping' = [mapping EXCEPT ![p] = mapping[k], ![k] = mapping[p]]
    /\ mask' = mask \cup {p}
    /\ p' = p + 1
    /\ index_argument' = IF mapping'[k] = argument THEN k ELSE index_argument
    /\ k' = k + 1
    /\ UNCHANGED <<searchVars, af, argument, result>>

LeaveInPlace ==
    /\ pc = "setup" /\ k < N /\ ~SelfAttacks
    /\ ~Conflicting(k)
    /\ k' = k + 1
    /\ UNCHANGED <<searchVars, af, argument, mapping, p, index_argument, mask, result>>

\* The while condition decides whether another closure is computed from s.
Round(s, front) ==
    /\ tmp' = s
    /\ i' = N - 1
    /\ pc' = IF s \cap front = {} THEN "search" ELSE "done"

Rename ==
    /\ pc = "setup" /\ k = N /\ ~SelfAttacks
    /\ mapping' = [mapping EXCEPT ![p] = argument, ![index_argument] = mapping[p]]
    /\ attacks' = Renamed(af, mapping')
    /\ Round({p}, mask)
    /\ UNCHANGED <<c, af, argument, p, index_argument, mask, k, result>>

Search == SearchStep /\ UNCHANGED <<setupVars, result>>

IsStableTest(att, s) == s = UpArrow(Complement(att), s)

\* Fault: the answer is not mapped back.
AnswerRenamed ==
    /\ pc = "check"
    /\ IsStableTest(attacks, c)
    /\ result' = c
    /\ pc' = "done"
    /\ UNCHANGED <<attacks, tmp, c, i, setupVars>>

Answer ==
    /\ pc = "check"
    /\ IsStableTest(attacks, c)
    /\ result' = MapIndices(c, mapping)
    /\ pc' = "done"
    /\ UNCHANGED <<attacks, tmp, c, i, setupVars>>

Pass ==
    /\ pc = "check"
    /\ ~IsStableTest(attacks, c)
    /\ Round(c, mask)
    /\ UNCHANGED <<attacks, c, setupVars, result>>

\* The routine has returned.
Returned == pc = "done" /\ UNCHANGED vars

Next ==
    \/ Refuse \/ MoveConflicting \/ LeaveInPlace \/ Rename
    \/ Search \/ Answer \/ Pass \/ Returned

Spec == Init /\ [][Next]_vars /\ WF_vars(Next)

-------------------------------------------------------------------------------
\* The chain of swaps leaves a renaming: a permutation that puts exactly the
\* conflicting arguments under the mask and the argument right behind them.
MappingFaithful ==
    pc # "setup" /\ ~SelfAttacks =>
        /\ \A b \in Arg : \E a \in Arg : mapping[a] = b
        /\ mask = 0 .. p-1
        /\ {mapping[a] : a \in mask} = {a \in Arg : Conflicting(a)}
        /\ mapping[p] = argument

\* What is returned is a stable extension of the framework read, in its indices.
ResultStable == result # {} => Stable(af, result)

\* If a stable extension holds the argument and another one, so does the result.
LargerNotMissed ==
    pc = "done" =>
        \A S \in StableExtensions(af) :
            argument \in S /\ S # {argument} => argument \in result

\* "Computes a stable extension containing arg (if there is any)" (stable.h).
AnswersQuestion ==
    pc = "done" =>
        IF \E S \in StableExtensions(af) : argument \in S
        THEN argument \in result /\ Stable(af, result)
        ELSE result = {}
================================================================================
