------------------------------ MODULE DcCompleteNC ------------------------------
(***************************************************************************)
(* dc_co_next_closure_2 and dc_co_subgraph_next_closure of                 *)
(* algorithms/next-closure/complete.c: is an argument in some complete     *)
(* extension?  If the semi-complete closure of the argument does not       *)
(* decide it, the framework is sorted by the number of victims, the        *)
(* defenders of the argument are swapped to the end and the argument to    *)
(* the front, and the search of SemiCompleteNC starts from it.  The        *)
(* subgraph routine does this on the arguments that can reach the one      *)
(* asked for, and closes the answer in the whole framework.                *)
(*                                                                         *)
(* dc_co_subgraph_next_closure_adj of complete_2.c is the subgraph routine *)
(* with another closure, which works on adjacency lists: "subgraph_adj".   *)
(***************************************************************************)
EXTENDS SemiCompleteNC, Components, Semantics

CONSTANTS
    Inputs,            \* the frameworks the input file may hold
    Algorithms         \* a subset of {"next-closure", "subgraph", "subgraph_adj"}

VARIABLES
    alg,
    base,              \* the framework read
    asked,             \* the argument asked for, in base
    af,                \* the framework solved: base or its projection
    parent_mapping,    \* from af to base
    argument,          \* the argument in af
    mapping,           \* from the reordered framework attacks to af
    argument_index,
    next_index_to_use,
    k,                 \* the index of the defender loop
    answer             \* {} for NULL, {S} for the extension S in base

dcVars == <<alg, base, asked, af, parent_mapping, argument, mapping,
            argument_index, next_index_to_use, k>>
vars == <<searchVars, dcVars, answer>>

Identity(size) == [a \in 0 .. size-1 |-> a]

-------------------------------------------------------------------------------
\* closure_semi_complete_adj counts down for a, which attacks others, how many of
\* its attackers are attacked by t.  The countdown starts from the length of the
\* list of victims, not of attackers.

\* Fault: an attacker counts as often as it is attacked.
CountedDownPerAttack(adj, t, a) ==
    /\ adj[a] # {}
    /\ Cardinality({x \in Transpose(adj)[a] \X t : x[1] \in adj[x[2]]}) >= Cardinality(adj[a])

CountedDown(adj, t, a) ==
    /\ adj[a] # {}
    /\ Cardinality(Transpose(adj)[a] \cap Victims(adj, t)) >= Cardinality(adj[a])

\* The least superset of s that holds the unattacked arguments of att and all that
\* are counted down to 0 in adj.
CountdownClosure(att, adj, s) ==
    LET round[n \in Nat] ==
            IF n = 0 THEN s \cup {a \in DOMAIN att : Transpose(att)[a] = {}}
            ELSE UNION {r \cup {a \in DOMAIN att : CountedDown(adj, r, a)} : r \in {round[n-1]}}
    IN  round[Cardinality(DOMAIN att)]

ClosureIn(att, adj, s) ==
    IF alg = "subgraph_adj" THEN CountdownClosure(att, adj, s) ELSE SemiClosure(att, s)

\* The arguments from which a can be reached along attacks (backward_dfs,
\* extract_subgraph).
Ancestors(att, a) == Visited(Backward(att, DOMAIN att), a)

Init ==
    /\ alg \in Algorithms
    /\ base \in Inputs
    /\ asked \in Arg
    /\ parent_mapping = IF alg = "next-closure" THEN Identity(N)
                                                ELSE ParentMapping(Ancestors(base, asked))
    /\ af = Renamed(base, parent_mapping)
    /\ argument = CHOOSE a \in DOMAIN af : parent_mapping[a] = asked
    /\ attacks = af /\ pruning = FALSE
    /\ current = {} /\ tmp = {} /\ tmp_complement = {} /\ i = -1
    /\ mapping = Identity(Size)
    /\ argument_index = argument /\ next_index_to_use = Size - 1 /\ k = Size - 1
    /\ answer = {}
    /\ pc = "closure"

\* What is handed back for the extension S of af.
Result(S) ==
    LET projected_back == MapIndices(S, parent_mapping)
    IN  IF alg = "next-closure" THEN projected_back ELSE ClosureIn(base, base, projected_back)

\* The closure of the argument alone decides if it has a conflict or if it
\* defends itself.
FirstClosure ==
    /\ pc = "closure"
    /\ LET closure == ClosureIn(af, af, {argument})
       IN  \/ /\ ~IsConflictFree(af, closure)
              /\ pc' = "done" /\ answer' = {}
           \/ /\ IsConflictFree(af, closure) /\ SelfDefending(af, closure)
              /\ pc' = "done" /\ answer' = {Result(closure)}
           \/ /\ IsConflictFree(af, closure) /\ ~SelfDefending(af, closure)
              /\ pc' = "sort" /\ answer' = {}
    /\ UNCHANGED <<attacks, pruning, current, tmp, tmp_complement, i, dcVars>>

\* Orders that qsort may leave: by descending victim count, ties in any order.
Sorted(att) ==
    {m \in [DOMAIN att -> DOMAIN att] :
        /\ \A a, b \in DOMAIN att : m[a] = m[b] => a = b
        /\ \A a, b \in DOMAIN att :
               a < b => Cardinality(att[m[a]]) >= Cardinality(att[m[b]])}

Sort ==
    /\ pc = "sort"
    /\ mapping' \in Sorted(af)
    /\ attacks' = Renamed(af, mapping')
    /\ argument_index' = CHOOSE a \in DOMAIN af : mapping'[a] = argument
    /\ pc' = "defenders"
    /\ UNCHANGED <<pruning, current, tmp, tmp_complement, i, alg, base, asked, af,
                   parent_mapping, argument, next_index_to_use, k, answer>>

\* Fault: the rows and columns are exchanged, the mapping is not.
SwapWithoutMapping(a, b) == attacks' = SwapArguments(attacks, a, b) /\ mapping' = mapping

\* Exchanges two arguments in the frameworks and in the mapping.
Swap(a, b) ==
    /\ attacks' = SwapArguments(attacks, a, b)
    /\ mapping' = [mapping EXCEPT ![a] = mapping[b], ![b] = mapping[a]]

\* k attacks every attacker of the argument that is at argument_index.
IsDefender(a) == Transpose(attacks)[argument_index] \subseteq attacks[a]

\* argument_index is not updated, whatever is swapped.
MoveDefender ==
    /\ pc = "defenders" /\ k >= 0
    /\ IsDefender(k)
    /\ Swap(next_index_to_use, k)
    /\ next_index_to_use' = next_index_to_use - 1
    /\ k' = k - 1
    /\ UNCHANGED <<pruning, current, tmp, tmp_complement, i, pc, alg, base, asked, af,
                   parent_mapping, argument, argument_index, answer>>

LeaveInPlace ==
    /\ pc = "defenders" /\ k >= 0
    /\ ~IsDefender(k)
    /\ k' = k - 1
    /\ UNCHANGED <<searchVars, alg, base, asked, af, parent_mapping, argument, mapping,
                   argument_index, next_index_to_use, answer>>

MoveArgument ==
    /\ pc = "defenders" /\ k < 0
    /\ Swap(0, argument_index)
    /\ current' = {0}
    /\ pc' = "check"
    /\ UNCHANGED <<pruning, tmp, tmp_complement, i, alg, base, asked, af, parent_mapping,
                   argument, argument_index, next_index_to_use, k, answer>>

-------------------------------------------------------------------------------
\* The adjacency lists the search is given are those of af, whose arguments have
\* not been reordered.
Close == CloseTo(ClosureIn(attacks, af, tmp \cup {i}))

Search == (Drop \/ Skip \/ Close \/ Exhausted) /\ UNCHANGED <<dcVars, answer>>

\* Fault: the answer is not mapped back.
AnswerRenamed ==
    /\ pc = "check"
    /\ SelfDefending(attacks, current)
    /\ answer' = {Result(current)}
    /\ pc' = "done"
    /\ UNCHANGED <<attacks, pruning, current, tmp, tmp_complement, i, dcVars>>

Answer ==
    /\ pc = "check"
    /\ SelfDefending(attacks, current)
    /\ answer' = {Result(MapIndices(current, mapping))}
    /\ pc' = "done"
    /\ UNCHANGED <<attacks, pruning, current, tmp, tmp_complement, i, dcVars>>

Pass ==
    /\ pc = "check"
    /\ ~SelfDefending(attacks, current)
    /\ Enter(current)
    /\ UNCHANGED <<attacks, pruning, current, dcVars, answer>>

Returned == pc = "done" /\ UNCHANGED vars

Next ==
    \/ FirstClosure \/ Sort \/ MoveDefender \/ LeaveInPlace \/ MoveArgument
    \/ Search \/ Answer \/ Pass \/ Returned

Spec == Init /\ [][Next]_vars /\ WF_vars(Next)

-------------------------------------------------------------------------------
\* The swaps keep attacks the framework af renamed along a permutation.
MappingFaithful ==
    /\ \A b \in DOMAIN af : \E a \in DOMAIN af : mapping[a] = b
    /\ attacks = Renamed(af, mapping)

\* The argument was at argument_index when it was to be moved to the front.
ArgumentInFront == pc \in {"check", "search", "done"} /\ k < 0 => mapping[0] = argument
================================================================================
