-------------------------------- MODULE WccStable --------------------------------
(***************************************************************************)
(* wcc_stable_extensions of algorithms/connected-components/wcc.c: EE-ST   *)
(* by weakly connected components.  The extensions of each component are   *)
(* computed by the routine that the caller passes, and the list of the     *)
(* first component is turned, in place, into the list of all unions.       *)
(***************************************************************************)
EXTENDS Components, Semantics, Sequences

CONSTANTS
    Inputs,                     \* the frameworks the input file may hold
    stable_extensions(_, _),    \* the sets that a routine lists for a framework
    crashes(_, _)               \* whether the routine ends the process instead

VARIABLES
    routine,            \* the function passed
    af,
    components,         \* the list of the masks
    extension_lists,    \* of the components solved so far
    res,                \* the list of unions, which begins as extension_lists[0]
    cur,                \* the position in res
    i,                  \* the component whose extensions are being joined
    pc                  \* "solve", "join", "done", "crash"

vars == <<routine, af, components, extension_lists, res, cur, i, pc>>

\* Those of run_cc's callers.
Routines == {"mis", "norris", "nourine"}

\* The components are searched for, counted and walked through with indices of type
\* unsigned short: with more arguments the loops do not end.
SmallEnough == N < 2^16

\* wcc: a component for each start of the search, the latest first.
Wcc(att) ==
    LET starts == Starts(Undirected(att), DOMAIN att)
        before(a) == Cardinality({b \in starts : b > a})
    IN  [k \in 1 .. Cardinality(starts) |->
            Visited(Undirected(att), CHOOSE a \in starts : before(a) = k - 1)]

Init ==
    /\ SmallEnough
    /\ routine \in Routines
    /\ af \in Inputs
    /\ components = Wcc(af)
    /\ extension_lists = <<>>
    /\ res = <<>> /\ cur = 1 /\ i = 1
    /\ pc = "solve"

\* The projection that stable_extensions is called for.
Projection(component) == Renamed(af, ParentMapping(component))

\* It lists its result, in the indices of the projection, in some order.
SolveNext ==
    /\ pc = "solve" /\ Len(extension_lists) < Len(components)
    /\ LET paf == Projection(components[Len(extension_lists) + 1])
       IN  IF crashes(routine, paf)
           THEN pc' = "crash" /\ UNCHANGED extension_lists
           ELSE \E exts \in {stable_extensions(routine, paf)} : \E list \in Listings(exts) :
                    /\ extension_lists' = Append(extension_lists, list)
                    /\ pc' = IF list = <<>> THEN "done" ELSE "solve"
    /\ UNCHANGED <<routine, af, components, res, cur, i>>

\* Fault: the first list keeps the indices of its projection.
RestoreOthers ==
    /\ pc = "solve" /\ Len(extension_lists) = Len(components)
    /\ res' = extension_lists[1]
    /\ extension_lists' = [k \in DOMAIN extension_lists |->
           [m \in DOMAIN extension_lists[k] |->
               MapIndices(extension_lists[k][m], ParentMapping(components[k]))]]
    /\ i' = 2 /\ cur' = 1
    /\ pc' = "join"
    /\ UNCHANGED <<routine, af, components>>

\* restore_indices.
Restore ==
    /\ pc = "solve" /\ Len(extension_lists) = Len(components)
    /\ extension_lists' = [k \in DOMAIN extension_lists |->
           [m \in DOMAIN extension_lists[k] |->
               MapIndices(extension_lists[k][m], ParentMapping(components[k]))]]
    /\ res' = extension_lists'[1]
    /\ i' = 2 /\ cur' = 1
    /\ pc' = "join"
    /\ UNCHANGED <<routine, af, components>>

\* The node of res at cur is replaced by its unions with the extensions of
\* component i; the walk goes on behind them.
JoinOne ==
    /\ pc = "join" /\ i <= Len(components) /\ cur <= Len(res)
    /\ res' = SubSeq(res, 1, cur - 1)
              \o [m \in DOMAIN extension_lists[i] |-> res[cur] \cup extension_lists[i][m]]
              \o SubSeq(res, cur + 1, Len(res))
    /\ cur' = cur + Len(extension_lists[i])
    /\ UNCHANGED <<routine, af, components, extension_lists, i, pc>>

NextComponent ==
    /\ pc = "join" /\ i <= Len(components) /\ cur > Len(res)
    /\ i' = i + 1 /\ cur' = 1
    /\ UNCHANGED <<routine, af, components, extension_lists, res, pc>>

Return ==
    /\ pc = "join" /\ i > Len(components)
    /\ pc' = "done"
    /\ UNCHANGED <<routine, af, components, extension_lists, res, cur, i>>

Returned == pc \in {"done", "crash"} /\ UNCHANGED vars

Next ==
    \/ SolveNext \/ Restore \/ JoinOne \/ NextComponent \/ Return \/ Returned

Spec == Init /\ [][Next]_vars /\ WF_vars(Next)

-------------------------------------------------------------------------------
Elements(seq) == {seq[k] : k \in DOMAIN seq}

\* What was listed for a component, with the indices of af.
ComponentExtensions(component) ==
    {MapIndices(e, ParentMapping(component)) :
        e \in stable_extensions(routine, Projection(component))}

\* While component i is joined, the part of res before cur has the unions of what
\* was listed for the components up to i, one for each of them, and the part behind
\* it those of the components before i that are still to be extended; neither holds
\* a set twice.
JoinedSoFar ==
    pc = "join" =>
        LET covered(k) == UNION {components[m] : m \in 1 .. k}
            unions(k) == {e \in SUBSET covered(k) : \A m \in 1 .. k :
                             e \cap components[m] \in ComponentExtensions(components[m])}
            old == {res[k] : k \in cur .. Len(res)}
            new == {res[k] : k \in 1 .. cur - 1}
        IN  /\ Cardinality(Elements(res)) = Len(res)
            /\ i > Len(components) => Elements(res) = unions(i - 1)
            /\ i <= Len(components) =>
                   /\ old \subseteq unions(i - 1)
                   /\ new = {e \in unions(i) : e \cap covered(i-1) \notin old}
================================================================================
