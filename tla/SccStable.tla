-------------------------------- MODULE SccStable --------------------------------
(***************************************************************************)
(* scc_stable_extensions and scc_count_stable_etensions of                 *)
(* algorithms/connected-components/scc.c and scc_count.c: EE-ST and CE-ST  *)
(* by recursion over source components.  The extensions of a source        *)
(* component are computed by the routine that the caller passes; for each  *)
(* of them the recursion goes on with what it leaves of the other          *)
(* arguments.  Two maps remember what has been computed.                   *)
(*                                                                         *)
(* The lists are modelled as linked nodes, because a node can be in a      *)
(* cached list and in a result at the same time: nodes is the heap, a      *)
(* pointer is a position in it, 0 is NULL.                                 *)
(***************************************************************************)
EXTENDS Components, Semantics, Sequences

CONSTANTS
    Inputs,                     \* the frameworks the input file may hold
    stable_extensions(_, _),    \* the sets that a routine lists for a framework
    crashes(_, _)               \* whether the routine ends the process instead

VARIABLES
    prob,                   \* "EE" or "CE"
    routine,                \* the function passed
    af,
    nodes,                  \* [c, next]
    freed,                  \* the nodes that have been freed
    subextensions,          \* from sets of arguments to lists
    subextension_counts,    \* from components to numbers
    frames,                 \* the calls on the stack, the innermost first
    returned,               \* the list returned last, or what is left of it
    n,                      \* the number returned last
    pc,                     \* "call", "component", "loop", "append", "done", "crash"
    put,                    \* history: the sets that each list held when it was put
    stale                   \* history: a list read from a map was not as put

vars == <<prob, routine, af, nodes, freed, subextensions, subextension_counts, frames,
          returned, n, pc, put, stale>>

\* Those of run_cc's callers; run_scc_norris_count has only one.
Routines == {"mis", "norris", "norris-bu", "nourine", "next-closure"}

Null == 0

\* A key that was never put and a key that was put with NULL look the same.
Lookup(map, key) == IF key \in DOMAIN map THEN map[key] ELSE Null

Put(key, value, map) ==
    [k \in DOMAIN map \cup {key} |-> IF k = key THEN value ELSE map[k]]

\* The projection on component that stable_extensions is called for.
Projection(component) == Renamed(af, ParentMapping(component))

\* What it returns, with the indices of af.
ComponentExtensions(component) ==
    {MapIndices(e, ParentMapping(component)) :
        e \in stable_extensions(routine, Projection(component))}

\* The nodes of the list that starts at node.
Chain(node) ==
    LET chain[k \in Nat] ==
            IF k = 0 THEN node
            ELSE LET m == chain[k-1] IN IF m = Null THEN Null ELSE nodes[m].next
    IN  {chain[k] : k \in 0 .. Len(nodes)} \ {Null}

Members(node) == {nodes[k].c : k \in Chain(node)}

\* A list that holds each of these sets once.
Lists(node, sets) ==
    /\ Members(node) = sets
    /\ Cardinality(Chain(node)) = Cardinality(sets)

\* It is as it was put.
Intact(key, node) == Lists(node, put[key])

Top == frames[1]

\* extract_residual_arguments; NULL is the empty set.
ResidualArguments(frame) ==
    frame.arguments \ (frame.component \cup Victims(af, nodes[frame.component_extension].c))

Frame(arguments) ==
    [arguments |-> arguments, component |-> {}, component_extension |-> Null,
     first |-> Null, last |-> Null, n |-> 0]

Init ==
    /\ prob \in {"EE", "CE"}
    /\ routine \in IF prob = "EE" THEN Routines ELSE {"norris"}
    /\ af \in Inputs
    /\ nodes = <<>> /\ freed = {}
    /\ subextensions = <<>> /\ subextension_counts = <<>>
    /\ frames = <<Frame(Arg)>>
    /\ returned = Null /\ n = 0
    /\ pc = "call"
    /\ put = <<>> /\ stale = FALSE

-------------------------------------------------------------------------------
(* A call of compute_extensions or count_extensions.                         *)

Pop(list, number) ==
    /\ returned' = list
    /\ n' = number
    /\ frames' = Tail(frames)
    /\ pc' = IF Len(frames) = 1 THEN "done" ELSE "append"

\* The map has the answer.
CallHit ==
    /\ pc = "call" /\ prob = "EE"
    /\ LET list == Lookup(subextensions, Top.arguments)
       IN  /\ list # Null
           /\ Pop(list, n)
           /\ stale' = (stale \/ ~Intact(Top.arguments, list))
    /\ UNCHANGED <<prob, routine, af, nodes, freed, subextensions, subextension_counts, put>>

CountHit ==
    /\ pc = "call" /\ prob = "CE"
    /\ Top.arguments \in DOMAIN subextension_counts
    /\ Pop(returned, subextension_counts[Top.arguments])
    /\ UNCHANGED <<prob, routine, af, nodes, freed, subextensions, subextension_counts,
                   put, stale>>

FindComponent ==
    /\ pc = "call"
    /\ IF prob = "EE" THEN Lookup(subextensions, Top.arguments) = Null
                      ELSE Top.arguments \notin DOMAIN subextension_counts
    /\ frames' = [frames EXCEPT ![1].component = SourceComponent(af, Top.arguments)]
    /\ pc' = "component"
    /\ UNCHANGED <<prob, routine, af, nodes, freed, subextensions, subextension_counts,
                   returned, n, put, stale>>

\* get_component_extensions finds the list in the map.
UseComponent ==
    /\ pc = "component"
    /\ LET list == Lookup(subextensions, Top.component)
       IN  /\ list # Null
           /\ frames' = [frames EXCEPT ![1].component_extension = list]
           /\ pc' = IF list \in freed THEN "crash" ELSE "loop"
           /\ stale' = (stale \/ (list \notin freed /\ ~Intact(Top.component, list)))
    /\ UNCHANGED <<prob, routine, af, nodes, freed, subextensions, subextension_counts,
                   returned, n, put>>

\* It computes the list and puts it into the map, NULL too, unless the process ends.
SolveComponent ==
    /\ pc = "component"
    /\ Lookup(subextensions, Top.component) = Null
    /\ \E exts \in {ComponentExtensions(Top.component)} : \E list \in Listings(exts) :
           LET base == Len(nodes)
               first == IF list = <<>> THEN Null ELSE base + 1
           IN  /\ nodes' = nodes \o [k \in DOMAIN list |->
                      [c |-> list[k], next |-> IF k = Len(list) THEN Null ELSE base + k + 1]]
               /\ subextensions' = Put(Top.component, first, subextensions)
               /\ subextension_counts' =
                      IF prob = "CE" THEN Put(Top.component, Len(list), subextension_counts)
                                     ELSE subextension_counts
               /\ frames' = [frames EXCEPT ![1].component_extension = first]
    /\ put' = Put(Top.component, ComponentExtensions(Top.component), put)
    /\ pc' = IF crashes(routine, Projection(Top.component)) THEN "crash" ELSE "loop"
    /\ UNCHANGED <<prob, routine, af, freed, returned, n, stale>>

\* The component is all there is.  The count frees the list that the map keeps.
WholeComponent ==
    /\ pc = "loop" /\ Top.component = Top.arguments
    /\ Pop(Top.component_extension,
           IF prob = "CE" THEN subextension_counts[Top.component] ELSE n)
    /\ freed' = IF prob = "CE" THEN freed \cup Chain(Top.component_extension) ELSE freed
    /\ UNCHANGED <<prob, routine, af, nodes, subextensions, subextension_counts, put, stale>>

-------------------------------------------------------------------------------
(* The loop over the extensions of the component.                            *)

Looping == pc = "loop" /\ Top.component # Top.arguments

InLoop == Looping /\ Top.component_extension # Null

Advanced == nodes[Top.component_extension].next

Descend ==
    /\ InLoop
    /\ ResidualArguments(Top) # {}
    /\ frames' = <<Frame(ResidualArguments(Top))>> \o frames
    /\ pc' = "call"
    /\ UNCHANGED <<prob, routine, af, nodes, freed, subextensions, subextension_counts,
                   returned, n, put, stale>>

\* last_node->next = node, where heap is the rest of the change; head->next is first.
LinkLast(heap, node) ==
    /\ nodes' = IF Top.last = Null THEN heap ELSE [heap EXCEPT ![Top.last].next = node]

\* Fault: the list returned is not walked through to its end.
AppendFirst ==
    /\ pc = "append" /\ prob = "EE" /\ returned # Null
    /\ LET node == Len(nodes) + 1
           union == nodes[Top.component_extension].c \cup nodes[returned].c
       IN  /\ LinkLast(Append(nodes, [c |-> union, next |-> Null]), node)
           /\ frames' = [frames EXCEPT ![1].last = node,
                             ![1].first = IF Top.first = Null THEN node ELSE Top.first]
    /\ returned' = Null
    /\ UNCHANGED <<prob, routine, af, freed, subextensions, subextension_counts,
                   n, pc, put, stale>>

\* One union for each extension of what the component extension leaves.
AppendUnion ==
    /\ pc = "append" /\ prob = "EE" /\ returned # Null
    /\ LET node == Len(nodes) + 1
           union == nodes[Top.component_extension].c \cup nodes[returned].c
       IN  /\ LinkLast(Append(nodes, [c |-> union, next |-> Null]), node)
           /\ frames' = [frames EXCEPT ![1].last = node,
                             ![1].first = IF Top.first = Null THEN node ELSE Top.first]
    /\ returned' = nodes[returned].next
    /\ UNCHANGED <<prob, routine, af, freed, subextensions, subextension_counts,
                   n, pc, put, stale>>

Appended ==
    /\ pc = "append" /\ prob = "EE" /\ returned = Null
    /\ frames' = [frames EXCEPT ![1].component_extension = Advanced]
    /\ pc' = "loop"
    /\ UNCHANGED <<prob, routine, af, nodes, freed, subextensions, subextension_counts,
                   returned, n, put, stale>>

\* Fault: the loop goes on with the same component extension.
CountAgain ==
    /\ pc = "append" /\ prob = "CE"
    /\ frames' = [frames EXCEPT ![1].n = n]
    /\ pc' = "loop"
    /\ UNCHANGED <<prob, routine, af, nodes, freed, subextensions, subextension_counts,
                   returned, n, put, stale>>

CountResidual ==
    /\ pc = "append" /\ prob = "CE"
    /\ frames' = [frames EXCEPT ![1].n = @ + n, ![1].component_extension = Advanced]
    /\ pc' = "loop"
    /\ UNCHANGED <<prob, routine, af, nodes, freed, subextensions, subextension_counts,
                   returned, n, put, stale>>

\* Nothing is left: the node itself moves from the component's list to the
\* result, and the component's list ends with it.
Relink ==
    /\ InLoop /\ prob = "EE"
    /\ ResidualArguments(Top) = {}
    /\ LET node == Top.component_extension
       IN  /\ LinkLast([nodes EXCEPT ![node].next = Null], node)
           /\ frames' = [frames EXCEPT ![1].last = node, ![1].component_extension = Advanced,
                             ![1].first = IF Top.first = Null THEN node ELSE Top.first]
    /\ UNCHANGED <<prob, routine, af, freed, subextensions, subextension_counts,
                   returned, n, pc, put, stale>>

CountOne ==
    /\ InLoop /\ prob = "CE"
    /\ ResidualArguments(Top) = {}
    /\ frames' = [frames EXCEPT ![1].n = @ + 1, ![1].component_extension = Advanced]
    /\ UNCHANGED <<prob, routine, af, nodes, freed, subextensions, subextension_counts,
                   returned, n, pc, put, stale>>

\* The count is not put into its map.
Finish ==
    /\ Looping /\ Top.component_extension = Null
    /\ Pop(Top.first, Top.n)
    /\ subextensions' = IF prob = "EE" THEN Put(Top.arguments, Top.first, subextensions)
                                       ELSE subextensions
    /\ put' = IF prob = "EE" THEN Put(Top.arguments, Members(Top.first), put) ELSE put
    /\ UNCHANGED <<prob, routine, af, nodes, freed, subextension_counts, stale>>

\* A freed list has been read, by the count or the routine: there is no answer.
Stopped == pc \in {"done", "crash"} /\ UNCHANGED vars

Next ==
    \/ CallHit \/ CountHit \/ FindComponent \/ UseComponent \/ SolveComponent \/ WholeComponent
    \/ Descend \/ AppendUnion \/ Appended \/ CountResidual \/ Relink \/ CountOne
    \/ Finish \/ Stopped

Spec == Init /\ [][Next]_vars /\ WF_vars(Next)

-------------------------------------------------------------------------------
\* find_source_component: the component of a call is a strongly connected
\* component of what the call is about, and nothing else there attacks it.
ComponentIsSource ==
    \A k \in DOMAIN frames : frames[k].component # {} =>
        LET F == frames[k]
        IN  /\ F.component \subseteq F.arguments
            /\ \A a \in F.arguments, b \in F.component : b \in af[a] => a \in F.component
            /\ \A a \in F.component :
                   Visited(Forward(af, F.component), a) = F.component

\* "maps a subset of arguments to a list of stable extensions of the induced
\* argumentation subframework" (scc.c), whenever the map is read by a new call and
\* the routine lists just the stable extensions.
MapIntact ==
    pc = "call" /\ routine \notin {"mis", "nourine"} =>
        \A key \in DOMAIN subextensions :
            LET extensions == {MapIndices(e, ParentMapping(key)) :
                                  e \in StableExtensions(Projection(key))}
            IN  subextensions[key] \notin freed /\ Lists(subextensions[key], extensions)
================================================================================
