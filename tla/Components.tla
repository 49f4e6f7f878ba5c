------------------------------- MODULE Components -------------------------------
(***************************************************************************)
(* Reachability and components as algorithms/connected-components/         *)
(* computes them (scc.c, wcc.c), restricted to a set of arguments.         *)
(***************************************************************************)
EXTENDS AF

\* The orders in which a list can have the members of a set.
Listings(set) ==
    {l \in [1 .. Cardinality(set) -> set] :
        \A e \in set : \E k \in 1 .. Cardinality(set) : l[k] = e}

\* What a depth-first search from a marks: neighbours[b] are the arguments it
\* can go on to from b.
Visited(neighbours, a) ==
    LET within[n \in Nat] ==
            IF n = 0 THEN {a} ELSE UNION {neighbours[b] \cup {b} : b \in within[n-1]}
    IN  within[Cardinality(DOMAIN neighbours) - 1]

\* dfs and backward_dfs in the part of att that is induced by arguments.
Forward(att, arguments) == [b \in DOMAIN att |-> att[b] \cap arguments]

Backward(att, arguments) ==
    [b \in DOMAIN att |-> {c \in arguments : b \in att[c]}]

\* undirected_dfs: attacks in either direction.
Undirected(att) ==
    [b \in DOMAIN att |-> att[b] \cup {c \in DOMAIN att : b \in att[c]}]

\* The arguments a search is started from, in index order: those no earlier
\* start has come to.
Starts(neighbours, arguments) ==
    {a \in arguments : \A b \in arguments : b < a => a \notin Visited(neighbours, b)}

\* Fault: the first start is taken for the source.
FirstSourceComponent(att, arguments) ==
    LET starts == Starts(Forward(att, arguments), arguments)
        source == CHOOSE a \in starts : \A b \in starts : b >= a
    IN  Visited(Backward(att, arguments), source)

\* The last start is in a component that nothing outside attacks.
SourceComponent(att, arguments) ==
    LET starts == Starts(Forward(att, arguments), arguments)
        source == CHOOSE a \in starts : \A b \in starts : b <= a
    IN  Visited(Backward(att, arguments), source)
================================================================================
