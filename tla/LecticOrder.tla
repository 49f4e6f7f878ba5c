------------------------------ MODULE LecticOrder ------------------------------
(***************************************************************************)
(* The lectic order on sets of arguments, in which index 0 weighs most,    *)
(* and what a search that walks through sets in this order still has       *)
(* before it.  The code never computes this order: it is what its index    *)
(* loops and canonicity tests realise, and the properties speak of it.     *)
(***************************************************************************)
EXTENDS AF

\* S and T agree on the indices below k.
SameBelow(S, T, k) == \A j \in Arg : j < k => (j \in S <=> j \in T)

LecticLess(S, T) == \E k \in Arg : k \in T /\ k \notin S /\ SameBelow(S, T, k)

\* A set that a search standing at index j of the set s can still reach.
Ahead(s, j, S) ==
    \E k \in Arg : k <= j /\ k \in S /\ k \notin s /\ SameBelow(s, S, k)
================================================================================
