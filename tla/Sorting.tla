--------------------------------- MODULE Sorting ---------------------------------
(***************************************************************************)
(* sort_af of af/sort.c: the orders of the arguments it can settle on, and *)
(* what it writes row by row into the framework for the result.            *)
(***************************************************************************)
EXTENDS AF

criteria == {"victims", "attackers", "victims/attackers", "attackers/victims",
             "victims-attackers"}

\* The value an argument is sorted by, as numerator and denominator.
Metric(att, criterion, a) ==
    LET victims == Cardinality(att[a])
        attackers == Cardinality({b \in DOMAIN att : a \in att[b]})
    IN  CASE criterion = "victims" -> <<victims, 1>>
          [] criterion = "attackers" -> <<attackers, 1>>
          [] criterion = "victims/attackers" -> <<victims, attackers>>
          [] criterion = "attackers/victims" -> <<attackers, victims>>
          [] OTHER -> <<victims - attackers, 1>>

\* 0/0 is a NaN, which < does not order; n/0 is an infinity.
IsNaN(x) == x = <<0, 0>>

LessMetric(x, y) == ~IsNaN(x) /\ ~IsNaN(y) /\ x[1] * y[2] < y[1] * x[2]

Permutations(set) == {m \in [set -> set] : \A a, b \in set : m[a] = m[b] => a = b}

\* What qsort may leave: ties in any order, and any order at all if a NaN keeps
\* the comparison from being one.
Orders(att, criterion, ascending) ==
    LET value == [a \in DOMAIN att |-> Metric(att, criterion, a)]
        Before(a, b) == IF ascending THEN LessMetric(value[a], value[b])
                                     ELSE LessMetric(value[b], value[a])
    IN  {m \in Permutations(DOMAIN att) :
            \/ \E a \in DOMAIN att : IsNaN(value[a])
            \/ \A a, b \in DOMAIN att : a < b => ~Before(m[b], m[a])}

\* Row i of the result when the result is the framework read: the bits set are
\* added to those that are there, and a later column may read an earlier one.
FillRow(att, order, i) ==
    LET last == Cardinality(DOMAIN att) - 1
        filled[j \in -1 .. last] ==
            IF j = -1 THEN att
            ELSE LET before == filled[j-1]
                 IN  IF order[j] \in before[order[i]]
                     THEN [before EXCEPT ![i] = @ \cup {j}] ELSE before
    IN  filled[last]

SortedInPlace(att, order) ==
    LET last == Cardinality(DOMAIN att) - 1
        filled[i \in -1 .. last] ==
            IF i = -1 THEN att ELSE FillRow(filled[i-1], order, i)
    IN  filled[last]
================================================================================
