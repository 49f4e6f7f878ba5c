--------------------------------- MODULE Nourine ---------------------------------
(***************************************************************************)
(* algorithms/nourine/stable.c: stable extensions as complements of sets   *)
(* closed under implications.  A -> b says that an extension without the   *)
(* arguments of A is without b.  Implications and conflicts sharpen each   *)
(* other first; then the closed sets are walked through in lectic order.   *)
(* One action is one pass of the first loop or one index of the search.    *)
(***************************************************************************)
EXTENDS UnitImplications, LecticOrder, Sequences

CONSTANT Inputs     \* the frameworks the routines may be called with

VARIABLES
    prob,           \* "EE" ee_st_nourine, "SE" se_st_nourine, "CC" the routine
                    \* that the recursions over components call
    af,
    conflicts,
    imps,           \* the implications, [lhs, rhs]
    closure,
    i,              \* the index of next_dominating_closure
    extensions,     \* the list EE-ST returns
    result,         \* the caller's bitset of SE-ST
    pc              \* "update", "remove", "test", "search", "done"

vars == <<prob, af, conflicts, imps, closure, i, extensions, result, pc>>

Init ==
    /\ prob \in {"EE", "SE", "CC"}
    /\ af \in Inputs
    /\ conflicts = ConflictFramework(af)
    /\ imps = create_unit_implications(af)
    /\ closure = {} /\ i = N - 1
    /\ extensions = <<>> /\ result = {}
    /\ pc = "update"

UpdateConflicts ==
    /\ pc = "update"
    /\ conflicts' = Sharper(conflicts, imps)
    /\ pc' = "remove"
    /\ UNCHANGED <<prob, af, imps, closure, i, extensions, result>>

\* Something was removed: update_conflicts again.
RemoveConflicts ==
    /\ pc = "remove"
    /\ \E imp \in imps : WithoutConflicts(conflicts, imp) # imp
    /\ imps' = {WithoutConflicts(conflicts, imp) : imp \in imps}
    /\ pc' = "update"
    /\ UNCHANGED <<prob, af, conflicts, closure, i, extensions, result>>

\* The walk starts from the closure of the empty set; only the routine for the
\* components looks at it, and stops if it is full.
StartWalk ==
    /\ pc = "remove"
    /\ \A imp \in imps : WithoutConflicts(conflicts, imp) = imp
    /\ closure' = unit_close({}, imps)
    /\ pc' = IF prob = "CC" /\ closure' = Arg THEN "done" ELSE "test"
    /\ UNCHANGED <<prob, af, conflicts, imps, i, extensions, result>>

ExtensionFound == IsConflictFree(af, Arg \ closure)

\* Fault: the search goes on from the index it has stopped at.
NextClosureResumes == i' = i /\ pc' = "search"

NextClosure == i' = N - 1 /\ pc' = "search"

Keep ==
    /\ pc = "test" /\ prob # "SE"
    /\ ExtensionFound
    /\ extensions' = <<Arg \ closure>> \o extensions
    /\ NextClosure
    /\ UNCHANGED <<prob, af, conflicts, imps, closure, result>>

KeepOne ==
    /\ pc = "test" /\ prob = "SE"
    /\ ExtensionFound
    /\ result' = Arg \ closure
    /\ pc' = "done"
    /\ UNCHANGED <<prob, af, conflicts, imps, closure, i, extensions>>

Pass ==
    /\ pc = "test"
    /\ ~ExtensionFound
    /\ NextClosure
    /\ UNCHANGED <<prob, af, conflicts, imps, closure, extensions, result>>

\* next_dominating_closure edits the set in place.
Drop ==
    /\ pc = "search" /\ i >= 0
    /\ i \in closure
    /\ closure' = closure \ {i}
    /\ i' = i - 1
    /\ UNCHANGED <<prob, af, conflicts, imps, extensions, result, pc>>

\* Fault: only the arguments from i on are tested for domination.
AdmittedFromI(next) ==
    \A j \in next : (j >= i \/ j \in closure) /\ (j >= i => ~(Attackers(af, j) \subseteq next))

\* The lectic-order test and the domination test: the complement attacks all
\* arguments of next.
Admitted(next) ==
    \A j \in next : (j >= i \/ j \in closure) /\ ~(Attackers(af, j) \subseteq next)

Try ==
    /\ pc = "search" /\ i >= 0
    /\ i \notin closure
    /\ \E next \in {unit_close(closure \cup {i}, imps)} :
           IF Admitted(next)
           THEN closure' = next /\ pc' = "test" /\ i' = i
           ELSE i' = i - 1 /\ UNCHANGED <<closure, pc>>
    /\ UNCHANGED <<prob, af, conflicts, imps, extensions, result>>

WalkOver ==
    /\ pc = "search" /\ i < 0
    /\ pc' = "done"
    /\ UNCHANGED <<prob, af, conflicts, imps, closure, i, extensions, result>>

Returned == pc = "done" /\ UNCHANGED vars

Next ==
    \/ UpdateConflicts \/ RemoveConflicts \/ StartWalk
    \/ Keep \/ KeepOne \/ Pass \/ Drop \/ Try \/ WalkOver \/ Returned

Spec == Init /\ [][Next]_vars /\ WF_vars(Next)

-------------------------------------------------------------------------------
\* While they sharpen each other, the implications hold of every stable extension,
\* and no stable extension holds two arguments in conflict.
ImplicationsHold ==
    \A S \in StableExtensions(af) :
        /\ \A imp \in imps : imp.lhs \cap S = {} => imp.rhs \notin S
        /\ \A a \in S : conflicts[a] \cap S = {}

Found == ({extensions[k] : k \in DOMAIN extensions} \cup {result}) \ {{}}

\* The walk passes over no extension: one that has not been found is the one under
\* test, or its complement is still ahead.
ExtensionsAhead ==
    (prob # "SE" \/ pc # "done") /\ pc \notin {"update", "remove"} =>
        \A S \in StableExtensions(af) \ Found :
            \/ pc = "test" /\ (Arg \ S = closure \/ LecticLess(closure, Arg \ S))
            \/ pc = "search" /\ Ahead(closure, i, Arg \ S)
================================================================================
