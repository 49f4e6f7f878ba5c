--------------------------------- MODULE Solvers ---------------------------------
(***************************************************************************)
(* What the routines for EE-ST return that the recursions over components  *)
(* call through a pointer (cc.c): as sets, because each of them lists a    *)
(* set once, and their callers do not depend on the order.  RunStable      *)
(* compares them with the routines step by step.                           *)
(***************************************************************************)
EXTENDS IndependentSets, Semantics

Implications == INSTANCE UnitImplications

Concepts == INSTANCE ConceptLists

\* Nourine's routine for components returns NULL at once if the first closure is full:
\* it does not list the set without arguments.
NourineExtensions(att) == Implications!WalkedSets(att) \ {{}}

\* The sets that the routine lists for a framework.
Extensions(routine, att) ==
    CASE routine = "mis" -> MisExtensions(att)
      [] routine = "nourine" -> NourineExtensions(att)
      [] OTHER -> StableExtensions(att)

\* The routine uses memory that it has freed.
Crashes(routine, att) == routine = "norris" /\ Concepts!FreesHead(att)
================================================================================
