---------------------------- MODULE SemiClosureLoop ----------------------------
(***************************************************************************)
(* closure_semi_complete of algorithms/next-closure/complete.c: passes     *)
(* over the arguments in index order that add what the set defends so      *)
(* far, with the victims of the set kept up to date on the way, until a    *)
(* pass adds nothing.  One action is one iteration of the inner loop or    *)
(* one evaluation of the outer condition.                                  *)
(***************************************************************************)
EXTENDS SemiComplete

CONSTANT Inputs     \* the frameworks the closure may be asked in

ASSUME InputsAssumption == Inputs \subseteq Framework

VARIABLES
    attacks,
    s,                  \* the set to close, kept unchanged
    r,                  \* the closure as far as computed
    victims_r,
    i,
    closure_modified,
    pc

vars == <<attacks, s, r, victims_r, i, closure_modified, pc>>

Init ==
    /\ attacks \in Inputs
    /\ s \in SUBSET Arg
    /\ r = s
    /\ victims_r = Victims(attacks, s)
    /\ i = 0
    /\ closure_modified = FALSE
    /\ pc = "pass"

\* attacked_by->graph[i] is a subset of the victims.
DefendedSoFar == Transpose(attacks)[i] \subseteq victims_r

\* Fault: arguments already in the set are added again.
AddAgain ==
    /\ pc = "pass" /\ i < N
    /\ DefendedSoFar
    /\ r' = r \cup {i}
    /\ victims_r' = victims_r \cup attacks[i]
    /\ closure_modified' = TRUE
    /\ i' = i + 1
    /\ UNCHANGED <<attacks, s, pc>>

Add ==
    /\ pc = "pass" /\ i < N
    /\ i \notin r /\ DefendedSoFar
    /\ r' = r \cup {i}
    /\ victims_r' = victims_r \cup attacks[i]
    /\ closure_modified' = TRUE
    /\ i' = i + 1
    /\ UNCHANGED <<attacks, s, pc>>

Leave ==
    /\ pc = "pass" /\ i < N
    /\ i \in r \/ ~DefendedSoFar
    /\ i' = i + 1
    /\ UNCHANGED <<attacks, s, r, victims_r, closure_modified, pc>>

\* Fault: the index is not reset for the next pass.
AgainFromTheEnd ==
    /\ pc = "pass" /\ i = N
    /\ closure_modified
    /\ closure_modified' = FALSE
    /\ i' = i + 1
    /\ UNCHANGED <<attacks, s, r, victims_r, pc>>

Again ==
    /\ pc = "pass" /\ i = N
    /\ closure_modified
    /\ closure_modified' = FALSE
    /\ i' = 0
    /\ UNCHANGED <<attacks, s, r, victims_r, pc>>

\* Fault: one pass is taken to be enough.
FinishAfterOnePass ==
    /\ pc = "pass" /\ i = N
    /\ pc' = "done"
    /\ UNCHANGED <<attacks, s, r, victims_r, i, closure_modified>>

Finish ==
    /\ pc = "pass" /\ i = N
    /\ ~closure_modified
    /\ pc' = "done"
    /\ UNCHANGED <<attacks, s, r, victims_r, i, closure_modified>>

Returned == pc = "done" /\ UNCHANGED vars

Next == Add \/ Leave \/ Again \/ Finish \/ Returned

Spec == Init /\ [][Next]_vars /\ WF_vars(Next)

-------------------------------------------------------------------------------
TypeOK ==
    /\ attacks \in Framework
    /\ s \in SUBSET Arg
    /\ r \in SUBSET Arg
    /\ victims_r \in SUBSET Arg
    /\ i \in 0 .. N
    /\ closure_modified \in BOOLEAN
    /\ pc \in {"pass", "done"}

\* The loop returns the least set that contains s and every argument it
\* defends, although one pass sees only the victims collected before it.
LeastClosure == pc = "done" => r = SemiClosure(attacks, s)

\* The incremental update never lets the victims fall behind the set.
VictimsInStep == victims_r = Victims(attacks, r)

\* The outer loop ends: every pass but the last adds an argument.
Termination == <>(pc = "done")
================================================================================
