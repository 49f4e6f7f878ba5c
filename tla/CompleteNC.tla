------------------------------- MODULE CompleteNC -------------------------------
(***************************************************************************)
(* ee_co_next_closure of algorithms/next-closure/complete.c: all complete  *)
(* extensions, found among the semi-complete sets in lectic order as those *)
(* that attack all their attackers.                                        *)
(***************************************************************************)
EXTENDS SemiCompleteNC, Semantics, Sequences

CONSTANT Inputs     \* the frameworks the input file may hold

VARIABLE extensions \* the list of extensions, the latest first

vars == <<searchVars, extensions>>

\* The closure of the empty set is the first to be tested.
Init ==
    /\ attacks \in Inputs
    /\ pruning = TRUE
    /\ current = SemiClosure(attacks, {})
    /\ tmp = {} /\ tmp_complement = {} /\ i = -1
    /\ pc = "check"
    /\ extensions = <<>>

Close == CloseTo(SemiClosure(attacks, tmp \cup {i}))

Search == (Drop \/ Skip \/ Close \/ Exhausted) /\ UNCHANGED extensions

Keep ==
    /\ pc = "check"
    /\ SelfDefending(attacks, current)
    /\ extensions' = <<current>> \o extensions
    /\ Enter(current)
    /\ UNCHANGED <<attacks, pruning, current>>

Pass ==
    /\ pc = "check"
    /\ ~SelfDefending(attacks, current)
    /\ Enter(current)
    /\ UNCHANGED <<attacks, pruning, current, extensions>>

Returned == pc = "done" /\ UNCHANGED vars

Next == Search \/ Keep \/ Pass \/ Returned

Spec == Init /\ [][Next]_vars /\ WF_vars(Next)

-------------------------------------------------------------------------------
\* "Peaceful arguments have to be the rightmost bits" (complete.c).
PeacefulLast ==
    \A a \in Peaceful(attacks), b \in Arg : a < b => b \in Peaceful(attacks)

\* The list is strictly descending, so no extension is listed twice.
Descending ==
    \A m, n \in DOMAIN extensions :
        m < n => LecticLess(extensions[n], extensions[m])
================================================================================
