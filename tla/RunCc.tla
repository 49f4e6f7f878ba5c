---------------------------------- MODULE RunCc ----------------------------------
(***************************************************************************)
(* algorithms/connected-components/cc.c: run_cc, run_cc_preferred and      *)
(* run_scc_norris_count call one of the recursions over components and     *)
(* print what it returns.  The recursions are SccStable, WccStable and     *)
(* SccPreferred; only one of them runs.                                    *)
(***************************************************************************)
EXTENDS Components, Solvers, Sequences

CONSTANTS
    StableInputs,       \* the frameworks for "scc", "count" and "wcc"
    PreferredInputs     \* those for "preferred"

ASSUME InputsAssumption == StableInputs \cup PreferredInputs \subseteq Framework

VARIABLES
    alg,                \* "scc", "count", "wcc", "preferred"
    routine,            \* for the components, but those of "preferred"
    af,
    nodes, freed, subextensions, subextension_counts, n, put, stale,   \* SccStable
    frames, returned,                                 \* SccStable, SccPreferred
    components, extension_lists, res, cur, i,         \* WccStable
    pc,                 \* of the recursion; then "print", "exit"
    printed             \* what has been written to the output file

sccVars == <<nodes, freed, subextensions, subextension_counts, n, put, stale>>
frameVars == <<frames, returned>>
wccVars == <<components, extension_lists, res, cur, i>>
vars == <<alg, routine, af, sccVars, frameVars, wccVars, pc, printed>>

Scc == INSTANCE SccStable WITH
    Inputs <- StableInputs, stable_extensions <- Extensions, crashes <- Crashes,
    prob <- IF alg = "count" THEN "CE" ELSE "EE"

Wcc == INSTANCE WccStable WITH
    Inputs <- StableInputs, stable_extensions <- Extensions, crashes <- Crashes

Preferred == INSTANCE SccPreferred WITH Inputs <- PreferredInputs, base <- af

SccIdle ==
    /\ nodes = <<>> /\ freed = {} /\ n = 0 /\ put = <<>> /\ stale = FALSE
    /\ subextensions = <<>> /\ subextension_counts = <<>>

WccIdle ==
    components = <<>> /\ extension_lists = <<>> /\ res = <<>> /\ cur = 1 /\ i = 1

Init ==
    /\ printed = <<>>
    /\ \/ alg \in {"scc", "count"} /\ Scc!Init /\ WccIdle
       \/ alg = "wcc" /\ Wcc!Init /\ SccIdle /\ frames = <<>> /\ returned = 0
       \/ alg = "preferred" /\ Preferred!Init /\ routine = "next-closure" /\ SccIdle /\ WccIdle

Recurse ==
    /\ UNCHANGED <<alg, printed>>
    /\ \/ alg \in {"scc", "count"} /\ Scc!Next /\ UNCHANGED wccVars
       \/ alg = "wcc" /\ Wcc!Next /\ UNCHANGED <<sccVars, frameVars>>
       \/ alg = "preferred" /\ Preferred!Next /\ UNCHANGED <<routine, sccVars, wccVars>>

\* The routine has returned.  head is NULL after wcc's early return, although
\* lists of other components may have been computed.
Return ==
    /\ pc = "done"
    /\ pc' = "print"
    /\ UNCHANGED <<alg, routine, af, sccVars, frameVars, wccVars, printed>>

\* print_extension for the nodes of the list, one after the other.
PrintNode ==
    /\ pc = "print" /\ alg = "scc" /\ returned # Scc!Null
    /\ printed' = Append(printed, nodes[returned].c)
    /\ returned' = nodes[returned].next
    /\ UNCHANGED <<alg, routine, af, sccVars, frames, wccVars, pc>>

PrintUnion ==
    /\ pc = "print" /\ alg = "wcc" /\ res # <<>>
    /\ printed' = Append(printed, Head(res))
    /\ res' = Tail(res)
    /\ UNCHANGED <<alg, routine, af, sccVars, frameVars, components, extension_lists, cur, i, pc>>

PrintPreferred ==
    /\ pc = "print" /\ alg = "preferred" /\ returned # <<>>
    /\ printed' = Append(printed, Head(returned))
    /\ returned' = Tail(returned)
    /\ UNCHANGED <<alg, routine, af, sccVars, frames, wccVars, pc>>

\* The list is at its end; the count is one number.
Exit ==
    /\ pc = "print"
    /\ \/ alg = "count" /\ printed' = <<n>>
       \/ alg = "scc" /\ returned = Scc!Null /\ printed' = printed
       \/ alg = "wcc" /\ res = <<>> /\ printed' = printed
       \/ alg = "preferred" /\ returned = <<>> /\ printed' = printed
    /\ pc' = "exit"
    /\ UNCHANGED <<alg, routine, af, sccVars, frameVars, wccVars>>

Exited == pc = "exit" /\ UNCHANGED vars

Next ==
    \/ Recurse \/ Return \/ PrintNode \/ PrintUnion \/ PrintPreferred \/ Exit \/ Exited

\* The process goes on until it has ended: WF_vars(Next), with what Next is enabled in
\* written out.
Fairness == []<>(pc \in {"exit", "crash"}) \/ []<><<TRUE>>_vars

Spec == Init /\ [][Next]_vars /\ Fairness

-------------------------------------------------------------------------------
\* find_source_component: the component of a call is a strongly connected
\* component of what the call is about, and nothing else there attacks it.
ComponentIsSource == alg \in {"scc", "count"} => Scc!ComponentIsSource

\* In the middle of the in-place product of the lists, what is before the cursor
\* and what is behind it are extensions of the components joined so far.
JoinedSoFar == alg = "wcc" => Wcc!JoinedSoFar

\* A call of compute_preferred_extensions hands back the preferred extensions of
\* the framework with self-attacks it was called for.
CallContract == alg = "preferred" => Preferred!CallContract

\* The first closure that Nourine's algorithm finds in the part of af that component
\* induces, and tests for conflicts only.
FirstClosure(component) ==
    MapIndices(Implications!FirstSet(Scc!Projection(component)), ParentMapping(component))

\* The sets of arguments whose extensions a routine is asked for.
Parts ==
    IF alg = "wcc" THEN {Visited(Undirected(af), a) : a \in Arg}
    ELSE {component \in SUBSET Arg :
             \A a \in component : Visited(Forward(af, component), a) = component}

\* Each set holds what it does not attack, and holds nothing that it attacks, but in
\* components of which it has the first closure.
Answer(S) ==
    /\ IsConflictFree(af, S)
    /\ \A a \in Arg \ (S \cup Victims(af, S)) :
           /\ routine = "nourine"
           /\ \E component \in Parts : a \in component /\ S \cap component = FirstClosure(component)

Printed == {printed[k] : k \in DOMAIN printed}

\* What is printed is the answer, each set once: the extensions of the framework read
\* or their number, if the routine for the components is right about them.  mis may
\* lose some if an argument follows a self-attacker; Nourine's algorithm may take the
\* first closure in a component for an extension of it.  EE-ST by strongly connected
\* components is exempt once a list was read from the map that is no longer the one
\* put there, and a run that does not come to an end prints nothing.
OutputRight ==
    pc = "exit" /\ ~stale =>
        /\ Len(printed) = Cardinality(Printed)
        /\ alg \in {"scc", "wcc"} =>
               /\ \A S \in Printed : Answer(S)
               /\ \/ StableExtensions(af) \subseteq Printed
                  \/ routine = "mis" /\ ~SelfAttackersLast(af)
        /\ alg = "preferred" => Printed = PreferredExtensions(af)
        /\ alg = "count" => printed = <<Cardinality(StableExtensions(af))>>

\* The recursions end on every input; in a crash only when a count reads a list it
\* has freed, or Norris' algorithm frees the head of its list in a component.
Termination ==
    <>(\/ pc = "exit"
       \/ pc = "crash" /\ alg = "count"
       \/ pc = "crash" /\ alg = "wcc" /\ routine = "norris")
================================================================================
